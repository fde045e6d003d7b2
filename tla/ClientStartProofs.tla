-------------------------- MODULE ClientStartProofs --------------------------
(* Proofs about ClientStart, for every set of configurations and any number *)
(* of calls of Connect: the connections that Disconnect cannot close, and   *)
(* the options a client of the library is made with.  Both are carried to   *)
(* MqttDelivery, which contains a start, by MqttDeliveryProofs.             *)
EXTENDS ClientStart, FiniteSetTheorems, SequenceTheorems, TLAPS

(* The clients of the library form a sequence, and the field names one. *)
ConnsInOrder == /\ conns \in Seq({conns[i] : i \in DOMAIN conns})
                /\ own \in 0..Len(conns)
                /\ connect \in [Connects -> {"idle", "make", "test", "dial",
                                             "wait", "ok", "error"}]
                /\ \A c \in Connects :
                     connect[c] \in {"test", "dial"} => own # 0

(* Without a race one call is at work, and it makes a client only for a     *)
(* field that is empty. *)
OneAtWork ==
  ~raced => /\ \A c, d \in Connects : AtWork(c) /\ AtWork(d) => c = d
            /\ \A c \in Connects : connect[c] = "make" => own = 0

(* Without a race a client outside the field is one of JetStream that came  *)
(* before the one in the field, open or not. *)
StraysOfJetStream ==
  ~raced => \A i \in DOMAIN conns \ {own} :
              setup.type = "nats-jetstream" /\ (own = 0 \/ i < own)

StartInv == ConnsInOrder /\ OneAtWork /\ StraysOfJetStream
----------------------------------------------------------------------------
(* A sequence is one over its own elements. *)
LEMMA OwnElements ==
  ASSUME NEW S, NEW s \in Seq(S)
  PROVE  s \in Seq({s[i] : i \in DOMAIN s})
OBVIOUS

(* Changing the status of a connection leaves the sequence in order. *)
LEMMA StatusKeepsOrder ==
  ASSUME ConnsInOrder, NEW i \in DOMAIN conns, NEW status, Library(i, status)
  PROVE  /\ conns' \in Seq({conns'[k] : k \in DOMAIN conns'})
         /\ Len(conns') = Len(conns) /\ DOMAIN conns' = DOMAIN conns
<1> DEFINE New == [conns[i] EXCEPT !.status = status]
           All == {conns[k] : k \in DOMAIN conns} \union {New}
<1>1. conns' = [conns EXCEPT ![i] = New]
  BY DEF Library
<1>2. conns \in Seq(All)
  BY DEF ConnsInOrder
<1>3. conns' \in Seq(All) /\ Len(conns') = Len(conns)
  <2> HIDE DEF New
  <2> QED BY <1>1, <1>2
<1> QED BY <1>2, <1>3, OwnElements

(* A new client comes last. *)
LEMMA MadeIsLast ==
  ASSUME ConnsInOrder, NEW options, NEW status, conns' = Made(options, status)
  PROVE  /\ conns' \in Seq({conns'[k] : k \in DOMAIN conns'})
         /\ Len(conns') = Len(conns) + 1 /\ Len(conns) \in Nat
         /\ DOMAIN conns = 1..Len(conns)
         /\ DOMAIN conns' = 1..(Len(conns) + 1)
<1> DEFINE New == [status |-> status, options |-> options, from |-> given]
           All == {conns[k] : k \in DOMAIN conns} \union {New}
<1>1. conns' = Append(conns, New)
  BY DEF Made
<1>2. conns \in Seq(All) /\ New \in All
  BY DEF ConnsInOrder
<1>3. conns' \in Seq(All) /\ Len(conns') = Len(conns) + 1
  <2> HIDE DEF New, All
  <2> QED BY <1>1, <1>2
<1> QED BY <1>2, <1>3, OwnElements
----------------------------------------------------------------------------
LEMMA StartInvInit == StartInit => StartInv
BY DEF StartInit, StartInv, ConnsInOrder, OneAtWork, StraysOfJetStream, AtWork

(* A new client of the library, in the field or, with JetStream, beside it. *)
LEMMA ClientMade ==
  ASSUME StartInv, NEW c \in Connects, connect[c] = "make",
         UNCHANGED <<before, using, raced>>, NEW o, NEW status,
         conns' = Made(o, status),
         \/ own' = Len(conns') /\ \E where \in {"test", "ok"} : To(c, where)
         \/ /\ setup.type = "nats-jetstream"
            /\ UNCHANGED own /\ To(c, "error")
  PROVE  StartInv'
<1> USE DEF StartInv
<1>1. /\ conns' \in Seq({conns'[k] : k \in DOMAIN conns'})
      /\ Len(conns') = Len(conns) + 1 /\ Len(conns) \in Nat
      /\ DOMAIN conns = 1..Len(conns) /\ DOMAIN conns' = 1..(Len(conns) + 1)
  BY MadeIsLast
<1>2. own \in 0..Len(conns) /\ (own' = Len(conns) + 1 \/ own' = own)
  BY <1>1 DEF ConnsInOrder
<1>3. PICK where \in {"test", "ok", "error"} :
        /\ connect' = [connect EXCEPT ![c] = where]
        /\ where = "test" => own' = Len(conns) + 1
  BY <1>1 DEF To
<1>4. ConnsInOrder'
  BY <1>1, <1>2, <1>3 DEF ConnsInOrder
<1>5. OneAtWork'
  BY <1>3 DEF OneAtWork, AtWork, ConnsInOrder
<1>6. StraysOfJetStream'
  <2>1. SUFFICES ASSUME ~raced, NEW i \in DOMAIN conns' \ {own'}
                 PROVE  /\ setup.type = "nats-jetstream"
                        /\ own' = 0 \/ i < own'
    BY DEF StraysOfJetStream, before
  <2>2. own = 0
    BY <2>1 DEF OneAtWork
  <2>3. CASE own' = Len(conns')
    BY <1>1, <2>1, <2>2, <2>3 DEF StraysOfJetStream
  <2>4. CASE setup.type = "nats-jetstream" /\ own' = own
    BY <2>2, <2>4
  <2> QED BY <2>3, <2>4
<1> QED BY <1>4, <1>5, <1>6

(* Every step of a start keeps the invariant, one case per action. *)
LEMMA StartInvNext == StartInv /\ [StartNext]_startVars => StartInv'
<1> SUFFICES ASSUME StartInv, [StartNext]_startVars PROVE StartInv'
  OBVIOUS
<1> USE DEF StartInv
<1>0. ASSUME NEW i \in DOMAIN conns, NEW status, Library(i, status),
             UNCHANGED <<before, own, calls>>
      PROVE  StartInv'
  <2>1. ConnsInOrder'
    BY <1>0, StatusKeepsOrder DEF ConnsInOrder, calls
  <2>2. OneAtWork' /\ StraysOfJetStream'
    BY <1>0, StatusKeepsOrder
    DEF OneAtWork, StraysOfJetStream, AtWork, before, calls
  <2> QED BY <2>1, <2>2
<1>1. CASE NewMessageClient \/ SetOption
  BY <1>1 DEF NewMessageClient, SetOption, ConnsInOrder, OneAtWork,
              StraysOfJetStream, AtWork, calls
<1>2. ASSUME NEW c \in Connects, Look(c) PROVE StartInv'
  <2>1. ConnsInOrder'
    BY <1>2 DEF Look, To, ConnsInOrder
  <2>2. OneAtWork'
    BY <1>2 DEF Look, To, OneAtWork, AtWork, ConnsInOrder
  <2>3. StraysOfJetStream'
    BY <1>2 DEF Look, StraysOfJetStream, before
  <2> QED BY <2>1, <2>2, <2>3
<1>3. ASSUME NEW c \in Connects, MakePaho(c) PROVE StartInv'
  <2>1. IsMqtt /\ connect[c] = "make" /\ UNCHANGED <<before, using, raced>>
    BY <1>3, Zenon DEF MakePaho
  <2>2. CASE To(c, "error") /\ UNCHANGED <<conns, own>>
    BY <2>1, <2>2 DEF To, ConnsInOrder, OneAtWork, StraysOfJetStream, AtWork,
                      before
  <2>3. ASSUME NEW o, conns' = Made(o, "new"), own' = Len(conns'),
               To(c, "test")
        PROVE  StartInv'
    BY <2>1, <2>3, ClientMade DEF IsMqtt
  <2> QED BY <1>3, <2>2, <2>3, Zenon DEF MakePaho
<1>4. ASSUME NEW c \in Connects, TestConnected(c) PROVE StartInv'
  BY <1>4 DEF TestConnected, To, ConnsInOrder, OneAtWork, StraysOfJetStream,
              AtWork, before
<1>5. ASSUME NEW c \in Connects, Dial(c) PROVE StartInv'
  <2>1. own \in DOMAIN conns
    BY <1>5 DEF Dial, ConnsInOrder
  <2>2. CASE UNCHANGED conns
    BY <1>5, <2>2 DEF Dial, To, ConnsInOrder, OneAtWork, StraysOfJetStream,
                      AtWork, before
  <2>3. CASE Library(own, "connecting") /\ To(c, "wait")
    <3>1. ConnsInOrder'
      BY <1>5, <2>1, <2>3, StatusKeepsOrder DEF Dial, To, ConnsInOrder
    <3>2. OneAtWork'
      BY <1>5, <2>3 DEF Dial, To, OneAtWork, AtWork, ConnsInOrder
    <3>3. StraysOfJetStream'
      BY <1>5, <2>1, <2>3, StatusKeepsOrder
      DEF Dial, StraysOfJetStream, before
    <3> QED BY <3>1, <3>2, <3>3
  <2> QED BY <1>5, <2>2, <2>3 DEF Dial
<1>6. ASSUME NEW c \in Connects, TokenEnds(c) PROVE StartInv'
  BY <1>6 DEF TokenEnds, To, ConnsInOrder, OneAtWork, StraysOfJetStream,
              AtWork, before
<1>7. ASSUME NEW c \in Connects, MakeNats(c) PROVE StartInv'
  <2>1. connect[c] = "make" /\ UNCHANGED <<before, using, raced>>
    BY <1>7, Zenon DEF MakeNats
  <2>2. CASE To(c, "error") /\ UNCHANGED <<conns, own>>
    BY <2>1, <2>2 DEF To, ConnsInOrder, OneAtWork, StraysOfJetStream, AtWork,
                      before
  <2>3. ASSUME NEW o, NEW status, conns' = Made(o, status),
               \/ own' = Len(conns') /\ To(c, "ok")
               \/ /\ setup.type = "nats-jetstream"
                  /\ UNCHANGED own /\ To(c, "error")
        PROVE  StartInv'
    BY <2>1, <2>3, ClientMade
  <2> QED BY <1>7, <2>2, <2>3, Zenon DEF MakeNats
<1>8. CASE Disconnect
  BY <1>0, <1>8 DEF Disconnect, ConnsInOrder
<1>9. ASSUME NEW i \in DOMAIN conns, Environment(i) PROVE StartInv'
  BY <1>0, <1>9 DEF Environment, ConnectionUp, ConnectionFails, ConnectionLost
<1>10. CASE UNCHANGED startVars
  BY <1>10 DEF startVars, before, calls, ConnsInOrder, OneAtWork,
               StraysOfJetStream, AtWork
<1> QED
  BY <1>1, <1>2, <1>3, <1>4, <1>5, <1>6, <1>7, <1>8, <1>9, <1>10
  DEF StartNext, Starting, Connecting
----------------------------------------------------------------------------
(* A configuration is loaded, or it is not. *)
LEMMA OneConfiguration ==
  ASSUME NEW s PROVE Cardinality(CreateClientConfiguration(s)) <= 1
<1>1. ASSUME NEW x PROVE Cardinality({x}) <= 1
  BY FS_Singleton
<1>2. Cardinality({}) <= 1
  BY FS_EmptySet
<1>3. \/ CreateClientConfiguration(s) = {}
      \/ \E x : CreateClientConfiguration(s) = {x}
  BY DEF CreateClientConfiguration, LoadBoth
<1> QED BY <1>1, <1>2, <1>3

(* A client of the library is a record with a status. *)
Stamped == \A i \in DOMAIN conns : "status" \in DOMAIN conns[i]

LEMMA StartTypedInit == StartInit => StartTypeOK /\ Stamped
<1> SUFFICES ASSUME StartInit PROVE StartTypeOK /\ Stamped OBVIOUS
<1>1. setup \in Setups /\ given = setup.given /\ conns = <<>> /\ own = 0
  BY DEF StartInit
<1>2. /\ DOMAIN given \subseteq STRING
      /\ \A n \in DOMAIN given : given[n] \in Texts
  BY <1>1, SetupShape
<1>3. Cardinality(config) <= 1
  BY FS_EmptySet DEF StartInit
<1>4. Len(conns) = 0 /\ DOMAIN conns = {}
  BY <1>1
<1>5. /\ using \in [Connects -> 0..Len(conns)] /\ own \in 0..Len(conns)
      /\ connect \in [Connects -> {"idle", "make", "test", "dial", "wait",
                                   "ok", "error"}]
  BY <1>1, <1>4 DEF StartInit
<1> QED BY <1>1, <1>2, <1>3, <1>4, <1>5 DEF StartInit, StartTypeOK, Stamped

(* Every step of a start keeps the types, one case per action. *)
LEMMA StartTypedNext ==
  StartInv /\ StartTypeOK /\ Stamped /\ [StartNext]_startVars
    => StartTypeOK' /\ Stamped'
<1> DEFINE Typed == StartTypeOK /\ Stamped
<1> SUFFICES ASSUME StartInv, Typed, [StartNext]_startVars
             PROVE  Typed'
  OBVIOUS
<1> DEFINE Places == {"idle", "make", "test", "dial", "wait", "ok", "error"}
<1>a. /\ setup \in Setups /\ created \in {"no", "yes", "error"}
      /\ DOMAIN given \subseteq STRING
      /\ \A n \in DOMAIN given : given[n] \in Texts
      /\ Cardinality(config) <= 1
  BY DEF StartTypeOK
<1>b. /\ \A i \in DOMAIN conns : conns[i].status \in Statuses
      /\ own \in 0..Len(conns) /\ using \in [Connects -> 0..Len(conns)]
      /\ connect \in [Connects -> Places] /\ raced \in BOOLEAN
  BY DEF StartTypeOK
<1>c. \A i \in DOMAIN conns : "status" \in DOMAIN conns[i]
  BY DEF Stamped
<1> HIDE DEF Places
<1>0. ASSUME setup' \in Setups, created' \in {"no", "yes", "error"},
             DOMAIN given' \subseteq STRING,
             \A n \in DOMAIN given' : given'[n] \in Texts,
             Cardinality(config') <= 1,
             \A i \in DOMAIN conns' : /\ conns'[i].status \in Statuses
                                      /\ "status" \in DOMAIN conns'[i],
             own' \in 0..Len(conns'), raced' \in BOOLEAN,
             using' \in [Connects -> 0..Len(conns')],
             connect' \in [Connects -> Places]
      PROVE  Typed'
  BY <1>0 DEF StartTypeOK, Stamped, Places
<1> HIDE DEF Typed
<1>1. ASSUME UNCHANGED before, NEW i \in DOMAIN conns, NEW status \in Statuses,
             Library(i, status), own' = own, raced' = raced,
             using' \in [Connects -> 0..Len(conns)],
             connect' \in [Connects -> Places]
      PROVE  Typed'
  <2>1. DOMAIN conns' = DOMAIN conns /\ Len(conns') = Len(conns)
    BY <1>1, StatusKeepsOrder DEF StartInv
  <2>2. \A k \in DOMAIN conns' : /\ conns'[k].status \in Statuses
                                 /\ "status" \in DOMAIN conns'[k]
    <3>1. ASSUME NEW k \in DOMAIN conns', k # i PROVE conns'[k] = conns[k]
      BY <1>1, <2>1, <3>1 DEF Library
    <3>2. conns'[i].status = status /\ "status" \in DOMAIN conns'[i]
      BY <1>1, <1>c, <2>1 DEF Library
    <3> QED BY <1>1, <1>b, <1>c, <2>1, <3>1, <3>2
  <2> QED BY <1>0, <1>1, <1>a, <1>b, <1>c, <2>1, <2>2 DEF before
<1>2. ASSUME UNCHANGED before, UNCHANGED conns,
             own' \in 0..Len(conns), raced' \in BOOLEAN,
             using' \in [Connects -> 0..Len(conns)],
             connect' \in [Connects -> Places]
      PROVE  Typed'
  BY <1>0, <1>2, <1>a, <1>b, <1>c DEF before
<1>3. ASSUME UNCHANGED before, NEW o, NEW status \in Statuses,
             conns' = Made(o, status), own' \in {own, Len(conns')},
             UNCHANGED <<using, raced>>, connect' \in [Connects -> Places]
      PROVE  Typed'
  <2>1. /\ DOMAIN conns = 1..Len(conns) /\ Len(conns) \in Nat
        /\ DOMAIN conns' = 1..(Len(conns) + 1) /\ Len(conns') = Len(conns) + 1
    BY <1>3, MadeIsLast DEF StartInv
  <2>2. \A k \in DOMAIN conns' : /\ conns'[k].status \in Statuses
                                 /\ "status" \in DOMAIN conns'[k]
    <3>1. \A k \in DOMAIN conns : conns'[k] = conns[k]
      BY <1>3, <2>1 DEF Made, StartInv, ConnsInOrder
    <3>2. /\ conns'[Len(conns) + 1].status = status
          /\ "status" \in DOMAIN conns'[Len(conns) + 1]
      BY <1>3, <2>1 DEF Made, StartInv, ConnsInOrder
    <3> QED BY <1>3, <1>b, <1>c, <2>1, <3>1, <3>2
  <2>3. own' \in 0..Len(conns') /\ using' \in [Connects -> 0..Len(conns')]
    BY <1>3, <1>b, <2>1
  <2> QED BY <1>0, <1>3, <1>a, <1>b, <1>c, <2>2, <2>3 DEF before
<1>4. CASE NewMessageClient
  <2>1. Cardinality(config') <= 1
    <3>1. \/ config' = config
          \/ config' = {}
          \/ config' = CreateClientConfiguration([setup EXCEPT !.given = given])
      BY <1>4 DEF NewMessageClient
    <3> QED BY <1>a, <3>1, OneConfiguration, FS_EmptySet
  <2>2. created' \in {"no", "yes", "error"}
    BY <1>4 DEF NewMessageClient
  <2> QED BY <1>0, <1>4, <1>a, <1>b, <1>c, <2>1, <2>2 DEF NewMessageClient, calls
<1>5. CASE SetOption
  <2>1. PICK o \in setup.later :
          given' = [n \in DOMAIN given \union {o[1]} |->
                      IF n = o[1] THEN o[2] ELSE given[n]]
    BY <1>5 DEF SetOption
  <2>2. o[1] \in STRING /\ o[2] \in Texts
    BY <1>a, SetupShape
  <2>3. /\ DOMAIN given' \subseteq STRING
        /\ \A n \in DOMAIN given' : given'[n] \in Texts
    BY <1>a, <2>1, <2>2
  <2> QED BY <1>0, <1>5, <1>a, <1>b, <1>c, <2>3 DEF SetOption, calls
<1>6. ASSUME NEW c \in Connects, NEW where \in Places, To(c, where)
      PROVE  connect' \in [Connects -> Places]
  BY <1>6, <1>b DEF To
<1>7. ASSUME NEW c \in Connects, Look(c) PROVE Typed'
  <2>1. connect' \in [Connects -> Places]
    BY <1>6, <1>7 DEF Look, Places
  <2> QED BY <1>2, <1>7, <1>b, <2>1 DEF Look
<1>8. ASSUME NEW c \in Connects, MakePaho(c) PROVE Typed'
  <2>1. connect' \in [Connects -> Places]
    BY <1>6, <1>8 DEF MakePaho, Places
  <2>2. CASE UNCHANGED <<conns, own>>
    BY <1>2, <1>8, <1>b, <2>1, <2>2 DEF MakePaho
  <2>3. ASSUME NEW o, conns' = Made(o, "new"), own' = Len(conns')
        PROVE  Typed'
    BY <1>3, <1>8, <2>1, <2>3 DEF MakePaho, Statuses
  <2> QED BY <1>8, <2>2, <2>3 DEF MakePaho
<1>9. ASSUME NEW c \in Connects, TestConnected(c) PROVE Typed'
  <2>1. connect' \in [Connects -> Places]
    BY <1>6, <1>9 DEF TestConnected, Places
  <2>2. using' \in [Connects -> 0..Len(conns)]
    BY <1>9, <1>b DEF TestConnected
  <2> QED BY <1>2, <1>9, <1>b, <2>1, <2>2 DEF TestConnected
<1>10. ASSUME NEW c \in Connects, Dial(c) PROVE Typed'
  <2>1. connect' \in [Connects -> Places]
    BY <1>6, <1>10 DEF Dial, Places
  <2>2. using' \in [Connects -> 0..Len(conns)] /\ own \in DOMAIN conns
    BY <1>10, <1>b DEF Dial, StartInv, ConnsInOrder
  <2>3. CASE Library(own, "connecting")
    BY <1>1, <1>10, <2>1, <2>2, <2>3 DEF Dial, Statuses
  <2>4. CASE UNCHANGED conns
    BY <1>2, <1>10, <1>b, <2>1, <2>2, <2>4 DEF Dial
  <2> QED BY <1>10, <2>3, <2>4 DEF Dial
<1>11. ASSUME NEW c \in Connects, TokenEnds(c) PROVE Typed'
  <2>1. connect' \in [Connects -> Places]
    BY <1>6, <1>11 DEF TokenEnds, Places
  <2> QED BY <1>2, <1>11, <1>b, <2>1 DEF TokenEnds
<1>12. ASSUME NEW c \in Connects, MakeNats(c) PROVE Typed'
  <2>1. connect' \in [Connects -> Places]
    BY <1>6, <1>12 DEF MakeNats, Places
  <2>2. CASE UNCHANGED <<conns, own>>
    BY <1>2, <1>12, <1>b, <2>1, <2>2 DEF MakeNats
  <2>3. ASSUME NEW o, NEW status \in {"up", "reconnecting"},
               conns' = Made(o, status), own' \in {own, Len(conns')}
        PROVE  Typed'
    BY <1>3, <1>12, <2>1, <2>3 DEF MakeNats, Statuses
  <2> QED BY <1>12, <2>2, <2>3 DEF MakeNats
<1>13. ASSUME NEW i \in DOMAIN conns, NEW status \in Statuses,
              Library(i, status), UNCHANGED <<before, own, calls>>
       PROVE  Typed'
  BY <1>1, <1>13, <1>b DEF calls
<1>14. CASE Disconnect
  BY <1>13, <1>14 DEF Disconnect, Statuses, StartInv, ConnsInOrder
<1>15. ASSUME NEW i \in DOMAIN conns, Environment(i) PROVE Typed'
  BY <1>13, <1>15
  DEF Environment, ConnectionUp, ConnectionFails, ConnectionLost, Statuses
<1>16. CASE UNCHANGED startVars
  BY <1>2, <1>16, <1>b DEF startVars, calls
<1> QED
  BY <1>4, <1>5, <1>7, <1>8, <1>9, <1>10, <1>11, <1>12, <1>14, <1>15, <1>16
  DEF StartNext, Starting, Connecting
----------------------------------------------------------------------------
(* Two fields of an option struct have different names. *)
Unique(fields) ==
  \A i, j \in DOMAIN fields : fields[i][1] = fields[j][1] => i = j

(* The struct set is what the texts g say, with the values of des for the   *)
(* fields that they do not name.                                            *)
AsGiven(set, g, fields, des) ==
  \A k \in DOMAIN fields :
    IF fields[k][1] \in DOMAIN g
    THEN set[fields[k][1]] \in Parse(fields[k][2], g[fields[k][1]])
    ELSE set[fields[k][1]] = des[fields[k][1]]

LEMMA LoadedFields ==
  ASSUME NEW L, NEW F, NEW d, L = [ok |-> F = {}, des |-> d], L.ok
  PROVE  F = {} /\ L.des = d
<1>1. F = {} BY Zenon
<1>2. L.des = d OBVIOUS
<1> QED BY <1>1, <1>2

LEMMA LoadTakesAll ==
  ASSUME NEW g, NEW fields, NEW des, Unique(fields),
         \A k \in DOMAIN fields : fields[k][1] \in DOMAIN des,
         Load(g, fields, des).ok
  PROVE  AsGiven(Load(g, fields, des).des, g, fields, des)
<1> DEFINE provided  == {i \in DOMAIN fields : fields[i][1] \in DOMAIN g}
           parsed(i) == Parse(fields[i][2], g[fields[i][1]])
           failing   == {i \in provided : parsed(i) = {}}
           set       == {i \in provided : \A j \in failing : i < j}
           at(n)     == CHOOSE i \in DOMAIN fields : fields[i][1] = n
           pick(i)   == CHOOSE v \in parsed(i) : TRUE
           loaded    == [n \in DOMAIN des |-> IF at(n) \in set
                                              THEN pick(at(n)) ELSE des[n]]
<1>1. Load(g, fields, des) = [ok |-> failing = {}, des |-> loaded]
  BY DEF Load
<1>2. failing = {} /\ Load(g, fields, des).des = loaded
  <2> HIDE DEF failing, loaded
  <2> QED BY <1>1, LoadedFields
<1>3. set = provided BY <1>2
<1>4. \A k \in DOMAIN fields : at(fields[k][1]) = k
  BY DEF Unique
<1>5. ASSUME NEW k \in DOMAIN fields
      PROVE  loaded[fields[k][1]] = IF k \in provided
                                    THEN pick(k) ELSE des[fields[k][1]]
  <2> HIDE DEF at, set, provided, pick
  <2> QED BY <1>3, <1>4
<1>6. \A k \in provided : pick(k) \in parsed(k)
  <2> HIDE DEF parsed
  <2>1. \A k \in provided : parsed(k) # {} BY <1>2
  <2> QED BY <2>1
<1> HIDE DEF loaded, pick
<1> QED BY <1>2, <1>5, <1>6 DEF AsGiven

LEMMA FieldsAreUnique ==
  Unique(TlsFields) /\ Unique(MqttFields) /\ Unique(NatsFields)
<1>1. Unique(TlsFields) BY DEF Unique, TlsFields
<1>2. Unique(MqttFields) BY DEF Unique, MqttFields
<1>3. Unique(NatsFields) BY DEF Unique, NatsFields
<1> QED BY <1>1, <1>2, <1>3

LEMMA ZeroDomain ==
  ASSUME NEW fields
  PROVE  \A k \in DOMAIN fields : fields[k][1] \in DOMAIN Zero(fields)
<1>1. DOMAIN Zero(fields) = {fields[i][1] : i \in DOMAIN fields}
  BY DEF Zero
<1> QED BY <1>1

LEMMA DefaultsNamed ==
  /\ \A k \in DOMAIN TlsFields : TlsFields[k][1] \in DOMAIN Zero(TlsFields)
  /\ \A k \in DOMAIN MqttFields : MqttFields[k][1] \in DOMAIN MqttDefaults
  /\ \A k \in DOMAIN NatsFields : NatsFields[k][1] \in DOMAIN NatsDefaults
<1>1. DOMAIN MqttDefaults = DOMAIN Zero(MqttFields)
  BY DEF MqttDefaults
<1>2. DOMAIN NatsDefaults = DOMAIN Zero(NatsFields)
  BY DEF NatsDefaults
<1> QED BY <1>1, <1>2, ZeroDomain

(* The zero values of the TLS options. *)
LEMMA ZeroTls ==
  /\ Zero(TlsFields)["SkipCertVerify"] = FALSE
  /\ \A k \in 2..7 : Zero(TlsFields)[TlsFields[k][1]] = ""
<1> DEFINE All     == {TlsFields[i] : i \in DOMAIN TlsFields}
           kind(n) == (CHOOSE f \in All : f[1] = n)[2]
<1>1. ASSUME NEW k \in DOMAIN TlsFields
      PROVE  kind(TlsFields[k][1]) = TlsFields[k][2]
  <2>1. \A f \in All : f[1] = TlsFields[k][1] => f = TlsFields[k]
    BY FieldsAreUnique DEF Unique
  <2>2. TlsFields[k] \in All OBVIOUS
  <2> HIDE DEF All
  <2> QED BY <2>1, <2>2
<1>2. \A n \in {TlsFields[i][1] : i \in DOMAIN TlsFields} :
        /\ kind(n) = "bool" => Zero(TlsFields)[n] = FALSE
        /\ kind(n) = "string" => Zero(TlsFields)[n] = ""
  BY DEF Zero
<1>3. /\ DOMAIN TlsFields = 1..7
      /\ TlsFields[1] = <<"SkipCertVerify", "bool">>
      /\ \A k \in 2..7 : TlsFields[k][2] = "string"
  BY DEF TlsFields
<1> HIDE DEF kind
<1>4. Zero(TlsFields)["SkipCertVerify"] = FALSE
  <2>1. 1 \in DOMAIN TlsFields /\ TlsFields[1][1] = "SkipCertVerify"
        /\ TlsFields[1][2] = "bool"
    BY <1>3
  <2>2. kind("SkipCertVerify") = "bool" BY <1>1, <2>1
  <2> QED BY <1>2, <2>1, <2>2
<1>5. ASSUME NEW k \in 2..7 PROVE Zero(TlsFields)[TlsFields[k][1]] = ""
  <2>1. k \in DOMAIN TlsFields /\ TlsFields[k][2] = "string" BY <1>3
  <2>2. kind(TlsFields[k][1]) = "string" BY <1>1, <2>1
  <2> QED BY <1>2, <2>1, <2>2
<1> QED BY <1>4, <1>5

TlsTexts == {"CertFile", "KeyFile", "CaFile", "KeyPEMBlock", "CertPEMBlock",
             "CaPEMBlock"}
Text(g, n) == IF n \in DOMAIN g THEN g[n] ELSE ""

LEMMA TlsTextsTaken ==
  ASSUME NEW g, NEW tls, AsGiven(tls, g, TlsFields, Zero(TlsFields))
  PROVE  /\ \A n \in TlsTexts : tls[n] = Text(g, n)
         /\ IF "SkipCertVerify" \in DOMAIN g
            THEN tls["SkipCertVerify"] \in BoolOf[g["SkipCertVerify"]]
            ELSE tls["SkipCertVerify"] = FALSE
<1>1. /\ DOMAIN TlsFields = 1..7
      /\ TlsFields[1] = <<"SkipCertVerify", "bool">>
      /\ \A k \in 2..7 : TlsFields[k][2] = "string"
      /\ TlsTexts = {TlsFields[k][1] : k \in 2..7}
  BY DEF TlsFields, TlsTexts
<1>2. ASSUME NEW k \in 2..7
      PROVE  tls[TlsFields[k][1]] = Text(g, TlsFields[k][1])
  <2>1. k \in DOMAIN TlsFields /\ TlsFields[k][2] = "string" BY <1>1
  <2>2. Zero(TlsFields)[TlsFields[k][1]] = "" BY ZeroTls
  <2>3. \A t : Parse("string", t) = {t} BY DEF Parse
  <2> QED BY <2>1, <2>2, <2>3 DEF AsGiven, Text
<1>3. IF "SkipCertVerify" \in DOMAIN g
      THEN tls["SkipCertVerify"] \in BoolOf[g["SkipCertVerify"]]
      ELSE tls["SkipCertVerify"] = FALSE
  <2>1. 1 \in DOMAIN TlsFields /\ TlsFields[1][1] = "SkipCertVerify"
        /\ TlsFields[1][2] = "bool"
    BY <1>1
  <2>2. \A t : Parse("bool", t) = BoolOf[t] BY DEF Parse
  <2> QED BY <2>1, <2>2, ZeroTls DEF AsGiven
<1> QED BY <1>1, <1>2, <1>3

(* What GenerateTLSForClientClientOptions makes of the texts. *)
LEMMA TlsInForce ==
  ASSUME NEW i, NEW tls, AsGiven(tls, Source(i), TlsFields, Zero(TlsFields)),
         TlsTexts \subseteq DOMAIN tls,
         \A n \in DOMAIN Source(i) : Source(i)[n] \in Texts,
         conns[i].options.tls \in GenerateTLS(Scheme(setup), tls)
  PROVE  TlsAsGiven(i)
<1> DEFINE g     == Source(i)
           t     == conns[i].options.tls
           pem   == <<Text(g, "CertPEMBlock"), Text(g, "KeyPEMBlock")>>
           files == <<Text(g, "CertFile"), Text(g, "KeyFile")>>
           cas   == {Text(g, "CaPEMBlock"), Text(g, "CaFile")} \ {""}
           full(pair) == pair[1] # "" /\ pair[2] # ""
           asked == /\ "SkipCertVerify" \in DOMAIN g
                    /\ TRUE \in BoolOf[Text(g, "SkipCertVerify")]
<1>1. /\ \A n \in TlsTexts : tls[n] = Text(g, n) /\ Text(g, n) \in Texts
      /\ "" \in Texts \ Unusable
  <2>1. "" \in Texts \ Unusable BY TextShape
  <2>2. \A n : Text(g, n) \in Texts BY <2>1 DEF Text
  <2> QED BY <2>1, <2>2, TlsTextsTaken
<1>2. tls["SkipCertVerify"] \in BOOLEAN /\ (tls["SkipCertVerify"] <=> asked)
  <2>1. CASE "SkipCertVerify" \in DOMAIN g
    <3>1. /\ Text(g, "SkipCertVerify") \in Texts
          /\ tls["SkipCertVerify"] \in BoolOf[Text(g, "SkipCertVerify")]
      BY <2>1, TlsTextsTaken DEF Text
    <3>2. /\ BoolOf[Text(g, "SkipCertVerify")] \subseteq BOOLEAN
          /\ \A v, w \in BoolOf[Text(g, "SkipCertVerify")] : v = w
      BY <3>1, TextShape
    <3> QED BY <2>1, <3>1, <3>2
  <2>2. CASE "SkipCertVerify" \notin DOMAIN g BY <2>2, TlsTextsTaken
  <2> QED BY <2>1, <2>2
<1>3. TlsAsGiven(i) <=>
        IF Scheme(setup) \notin TlsSchemes
        THEN ~t.on /\ ~t.skip
        ELSE /\ t.certificate = <<>> => ~full(pem) /\ ~full(files)
             /\ t.certificate # <<>> => /\ full(t.certificate)
                                        /\ t.certificate \in {pem, files}
             /\ IF cas = {} THEN t.ca = "" ELSE t.ca \in cas
             /\ {t.ca} \union {t.certificate[k] : k \in DOMAIN t.certificate}
                  \subseteq Texts \ Unusable
             /\ t.skip => asked
             /\ asked /\ (full(pem) \/ full(files) \/ cas # {}) => t.skip
  BY DEF TlsAsGiven, Text
<1> HIDE DEF t, g, pem, files, cas, asked, full
<1>4. \/ Scheme(setup) \notin TlsSchemes /\ t = NoTls
      \/ /\ Scheme(setup) \in TlsSchemes /\ t = NoTls
         /\ \A n \in TlsTexts : tls[n] = ""
      \/ /\ Scheme(setup) \in TlsSchemes
         /\ t = [on |-> TRUE, skip |-> tls["SkipCertVerify"],
                 certificate |-> Certificate(tls), ca |-> CaCertificate(tls)]
         /\ ({Certificate(tls)[k] : k \in DOMAIN Certificate(tls)}
               \union {CaCertificate(tls)}) \cap Unusable = {}
  BY DEF GenerateTLS, TlsTexts, t
<1>5. ASSUME t = NoTls
      PROVE  ~t.on /\ ~t.skip /\ t.certificate = <<>> /\ t.ca = ""
  BY <1>5 DEF NoTls
<1>6. CASE Scheme(setup) \notin TlsSchemes BY <1>3, <1>4, <1>5, <1>6
<1>7. CASE /\ Scheme(setup) \in TlsSchemes /\ t = NoTls
           /\ \A n \in TlsTexts : tls[n] = ""
  <2>1. ~full(pem) /\ ~full(files) /\ cas = {}
    BY <1>1, <1>7 DEF TlsTexts, full, pem, files, cas
  <2>2. {t.ca} \union {t.certificate[k] : k \in DOMAIN t.certificate}
          \subseteq Texts \ Unusable
    <3>1. {<<>>[k] : k \in DOMAIN <<>>} = {} OBVIOUS
    <3>2. {t.certificate[k] : k \in DOMAIN t.certificate} = {}
      BY <1>5, <1>7, <3>1
    <3> QED BY <1>1, <1>5, <1>7, <3>2
  <2> QED BY <1>3, <1>5, <1>7, <2>1, <2>2
<1>8. CASE /\ Scheme(setup) \in TlsSchemes
           /\ t = [on |-> TRUE, skip |-> tls["SkipCertVerify"],
                   certificate |-> Certificate(tls), ca |-> CaCertificate(tls)]
           /\ ({Certificate(tls)[k] : k \in DOMAIN Certificate(tls)}
                 \union {CaCertificate(tls)}) \cap Unusable = {}
  <2>1. t.certificate = Certificate(tls) /\ t.ca = CaCertificate(tls)
    BY <1>8
  <2>2. t.skip <=> asked
    <3>1. t.skip = tls["SkipCertVerify"] BY <1>8
    <3> QED BY <1>2, <3>1
  <2>3. Certificate(tls) = IF full(pem) THEN pem
                           ELSE IF full(files) THEN files ELSE <<>>
    BY <1>1 DEF Certificate, full, pem, files, TlsTexts
  <2>4. CaCertificate(tls) = IF Text(g, "CaPEMBlock") # ""
                             THEN Text(g, "CaPEMBlock") ELSE Text(g, "CaFile")
    BY <1>1 DEF CaCertificate, TlsTexts
  <2>5. /\ t.certificate = <<>> => ~full(pem) /\ ~full(files)
        /\ t.certificate # <<>> => /\ full(t.certificate)
                                   /\ t.certificate \in {pem, files}
    <3>1. pem # <<>> /\ files # <<>> BY DEF pem, files
    <3> QED BY <2>1, <2>3, <3>1
  <2>6. IF cas = {} THEN t.ca = "" ELSE t.ca \in cas
    BY <2>1, <2>4 DEF cas
  <2>7. {t.ca} \union {t.certificate[k] : k \in DOMAIN t.certificate}
          \subseteq Texts \ Unusable
    <3>1. CaCertificate(tls) \in Texts BY <1>1, <2>4 DEF TlsTexts
    <3>2. ASSUME NEW k \in DOMAIN Certificate(tls)
          PROVE  Certificate(tls)[k] \in Texts
      <4>1. ASSUME NEW x \in Texts, NEW y \in Texts, NEW j \in DOMAIN <<x, y>>
            PROVE  <<x, y>>[j] \in Texts
        OBVIOUS
      <4>2. /\ \A j \in DOMAIN pem : pem[j] \in Texts
            /\ \A j \in DOMAIN files : files[j] \in Texts
        BY <1>1, <4>1 DEF pem, files, TlsTexts
      <4>3. Certificate(tls) \in {pem, files} BY <2>3, <3>2
      <4> QED BY <4>2, <4>3
    <3> QED BY <1>8, <2>1, <3>1, <3>2
  <2> QED BY <1>3, <1>8, <2>2, <2>5, <2>6, <2>7
<1> QED BY <1>4, <1>6, <1>7, <1>8
----------------------------------------------------------------------------
(* Both structs of a configuration are loaded from the one map. *)
LEMMA BothAsGiven ==
  ASSUME NEW s, NEW fields, NEW defaults, Unique(fields),
         \A k \in DOMAIN fields : fields[k][1] \in DOMAIN defaults,
         NEW f \in LoadBoth(s, fields, defaults)
  PROVE  /\ f.scheme = Scheme(s)
         /\ AsGiven(f.options, s.given, fields, defaults)
         /\ AsGiven(f.tls, s.given, TlsFields, Zero(TlsFields))
         /\ TlsTexts \subseteq DOMAIN f.tls
<1> DEFINE options == Load(s.given, fields, defaults)
           tls     == Load(s.given, TlsFields, Zero(TlsFields))
<1>1. /\ options.ok /\ tls.ok
      /\ f = [scheme |-> Scheme(s), options |-> options.des, tls |-> tls.des]
  BY DEF LoadBoth
<1>2. DOMAIN tls.des = DOMAIN Zero(TlsFields) BY DEF Load
<1>3. TlsTexts \subseteq DOMAIN Zero(TlsFields)
  <2>1. TlsTexts \subseteq {TlsFields[k][1] : k \in DOMAIN TlsFields}
    BY DEF TlsFields, TlsTexts
  <2> QED BY <2>1, DefaultsNamed
<1>4. AsGiven(options.des, s.given, fields, defaults)
  BY <1>1, LoadTakesAll
<1>5. AsGiven(tls.des, s.given, TlsFields, Zero(TlsFields))
  BY <1>1, LoadTakesAll, FieldsAreUnique, DefaultsNamed
<1> HIDE DEF options, tls
<1> QED BY <1>1, <1>2, <1>3, <1>4, <1>5

(* The options of a client of the library come from a configuration: MQTT's *)
(* of the map when it was made, NATS' of the map at the creation.           *)
OptionsMade(i) ==
  IF IsMqtt
  THEN \E f \in CreateMQTTClientConfiguration(
                  [setup EXCEPT !.given = conns[i].from]) :
         conns[i].options \in PahoOptions(f)
  ELSE \E f \in CreateClientConfiguration(
                  [setup EXCEPT !.given = setup.given]) :
         conns[i].options \in NatsOptions(f)

AreTexts(g) == \A n \in DOMAIN g : g[n] \in Texts

ConfigInv ==
  /\ setup \in Setups /\ AreTexts(given)
  /\ created = "no" => given = setup.given
  /\ config \subseteq CreateClientConfiguration(
                        [setup EXCEPT !.given = setup.given])
  /\ \A i \in DOMAIN conns : OptionsMade(i) /\ AreTexts(conns[i].from)

LEMMA SetupWith ==
  ASSUME setup \in Setups, NEW g
  PROVE  /\ [setup EXCEPT !.given = g].given = g
         /\ Scheme([setup EXCEPT !.given = g]) = Scheme(setup)
BY SetupShape DEF Scheme

LEMMA MadeAsGiven ==
  ASSUME ConfigInv, NEW i \in DOMAIN conns
  PROVE  /\ AsGiven(conns[i].options.set, Source(i),
                    FieldsOf(Protocol(setup)), DefaultsOf(Protocol(setup)))
         /\ IsMqtt => conns[i].options.set["Qos"] \in 0..2
         /\ TlsAsGiven(i)
<1>1. setup \in Setups /\ OptionsMade(i) /\ AreTexts(Source(i))
  BY SetupShape DEF ConfigInv, AreTexts, Source
<1> DEFINE now == [setup EXCEPT !.given = Source(i)]
<1>2. now.given = Source(i) /\ Scheme(now) = Scheme(setup)
  BY <1>1, SetupWith
<1>3. ASSUME NEW f, f.scheme = Scheme(now), TlsTexts \subseteq DOMAIN f.tls,
             AsGiven(f.tls, Source(i), TlsFields, Zero(TlsFields)),
             conns[i].options.tls \in GenerateTLS(f.scheme, f.tls)
      PROVE  TlsAsGiven(i)
  BY <1>1, <1>2, <1>3, TlsInForce DEF AreTexts
<1>4. CASE IsMqtt
  <2>1. PICK f \in LoadBoth(now, MqttFields, MqttDefaults) :
          conns[i].options \in PahoOptions(f)
    BY <1>1, <1>4 DEF OptionsMade, CreateMQTTClientConfiguration, Source
  <2>2. PICK t \in GenerateTLS(f.scheme, f.tls) :
          /\ conns[i].options = [wait |-> f.options["ConnectTimeout"],
                                 set |-> f.options, tls |-> t]
          /\ f.options["Qos"] \in 0..2
    BY <2>1 DEF PahoOptions
  <2>3. conns[i].options.set = f.options /\ conns[i].options.tls = t
    BY <2>2
  <2>4. /\ f.scheme = Scheme(now) /\ TlsTexts \subseteq DOMAIN f.tls
        /\ AsGiven(f.options, Source(i), MqttFields, MqttDefaults)
        /\ AsGiven(f.tls, Source(i), TlsFields, Zero(TlsFields))
    <3> HIDE DEF now
    <3> QED BY <1>2, BothAsGiven, FieldsAreUnique, DefaultsNamed
  <2>5. TlsAsGiven(i)
    <3> HIDE DEF now
    <3> QED BY <1>3, <2>2, <2>3, <2>4
  <2>6. /\ FieldsOf(Protocol(setup)) = MqttFields
        /\ DefaultsOf(Protocol(setup)) = MqttDefaults
    BY <1>4 DEF FieldsOf, DefaultsOf, Protocol, IsMqtt
  <2> QED BY <2>2, <2>3, <2>4, <2>5, <2>6
<1>5. CASE ~IsMqtt
  <2>1. PICK f \in LoadBoth(now, NatsFields, NatsDefaults) :
          conns[i].options \in NatsOptions(f)
    BY <1>1, <1>5 DEF OptionsMade, CreateClientConfiguration, Source
  <2>2. PICK t \in GenerateTLS(f.scheme, f.tls) :
          \E w : conns[i].options = [wait |-> w, set |-> f.options, tls |-> t]
    BY <2>1 DEF NatsOptions
  <2>3. conns[i].options.set = f.options /\ conns[i].options.tls = t
    BY <2>2
  <2>4. /\ f.scheme = Scheme(now) /\ TlsTexts \subseteq DOMAIN f.tls
        /\ AsGiven(f.options, Source(i), NatsFields, NatsDefaults)
        /\ AsGiven(f.tls, Source(i), TlsFields, Zero(TlsFields))
    <3> HIDE DEF now
    <3> QED BY <1>2, BothAsGiven, FieldsAreUnique, DefaultsNamed
  <2>5. TlsAsGiven(i)
    <3> HIDE DEF now
    <3> QED BY <1>3, <2>2, <2>3, <2>4
  <2>6. /\ FieldsOf(Protocol(setup)) = NatsFields
        /\ DefaultsOf(Protocol(setup)) = NatsDefaults
    BY <1>5 DEF FieldsOf, DefaultsOf, Protocol, IsMqtt
  <2> QED BY <1>5, <2>3, <2>4, <2>5, <2>6
<1> QED BY <1>4, <1>5

LEMMA ConfiguredFromInv == ConfigInv => ConfiguredAsGiven
<1> SUFFICES ASSUME ConfigInv PROVE ConfiguredAsGiven OBVIOUS
<1>1. ASSUME NEW i \in DOMAIN conns, NEW k \in DOMAIN FieldsOf(Protocol(setup))
      PROVE  LET f == FieldsOf(Protocol(setup))[k]
                 set == conns[i].options.set
             IN IF f[1] \in DOMAIN Source(i)
                THEN set[f[1]] \in Parse(f[2], Source(i)[f[1]])
                ELSE set[f[1]] = DefaultsOf(Protocol(setup))[f[1]]
  BY MadeAsGiven DEF AsGiven
<1> QED BY <1>1, MadeAsGiven DEF ConfiguredAsGiven

----------------------------------------------------------------------------
LEMMA ConfigInvInit == StartInit => ConfigInv
BY SetupShape DEF StartInit, ConfigInv, AreTexts

(* A new client made of the map as it is now, or of the configuration.      *)
LEMMA MadeFromConfig ==
  ASSUME StartInv, ConfigInv, UNCHANGED before, NEW o, NEW status,
         conns' = Made(o, status),
         IF IsMqtt
         THEN \E f \in CreateMQTTClientConfiguration(
                         [setup EXCEPT !.given = given]) : o \in PahoOptions(f)
         ELSE \E f \in config : o \in NatsOptions(f)
  PROVE  ConfigInv'
<1>1. /\ DOMAIN conns = 1..Len(conns) /\ Len(conns) \in Nat
      /\ DOMAIN conns' = 1..(Len(conns) + 1)
  BY MadeIsLast DEF StartInv
<1>2. ASSUME NEW i \in DOMAIN conns
      PROVE  conns'[i] = conns[i]
  BY <1>1, <1>2 DEF Made, StartInv, ConnsInOrder
<1>3. /\ conns'[Len(conns) + 1].options = o
      /\ conns'[Len(conns) + 1].from = given
  BY <1>1 DEF Made, StartInv, ConnsInOrder
<1>4. UNCHANGED <<setup, given, config, created>>
  BY DEF before
<1>5. ASSUME NEW i \in DOMAIN conns'
      PROVE  (OptionsMade(i) /\ AreTexts(conns[i].from))'
  <2>1. CASE i \in DOMAIN conns
    BY <1>2, <1>4, <2>1 DEF ConfigInv, OptionsMade, IsMqtt
  <2>2. CASE i = Len(conns) + 1
    BY <1>3, <1>4, <2>2 DEF ConfigInv, OptionsMade, IsMqtt
  <2> QED BY <1>1, <2>1, <2>2
<1> QED BY <1>4, <1>5 DEF ConfigInv

(* Every step of a start keeps what a client was made of. *)
LEMMA ConfigInvNext ==
  StartInv /\ ConfigInv /\ [StartNext]_startVars => ConfigInv'
<1> SUFFICES ASSUME StartInv, ConfigInv, [StartNext]_startVars PROVE ConfigInv'
  OBVIOUS
<1>0. ASSUME UNCHANGED before, UNCHANGED conns PROVE ConfigInv'
  BY <1>0 DEF before, ConfigInv, OptionsMade, IsMqtt
<1>1. ASSUME UNCHANGED before, NEW i \in DOMAIN conns, NEW status,
             Library(i, status)
      PROVE  ConfigInv'
  <2>1. /\ DOMAIN conns' = DOMAIN conns
        /\ \A k \in DOMAIN conns : /\ conns'[k].options = conns[k].options
                                   /\ conns'[k].from = conns[k].from
    BY <1>1 DEF Library
  <2> QED BY <1>1, <2>1 DEF before, ConfigInv, OptionsMade, IsMqtt
<1>2. CASE NewMessageClient
  BY <1>2 DEF NewMessageClient, ConfigInv, OptionsMade, IsMqtt
<1>3. CASE SetOption
  BY <1>3, SetupShape DEF SetOption, ConfigInv, OptionsMade, IsMqtt, AreTexts
<1>4. ASSUME NEW c \in Connects, Look(c) PROVE ConfigInv'
  BY <1>0, <1>4 DEF Look
<1>5. ASSUME NEW c \in Connects, MakePaho(c) PROVE ConfigInv'
  <2>1. ASSUME NEW o, NEW f, f \in CreateMQTTClientConfiguration(
                                     [setup EXCEPT !.given = given]),
               o \in PahoOptions(f), conns' = Made(o, "new")
        PROVE  ConfigInv'
    BY <1>5, <2>1, MadeFromConfig DEF MakePaho
  <2> QED BY <1>0, <1>5, <2>1 DEF MakePaho
<1>6. ASSUME NEW c \in Connects, TestConnected(c) \/ TokenEnds(c)
      PROVE  ConfigInv'
  BY <1>0, <1>6 DEF TestConnected, TokenEnds
<1>7. ASSUME NEW c \in Connects, Dial(c) PROVE ConfigInv'
  BY <1>0, <1>1, <1>7 DEF Dial, StartInv, ConnsInOrder
<1>8. ASSUME NEW c \in Connects, MakeNats(c) PROVE ConfigInv'
  <2>1. ASSUME NEW o, NEW status, NEW f \in config, o \in NatsOptions(f),
               conns' = Made(o, status)
        PROVE  ConfigInv'
    BY <1>8, <2>1, MadeFromConfig DEF MakeNats
  <2> QED BY <1>0, <1>8, <2>1 DEF MakeNats
<1>9. CASE Disconnect
  BY <1>1, <1>9 DEF Disconnect, StartInv, ConnsInOrder
<1>10. ASSUME NEW i \in DOMAIN conns, Environment(i) PROVE ConfigInv'
  BY <1>1, <1>10 DEF Environment, ConnectionUp, ConnectionFails, ConnectionLost
<1>11. CASE UNCHANGED startVars
  BY <1>0, <1>11 DEF startVars
<1> QED
  BY <1>2, <1>3, <1>4, <1>5, <1>6, <1>7, <1>8, <1>9, <1>10, <1>11
  DEF StartNext, Starting, Connecting

(* Of a start by itself: every client of the library is made of what the    *)
(* application gave, all of it, and the rest has its defaults, whatever the *)
(* order of NewMessageClient, the builder's methods and the calls of        *)
(* Connect (Load in config.go, newConnection, createClientOptions).         *)
THEOREM StartConfigured == StartSpec => []ConfiguredAsGiven
<1>1. StartInit => StartInv /\ ConfigInv
  BY StartInvInit, ConfigInvInit
<1>2. StartInv /\ ConfigInv /\ [StartNext]_startVars
        => (StartInv /\ ConfigInv)'
  BY StartInvNext, ConfigInvNext
<1> QED BY <1>1, <1>2, ConfiguredFromInv, PTL DEF StartSpec
=============================================================================
