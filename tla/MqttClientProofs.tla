-------------------------- MODULE MqttClientProofs --------------------------
(* The agreement of existingSubscriptions, paho's routes and the broker's   *)
(* session in MqttClient, for every set of topics, calls and errors         *)
(* channels, any capacity and any number of connections.                    *)
EXTENDS MqttClient, SequenceTheorems, TLAPS

(* Without a holder of the mutex there is no work, and between two tokens   *)
(* none is waited for.                                                      *)
HolderWorks ==
  /\ mutex = {} => todo = {} /\ token = "none"
  /\ token = "none" => cur = {}

Typed == TypeOK /\ due <= connects /\ HolderWorks

(* What the holder is about: an Unsubscribe, or else a topic to subscribe.  *)
Unsubscribing == \E c \in mutex \ {Handler} : Kind[c] = "unsubscribe"

(* The handler of topic t that paho should have once the holder succeeds.   *)
Target(t) == IF mutex = {Handler} THEN record[t]
                                  ELSE IF Unsubscribing THEN {} ELSE mutex

(* Only the packet of the present token is waited for, and no other is      *)
(* behind it.                                                               *)
AwaitedIsLast ==
  \A i \in DOMAIN out : out[i].awaited =>
     /\ i = Len(out) /\ token = "waiting" /\ out[i].topics = cur
     /\ out[i].sub = ~Unsubscribing

(* A packet that nobody waits for is of a call in doubt, or subscribes what *)
(* is recorded, or its token has just failed.                               *)
StaleExplained ==
  \A i \in DOMAIN out : ~out[i].awaited =>
     \/ out[i].topics \subseteq doubtful
     \/ out[i].sub /\ out[i].topics \subseteq Recorded
     \/ /\ token = "failed" /\ out[i].topics \subseteq cur
        /\ out[i].sub = ~Unsubscribing

(* An acknowledged packet was the last, and did its work or was refused,    *)
(* which only a connect that the handler has yet to answer can have undone. *)
AckedIsDone ==
  token = "acked" =>
    /\ out = <<>>
    /\ Unsubscribing => cur \cap session = {}
    /\ ~Unsubscribing => cur \subseteq session \union rejected \/ due > 0

RouteFollows ==
  /\ \A t \in Topics \ doubtful :
       t \notin cur \/ token = "refused" \/ mutex = {Handler}
         => route[t] = record[t]
  /\ token = "acked" \/ (\E i \in DOMAIN out : out[i].awaited)
       => \A t \in cur : route[t] = Target(t)

(* The topics that the broker may have taken up or given up for the token.  *)
Uncertain == IF token = "refused" THEN {} ELSE cur

SessionExplained == session \subseteq Recorded \union doubtful \union Uncertain

HandlerOnRecorded == mutex = {Handler} => todo \subseteq Recorded

(* What the holder may owe to the broker. *)
Owed == IF mutex = {Handler} THEN todo
                             ELSE IF Unsubscribing THEN Uncertain ELSE {}

RecordsOwed ==
  due = 0 => Recorded \subseteq session \union rejected \union reported
                                \union doubtful \union Owed

Agreement == /\ AwaitedIsLast /\ StaleExplained /\ AckedIsDone /\ RouteFollows
             /\ SessionExplained /\ HandlerOnRecorded /\ RecordsOwed

IInv == Typed /\ Agreement

USE DEF broker
----------------------------------------------------------------------------
(* Types and the holder of the mutex. *)
LEMMA PacketsKept ==
  ASSUME NEW s \in Seq(Packets)
  PROVE  /\ \A p \in Packets : Append(s, p) \in Seq(Packets)
         /\ s # <<>> => Tail(s) \in Seq(Packets) /\ Head(s) \in Packets
         /\ [i \in DOMAIN s |-> [s[i] EXCEPT !.awaited = FALSE]]
              \in Seq(Packets)
         /\ <<>> \in Seq(Packets)
<1>1. \A i \in DOMAIN s : [s[i] EXCEPT !.awaited = FALSE] \in Packets
  <2>1. \A p \in Packets : [p EXCEPT !.awaited = FALSE] \in Packets
    BY DEF Packets
  <2>2. \A i \in DOMAIN s : s[i] \in Packets OBVIOUS
  <2> QED BY <2>1, <2>2
<1> QED BY <1>1

LEMMA TypedInit == Init => Typed
BY CallShape, Options DEF Init, Typed, TypeOK, HolderWorks

LEMMA TypedConnection == ASSUME Typed, Connection PROVE Typed'
<1> USE CallShape, Options DEF Typed, TypeOK, HolderWorks
<1>1. CASE Connect BY <1>1 DEF Connect, work, table, peer, app, ghosts
<1>2. CASE ConnectFails BY <1>2 DEF ConnectFails, work, table, peer, app, ghosts
<1>3. CASE Connected BY <1>3 DEF Connected, work, table, peer, app, ghosts
<1>4. CASE ConnectionLost \/ Disconnect
  <2>1. out' \in Seq(Packets)
    BY <1>4, PacketsKept DEF ConnectionLost, Disconnect
  <2> QED
    BY <1>4, <2>1 DEF ConnectionLost, Disconnect, work, table, app, ghosts
<1> QED BY <1>1, <1>2, <1>3, <1>4 DEF Connection

(* The first packet goes: what is served or rejected, and what is left.     *)
LEMMA HeadGone ==
  ASSUME Typed, AwaitedIsLast, out # <<>>, out' = Tail(out)
  PROVE  /\ 1 \in DOMAIN out /\ Head(out) = out[1] /\ out[1] \in Packets
         /\ out' \in Seq(Packets) /\ Len(out') = Len(out) - 1
         /\ \A i \in DOMAIN out' : i + 1 \in DOMAIN out /\ out'[i] = out[i + 1]
         /\ out[1].awaited => /\ out' = <<>> /\ token = "waiting"
                              /\ out[1].topics = cur
                              /\ out[1].sub = ~Unsubscribing
<1>1. out \in Seq(Packets) BY DEF Typed, TypeOK
<1>2. /\ 1 \in DOMAIN out /\ Head(out) = out[1] /\ out[1] \in Packets
      /\ out' \in Seq(Packets) /\ Len(out') = Len(out) - 1
      /\ Len(out) \in Nat
      /\ \A i \in DOMAIN out' : i + 1 \in DOMAIN out /\ out'[i] = out[i + 1]
  BY <1>1
<1>3. out[1].awaited => /\ 1 = Len(out) /\ token = "waiting"
                        /\ out[1].topics = cur /\ out[1].sub = ~Unsubscribing
  BY <1>2 DEF AwaitedIsLast
<1>4. Len(out) = 1 => out' = <<>> BY <1>2
<1> QED BY <1>2, <1>3, <1>4

LEMMA TypedBroker ==
  ASSUME Typed, AwaitedIsLast, Serve \/ Reject \/ TokenFails
  PROVE  Typed'
<1>1. out' \in Seq(Packets)
  <2>1. out \in Seq(Packets) BY DEF Typed, TypeOK
  <2> QED BY <2>1, PacketsKept DEF Serve, Reject, Taken, TokenFails
<1>2. session' \subseteq Topics /\ rejected' \subseteq Topics
  <2>1. session \subseteq Topics /\ rejected \subseteq Topics
    BY DEF Typed, TypeOK
  <2>2. CASE Serve \/ Reject
    <3>1. Head(out) \in Packets BY <2>2, HeadGone DEF Serve, Reject, Taken
    <3> QED BY <2>1, <2>2, <3>1 DEF Serve, Reject, Packets
  <2> QED BY <2>1, <2>2 DEF TokenFails
<1>3. /\ token' \in {"none", "waiting", "acked", "refused", "failed"}
      /\ token = "none" <=> token' = "none"
  <2>1. token \in {"none", "waiting", "acked", "refused", "failed"}
    BY DEF Typed, TypeOK
  <2>2. CASE Serve \/ Reject
    BY <2>1, <2>2, HeadGone DEF Serve, Reject, Taken
  <2> QED BY <2>1, <2>2 DEF TokenFails
<1>4. UNCHANGED <<link, due, call, mutex, todo, cur, table, app, ghosts>>
  BY DEF Serve, Reject, Taken, TokenFails
<1> QED
  BY <1>1, <1>2, <1>3, <1>4
  DEF Typed, TypeOK, HolderWorks, link, table, app, ghosts

(* What a call or the handler does outside its work. *)
LEMMA TypedBegin ==
  ASSUME Typed, NEW c \in Calls, Begin(c)
  PROVE  /\ call' \in [Calls -> {"idle", "locking", "working", "ok", "error"}]
         /\ \A d \in Calls : d \in mutex <=> call'[d] = "working"
BY DEF Typed, TypeOK, HolderWorks, Begin

LEMMA TypedOutside ==
  ASSUME Typed,
         \/ \E c \in Calls : StartCall(c) \/ Lock(c)
         \/ LockHandler \/ UnlockHandler
         \/ \E t \in Topics : BadMessage(t)
         \/ \E e \in Errs : ReadError(e) \/ ReaderReturns(e)
  PROVE  Typed'
<1> USE CallShape, Options DEF Typed, TypeOK, HolderWorks
<1>1. ASSUME NEW c \in Calls, StartCall(c) PROVE Typed'
  BY <1>1, TypedBegin DEF StartCall, link, work, table, peer, app, ghosts
<1>2. ASSUME NEW c \in Calls, Lock(c) PROVE Typed'
  BY <1>2 DEF Lock, link, table, peer, app, ghosts
<1>3. CASE LockHandler
  BY <1>3 DEF LockHandler, Recorded, link, table, peer, app
<1>4. CASE UnlockHandler
  BY <1>4 DEF UnlockHandler, Holds, link, table, peer, app, ghosts
<1>5. ASSUME NEW t \in Topics, BadMessage(t) PROVE Typed'
  BY <1>5 DEF BadMessage, Room, link, work, table, peer, ghosts
<1>6. ASSUME NEW e \in Errs, ReadError(e) PROVE Typed'
  <2>1. /\ errors' \in [Errs -> Nat]
        /\ \A f \in Errs : errors'[f] <= Capacity \/ errors'[f] = 1
    BY <1>6 DEF ReadError
  <2>2. /\ UNCHANGED <<link, due, work, table, peer, ghosts>>
        /\ \/ \E c \in Calls : Begin(c) /\ reader' = [reader EXCEPT ![e] = {c}]
           \/ UNCHANGED <<call, reader>>
    BY <1>6 DEF ReadError
  <2>3. reader' \in [Errs -> SUBSET Calls]
    <3>1. reader \in [Errs -> SUBSET Calls] OBVIOUS
    <3>2. ASSUME NEW c \in Calls, reader' = [reader EXCEPT ![e] = {c}]
          PROVE  reader' \in [Errs -> SUBSET Calls]
      BY <3>1, <3>2
    <3> QED BY <2>2, <3>1, <3>2
  <2>4. /\ call' \in [Calls -> {"idle", "locking", "working", "ok", "error"}]
        /\ \A d \in Calls : d \in mutex <=> call'[d] = "working"
    BY <2>2, TypedBegin
  <2> QED BY <2>1, <2>2, <2>3, <2>4 DEF link, work, table, peer, ghosts
<1>7. ASSUME NEW e \in Errs, ReaderReturns(e) PROVE Typed'
  BY <1>7 DEF ReaderReturns, link, work, table, peer, ghosts
<1> QED BY <1>1, <1>2, <1>3, <1>4, <1>5, <1>6, <1>7

(* paho's part of a call keeps the types, whichever way it goes. *)
LEMMA PacketTyped ==
  \A b \in BOOLEAN, us \in SUBSET Topics :
     [sub |-> b, topics |-> us, awaited |-> TRUE] \in Packets
BY DEF Packets

LEMMA TypedPahoSubscribe ==
  ASSUME Typed, NEW t \in todo, NEW h \in SUBSET Calls, PahoSubscribe(t, h)
  PROVE  /\ cur' = {t} /\ token' \in {"waiting", "refused"}
         /\ route' \in [Topics -> SUBSET Calls] /\ out' \in Seq(Packets)
<1>1. /\ out \in Seq(Packets) /\ route \in [Topics -> SUBSET Calls]
      /\ t \in Topics
  BY DEF Typed, TypeOK
<1>2. [sub |-> TRUE, topics |-> {t}, awaited |-> TRUE] \in Packets
  BY <1>1, PacketTyped
<1> QED BY <1>1, <1>2, PacketsKept DEF PahoSubscribe

LEMMA TypedPahoUnsubscribe ==
  ASSUME Typed, PahoUnsubscribe(todo)
  PROVE  /\ cur' = todo /\ token' \in {"waiting", "refused"}
         /\ route' \in [Topics -> SUBSET Calls] /\ out' \in Seq(Packets)
<1>1. /\ out \in Seq(Packets) /\ route \in [Topics -> SUBSET Calls]
      /\ todo \subseteq Topics
  BY DEF Typed, TypeOK
<1>2. [sub |-> FALSE, topics |-> todo, awaited |-> TRUE] \in Packets
  BY <1>1, PacketTyped
<1> QED BY <1>1, <1>2, PacketsKept DEF PahoUnsubscribe

(* The end of a token for a call: it returns, or goes on to the next topic. *)
LEMMA TypedWork ==
  ASSUME Typed, NEW c \in Calls, mutex = {c},
         \/ SubscribeTopic(c) \/ RecordTopic(c) \/ SubscribeFails(c)
         \/ UnsubscribeTopics(c) \/ DeleteTopics(c) \/ UnsubscribeFails(c)
  PROVE  Typed'
<1> USE CallShape, Options DEF Typed, TypeOK, HolderWorks
<1>1. CASE SubscribeTopic(c)
  <2>1. PICK t \in todo : PahoSubscribe(t, {c}) BY <1>1 DEF SubscribeTopic
  <2>2. /\ cur' = {t} /\ token' \in {"waiting", "refused"}
        /\ route' \in [Topics -> SUBSET Calls] /\ out' \in Seq(Packets)
    BY <2>1, TypedPahoSubscribe
  <2> QED BY <1>1, <2>2 DEF SubscribeTopic, link, app, ghosts
<1>2. CASE UnsubscribeTopics(c)
  <2>1. PahoUnsubscribe(todo) BY <1>2 DEF UnsubscribeTopics
  <2>2. /\ cur' = todo /\ token' \in {"waiting", "refused"}
        /\ route' \in [Topics -> SUBSET Calls] /\ out' \in Seq(Packets)
    BY <2>1, TypedPahoUnsubscribe
  <2> QED BY <1>2, <2>2 DEF UnsubscribeTopics, link, app, ghosts
<1>3. CASE RecordTopic(c)
  <2>1. record' \in [Topics -> SUBSET Calls] /\ doubtful' \subseteq Topics
    BY <1>3 DEF RecordTopic
  <2>2. CASE todo = cur
    BY <1>3, <2>1, <2>2 DEF RecordTopic, Return, link, peer, app
  <2>3. CASE todo # cur
    BY <1>3, <2>1, <2>3 DEF RecordTopic, link, peer, app
  <2> QED BY <2>2, <2>3
<1>4. CASE SubscribeFails(c) \/ UnsubscribeFails(c)
  BY <1>4 DEF SubscribeFails, UnsubscribeFails, Return, Doubt, link, table,
              peer, app
<1>5. CASE DeleteTopics(c)
  BY <1>5 DEF DeleteTopics, Return, link, peer, app
<1> QED BY <1>1, <1>2, <1>3, <1>4, <1>5

LEMMA TypedHandler ==
  ASSUME Typed, Resubscribe \/ Resubscribed \/ ReportError PROVE Typed'
<1> USE CallShape, Options DEF Typed, TypeOK, HolderWorks
<1>1. CASE Resubscribe
  <2>1. PICK t \in todo : PahoSubscribe(t, record[t]) BY <1>1 DEF Resubscribe
  <2>2. record[t] \in SUBSET Calls OBVIOUS
  <2>3. /\ cur' = {t} /\ token' \in {"waiting", "refused"}
        /\ route' \in [Topics -> SUBSET Calls] /\ out' \in Seq(Packets)
    BY <2>1, <2>2, TypedPahoSubscribe
  <2> QED BY <1>1, <2>3 DEF Resubscribe, Holds, link, app, ghosts
<1>2. CASE Resubscribed
  BY <1>2 DEF Resubscribed, Holds, link, table, peer, app
<1>3. CASE ReportError
  <2>1. /\ errors' \in [Errs -> Nat]
        /\ \A f \in Errs : errors'[f] <= Capacity \/ errors'[f] = 1
    BY <1>3 DEF ReportError, Room
  <2> QED BY <1>3, <2>1 DEF ReportError, Holds, link, table, peer
<1> QED BY <1>1, <1>2, <1>3
----------------------------------------------------------------------------
(* Who holds the mutex. *)
LEMMA CallHolds ==
  ASSUME NEW c \in Calls, mutex = {c}
  PROVE  /\ mutex # {Handler}
         /\ Unsubscribing <=> Kind[c] = "unsubscribe"
         /\ \A t : Target(t) = IF Unsubscribing THEN {} ELSE {c}
BY CallShape DEF Unsubscribing, Target

LEMMA HandlerHolds ==
  ASSUME mutex = {Handler}
  PROVE  ~Unsubscribing /\ Owed = todo /\ \A t : Target(t) = record[t]
BY DEF Unsubscribing, Owed, Target

LEMMA NobodyHolds ==
  ASSUME Typed, mutex = {}
  PROVE  /\ ~Unsubscribing /\ mutex # {Handler} /\ Owed = {}
         /\ todo = {} /\ cur = {} /\ token = "none"
BY DEF Typed, HolderWorks, Unsubscribing, Owed

(* The parts of Agreement as long as the holder goes on. *)
LEMMA SameHolder ==
  ASSUME mutex' = mutex
  PROVE  /\ Unsubscribing' = Unsubscribing
         /\ record' = record => /\ Recorded' = Recorded
                                /\ \A t : Target(t)' = Target(t)
BY DEF Unsubscribing, Recorded, Target
----------------------------------------------------------------------------
(* The connection. *)
LEMMA AgreementInit == Init => Agreement
BY DEF Init, Agreement, AwaitedIsLast, StaleExplained, AckedIsDone,
       RouteFollows, SessionExplained, HandlerOnRecorded, RecordsOwed,
       Recorded

LEMMA AgreementKept ==
  ASSUME Agreement,
         UNCHANGED <<due, work, table, peer, ghosts>>
  PROVE  Agreement'
BY DEF Agreement, AwaitedIsLast, StaleExplained, AckedIsDone, RouteFollows,
       SessionExplained, HandlerOnRecorded, RecordsOwed, Recorded, Target,
       Owed, Uncertain, Unsubscribing, work, table, peer, ghosts

LEMMA AgreementConnection == ASSUME IInv, Connection PROVE Agreement'
<1> USE DEF IInv, Agreement
<1>1. CASE Connect \/ ConnectFails
  BY <1>1, AgreementKept DEF Connect, ConnectFails
<1>2. ASSUME Connected \/ ConnectionLost \/ Disconnect
      PROVE  UNCHANGED <<work, table, ghosts>>
  BY <1>2 DEF Connected, ConnectionLost, Disconnect
<1>3. ASSUME UNCHANGED <<work, table, ghosts>>
      PROVE  /\ UNCHANGED <<mutex, todo, cur, token, record, route, doubtful,
                            reported>>
             /\ Unsubscribing' = Unsubscribing /\ Recorded' = Recorded
             /\ Uncertain' = Uncertain /\ Owed' = Owed
             /\ \A t : Target(t)' = Target(t)
             /\ HandlerOnRecorded'
  BY <1>3 DEF work, table, ghosts, Unsubscribing, Recorded, Uncertain, Owed,
              Target, HandlerOnRecorded
<1>4. CASE Connected
  <2>1. /\ out' = out /\ due' = due + 1 /\ due \in Nat
        /\ session' \subseteq session
    BY <1>4 DEF Connected, Typed, TypeOK
  <2>2. AwaitedIsLast' BY <1>2, <1>3, <1>4, <2>1 DEF AwaitedIsLast
  <2>3. StaleExplained' BY <1>2, <1>3, <1>4, <2>1 DEF StaleExplained
  <2>4. AckedIsDone'
    <3>1. due' > 0 /\ due' # 0 BY <2>1
    <3> QED BY <1>2, <1>3, <1>4, <2>1, <3>1 DEF AckedIsDone
  <2>5. RouteFollows' BY <1>2, <1>3, <1>4, <2>1 DEF RouteFollows
  <2>6. SessionExplained' BY <1>2, <1>3, <1>4, <2>1 DEF SessionExplained
  <2>7. RecordsOwed' BY <2>1 DEF RecordsOwed
  <2> QED BY <1>2, <1>3, <1>4, <2>2, <2>3, <2>4, <2>5, <2>6, <2>7
<1>5. CASE ConnectionLost \/ Disconnect
  <2>1. out' = <<>> /\ UNCHANGED <<due, broker>>
    BY <1>5 DEF ConnectionLost, Disconnect
  <2>2. AwaitedIsLast' /\ StaleExplained'
    BY <2>1 DEF AwaitedIsLast, StaleExplained
  <2>3. AckedIsDone' BY <1>2, <1>3, <1>5, <2>1 DEF AckedIsDone
  <2>4. RouteFollows' BY <1>2, <1>3, <1>5, <2>1 DEF RouteFollows
  <2>5. SessionExplained' /\ RecordsOwed'
    BY <1>2, <1>3, <1>5, <2>1 DEF SessionExplained, RecordsOwed
  <2> QED BY <1>2, <1>3, <1>5, <2>2, <2>3, <2>4, <2>5
<1> QED BY <1>1, <1>4, <1>5 DEF Connection
----------------------------------------------------------------------------
(* The broker. *)

(* With its first packet gone the queue is as well explained as before.     *)
LEMMA QueueShrinks ==
  ASSUME IInv, out # <<>>, out' = Tail(out),
         UNCHANGED <<mutex, todo, cur, record, route, doubtful>>,
         token' = token \/ out[1].awaited
  PROVE  /\ AwaitedIsLast' /\ StaleExplained'
         /\ (\E i \in DOMAIN out' : out'[i].awaited)
              => \E i \in DOMAIN out : out[i].awaited
<1> USE DEF IInv, Agreement
<1>1. /\ Unsubscribing' = Unsubscribing /\ Recorded' = Recorded
      /\ UNCHANGED <<cur, doubtful>>
  BY SameHolder
<1>2. /\ Len(out') = Len(out) - 1 /\ Len(out) \in Nat
      /\ \A i \in DOMAIN out' : i + 1 \in DOMAIN out /\ out'[i] = out[i + 1]
                                /\ i \in Nat
      /\ out' # <<>> => token' = token
      /\ out' = <<>> => DOMAIN out' = {}
  <2>1. out' \in Seq(Packets) /\ out \in Seq(Packets)
    BY HeadGone DEF Typed, TypeOK
  <2> QED BY <2>1, HeadGone
<1>3. AwaitedIsLast'
  <2> SUFFICES ASSUME NEW i \in DOMAIN out', out'[i].awaited
               PROVE  /\ i = Len(out') /\ token' = "waiting"
                      /\ out'[i].topics = cur /\ out'[i].sub = ~Unsubscribing
    BY <1>1 DEF AwaitedIsLast
  <2>1. /\ i + 1 = Len(out) /\ token = "waiting"
        /\ out'[i].topics = cur /\ out'[i].sub = ~Unsubscribing
    BY <1>2 DEF AwaitedIsLast
  <2>2. i = Len(out') BY <1>2, <2>1
  <2> QED BY <1>2, <2>1, <2>2
<1>4. StaleExplained'
  <2> SUFFICES ASSUME NEW i \in DOMAIN out', ~out'[i].awaited
               PROVE  \/ out'[i].topics \subseteq doubtful
                      \/ out'[i].sub /\ out'[i].topics \subseteq Recorded
                      \/ /\ token' = "failed" /\ out'[i].topics \subseteq cur
                         /\ out'[i].sub = ~Unsubscribing
    BY <1>1 DEF StaleExplained
  <2>1. token' = token /\ i + 1 \in DOMAIN out /\ out'[i] = out[i + 1]
    BY <1>2
  <2> QED BY <2>1 DEF StaleExplained
<1> QED BY <1>2, <1>3, <1>4

(* What the first packet subscribes, or unsubscribes, is accounted for.     *)
LEMMA HeadExplained ==
  ASSUME IInv, out # <<>>
  PROVE  /\ out[1].sub => out[1].topics
                            \subseteq Recorded \union doubtful \union Uncertain
         /\ ~out[1].sub => out[1].topics \subseteq doubtful \union Owed
<1> USE DEF IInv, Agreement
<1>1. 1 \in DOMAIN out /\ out[1].sub \in BOOLEAN
  <2>1. out \in Seq(Packets) BY DEF Typed, TypeOK
  <2>2. 1 \in DOMAIN out /\ out[1] \in Packets BY <2>1
  <2>3. \A p \in Packets : p.sub \in BOOLEAN BY DEF Packets
  <2> QED BY <2>2, <2>3
<1>2. CASE out[1].awaited
  <2>1. token = "waiting" /\ out[1].topics = cur /\ out[1].sub = ~Unsubscribing
    BY <1>1, <1>2 DEF AwaitedIsLast
  <2> QED BY <1>1, <2>1, HandlerHolds DEF Uncertain, Owed
<1>3. CASE ~out[1].awaited
  <2>1. \/ out[1].topics \subseteq doubtful
        \/ out[1].sub /\ out[1].topics \subseteq Recorded
        \/ /\ token = "failed" /\ out[1].topics \subseteq cur
           /\ out[1].sub = ~Unsubscribing
    BY <1>1, <1>3 DEF StaleExplained
  <2> QED BY <1>1, <2>1, HandlerHolds DEF Uncertain, Owed
<1> QED BY <1>2, <1>3

LEMMA AgreementServe == ASSUME IInv, Serve \/ Reject PROVE Agreement'
<1> USE DEF IInv, Agreement
<1> DEFINE p == out[1]
<1>1. /\ out # <<>> /\ out' = Tail(out) /\ p = Head(out)
      /\ UNCHANGED <<due, mutex, todo, cur, record, route, doubtful, reported>>
      /\ IF p.sub
         THEN /\ session' \subseteq session \union p.topics
              /\ session \union rejected \union p.topics
                   \subseteq session' \union rejected'
         ELSE /\ session' = session \ p.topics
              /\ (session \union rejected) \ p.topics
                   \subseteq session' \union rejected'
      /\ token' = token \/ (p.awaited /\ token' = "acked")
  BY HeadGone DEF Serve, Reject, Taken, table, ghosts
<1>2. /\ p \in Packets
      /\ p.awaited => /\ out' = <<>> /\ token = "waiting" /\ p.topics = cur
                      /\ p.sub = ~Unsubscribing
      /\ 1 \in DOMAIN out
  BY <1>1, HeadGone
<1>3. /\ Unsubscribing' = Unsubscribing /\ Recorded' = Recorded
      /\ \A t : Target(t)' = Target(t)
  BY <1>1, SameHolder
<1>4. token \in {"none", "waiting", "acked", "refused", "failed"}
  BY DEF Typed, TypeOK
<1>5. /\ AwaitedIsLast' /\ StaleExplained'
      /\ (\E i \in DOMAIN out' : out'[i].awaited)
           => \E i \in DOMAIN out : out[i].awaited
  BY <1>1, QueueShrinks
<1>6. AckedIsDone'
  <2>1. token # "acked" BY <1>1 DEF AckedIsDone
  <2> SUFFICES ASSUME token' = "acked" PROVE AckedIsDone'
    BY DEF AckedIsDone
  <2>2. p.awaited BY <1>1, <2>1
  <2> QED BY <1>1, <1>2, <1>3, <2>2 DEF AckedIsDone
<1>7. RouteFollows'
  <2>1. token' = "refused" <=> token = "refused" BY <1>1, <1>2
  <2>2. token' = "acked" => \/ token = "acked"
                            \/ \E i \in DOMAIN out : out[i].awaited
    BY <1>1, <1>2
  <2> QED BY <1>1, <1>3, <1>5, <2>1, <2>2 DEF RouteFollows
<1>8. Uncertain' = Uncertain /\ Owed' = Owed
  BY <1>1, <1>2, <1>3 DEF Uncertain, Owed
<1>9. SessionExplained'
  BY <1>1, <1>3, <1>8, HeadExplained DEF SessionExplained
<1>10. HandlerOnRecorded' BY <1>1, <1>3 DEF HandlerOnRecorded
<1>11. RecordsOwed'
  BY <1>1, <1>3, <1>8, HeadExplained DEF RecordsOwed
<1> QED BY <1>5, <1>6, <1>7, <1>9, <1>10, <1>11

LEMMA AgreementTokenFails == ASSUME IInv, TokenFails PROVE Agreement'
<1> USE DEF IInv, Agreement
<1>1. /\ token = "waiting" /\ token' = "failed"
      /\ out' = [i \in DOMAIN out |-> [out[i] EXCEPT !.awaited = FALSE]]
      /\ UNCHANGED <<due, mutex, todo, cur, record, route, broker, doubtful,
                     reported>>
  BY DEF TokenFails, table, ghosts
<1>2. /\ Unsubscribing' = Unsubscribing /\ Recorded' = Recorded
      /\ Uncertain' = Uncertain /\ Owed' = Owed
  BY <1>1, SameHolder DEF Uncertain, Owed
<1>3. /\ DOMAIN out' = DOMAIN out
      /\ \A i \in DOMAIN out : /\ ~out'[i].awaited
                               /\ out'[i].topics = out[i].topics
                               /\ out'[i].sub = out[i].sub
  <2>1. \A i \in DOMAIN out : out[i] \in Packets BY DEF Typed, TypeOK
  <2>2. \A q \in Packets :
          LET r == [q EXCEPT !.awaited = FALSE]
          IN  ~r.awaited /\ r.topics = q.topics /\ r.sub = q.sub
    BY DEF Packets
  <2> QED BY <1>1, <2>1, <2>2
<1>4. AwaitedIsLast' BY <1>3 DEF AwaitedIsLast
<1>5. StaleExplained'
  BY <1>1, <1>2, <1>3 DEF AwaitedIsLast, StaleExplained
<1>6. AckedIsDone' BY <1>1 DEF AckedIsDone
<1>7. RouteFollows' BY <1>1, <1>3 DEF RouteFollows
<1>8. SessionExplained' /\ HandlerOnRecorded' /\ RecordsOwed'
  BY <1>1, <1>2 DEF SessionExplained, HandlerOnRecorded, RecordsOwed
<1> QED BY <1>4, <1>5, <1>6, <1>7, <1>8
----------------------------------------------------------------------------
(* The mutex is taken, and given back by the handler. *)
LEMMA AgreementLock ==
  ASSUME IInv, NEW c \in Calls, Lock(c) PROVE Agreement'
<1> USE DEF IInv, Agreement
<1>1. /\ mutex = {} /\ mutex' = {c}
      /\ UNCHANGED <<due, cur, token, record, route, out, broker, doubtful,
                     reported>>
  BY DEF Lock, table, peer, ghosts
<1>2. /\ ~Unsubscribing /\ Owed = {} /\ cur = {} /\ token = "none"
      /\ mutex' # {Handler}
  BY <1>1, NobodyHolds, CallShape
<1>3. /\ Recorded' = Recorded /\ Uncertain' = Uncertain /\ Uncertain = {}
      /\ Owed' = {}
  BY <1>1, <1>2 DEF Recorded, Uncertain, Owed
<1>4. AwaitedIsLast' BY <1>1, <1>2 DEF AwaitedIsLast
<1>5. StaleExplained' BY <1>1, <1>2, <1>3 DEF StaleExplained
<1>6. AckedIsDone' BY <1>1, <1>2 DEF AckedIsDone
<1>7. RouteFollows' BY <1>1, <1>2 DEF RouteFollows
<1>8. SessionExplained' /\ HandlerOnRecorded' /\ RecordsOwed'
  BY <1>1, <1>2, <1>3 DEF SessionExplained, HandlerOnRecorded, RecordsOwed
<1> QED BY <1>4, <1>5, <1>6, <1>7, <1>8

LEMMA AgreementLockHandler == ASSUME IInv, LockHandler PROVE Agreement'
<1> USE DEF IInv, Agreement
<1>1. /\ mutex = {} /\ mutex' = {Handler} /\ todo' = Recorded
      /\ UNCHANGED <<cur, token, record, route, out, broker, doubtful>>
  BY DEF LockHandler, table, peer
<1>2. ~Unsubscribing /\ Owed = {} /\ cur = {} /\ token = "none"
  BY <1>1, NobodyHolds
<1>3. /\ Recorded' = Recorded /\ Uncertain' = Uncertain /\ Uncertain = {}
      /\ Owed' = Recorded /\ ~Unsubscribing'
  BY <1>1, <1>2 DEF Recorded, Uncertain, Owed, Unsubscribing
<1>4. AwaitedIsLast' BY <1>1, <1>2 DEF AwaitedIsLast
<1>5. StaleExplained' BY <1>1, <1>2, <1>3 DEF StaleExplained
<1>6. AckedIsDone' BY <1>1, <1>2 DEF AckedIsDone
<1>7. RouteFollows' BY <1>1, <1>2 DEF RouteFollows
<1>8. SessionExplained' /\ HandlerOnRecorded' /\ RecordsOwed'
  BY <1>1, <1>2, <1>3 DEF SessionExplained, HandlerOnRecorded, RecordsOwed
<1> QED BY <1>4, <1>5, <1>6, <1>7, <1>8

LEMMA AgreementUnlockHandler == ASSUME IInv, UnlockHandler PROVE Agreement'
<1> USE DEF IInv, Agreement
<1>1. /\ mutex = {Handler} /\ mutex' = {} /\ todo = {} /\ token = "none"
      /\ UNCHANGED <<due, cur, token, record, route, out, broker, doubtful,
                     reported>>
  BY DEF UnlockHandler, Holds, table, peer, ghosts
<1>2. /\ ~Unsubscribing /\ Owed = {} /\ cur = {} /\ ~Unsubscribing'
      /\ mutex' # {Handler}
  BY <1>1, HandlerHolds DEF Typed, HolderWorks, Unsubscribing
<1>3. /\ Recorded' = Recorded /\ Uncertain' = Uncertain /\ Uncertain = {}
      /\ Owed' = {}
  BY <1>1, <1>2 DEF Recorded, Uncertain, Owed
<1>4. AwaitedIsLast' BY <1>1, <1>2 DEF AwaitedIsLast
<1>5. StaleExplained' BY <1>1, <1>2, <1>3 DEF StaleExplained
<1>6. AckedIsDone' BY <1>1, <1>2 DEF AckedIsDone
<1>7. RouteFollows' BY <1>1, <1>2 DEF RouteFollows
<1>8. SessionExplained' /\ HandlerOnRecorded' /\ RecordsOwed'
  BY <1>1, <1>2, <1>3 DEF SessionExplained, HandlerOnRecorded, RecordsOwed
<1> QED BY <1>4, <1>5, <1>6, <1>7, <1>8
----------------------------------------------------------------------------
(* A packet for the broker comes last; paho may also keep it to itself or   *)
(* refuse it.                                                               *)
LEMMA PacketQueued ==
  ASSUME IInv, token = "none", NEW ts \in SUBSET Topics,
         UNCHANGED <<mutex, record, doubtful>>, cur' = ts,
         \/ out' = out /\ token' \in {"waiting", "refused"}
         \/ /\ token' = "waiting"
            /\ out' = Append(out, [sub |-> ~Unsubscribing, topics |-> ts,
                                   awaited |-> TRUE])
  PROVE  /\ AwaitedIsLast' /\ StaleExplained' /\ AckedIsDone'
         /\ (\E i \in DOMAIN out' : out'[i].awaited)
              => out' = Append(out, [sub |-> ~Unsubscribing, topics |-> ts,
                                     awaited |-> TRUE])
<1> USE DEF IInv, Agreement
<1> DEFINE p == [sub |-> ~Unsubscribing, topics |-> ts, awaited |-> TRUE]
<1>1. /\ Unsubscribing' = Unsubscribing /\ Recorded' = Recorded
      /\ Unsubscribing \in BOOLEAN
  BY SameHolder DEF Unsubscribing
<1>2. \A i \in DOMAIN out : ~out[i].awaited BY DEF AwaitedIsLast
<1>3. \A i \in DOMAIN out : \/ out[i].topics \subseteq doubtful
                            \/ out[i].sub /\ out[i].topics \subseteq Recorded
  BY <1>2 DEF StaleExplained
<1>4. AckedIsDone' BY DEF AckedIsDone
<1>5. CASE out' = out
  BY <1>1, <1>2, <1>3, <1>4, <1>5 DEF AwaitedIsLast, StaleExplained
<1>6. CASE token' = "waiting" /\ out' = Append(out, p)
  <2>1. p.awaited /\ p.topics = ts /\ p.sub = ~Unsubscribing OBVIOUS
  <2> HIDE DEF p
  <2>2. /\ Len(out) \in Nat /\ Len(out') = Len(out) + 1
        /\ \A i \in DOMAIN out' : \/ i \in DOMAIN out /\ out'[i] = out[i]
                                  \/ i = Len(out') /\ out'[i] = p
    <3>1. out \in Seq(Packets) BY DEF Typed, TypeOK
    <3> QED BY <1>6, <3>1
  <2>3. AwaitedIsLast' BY <1>1, <1>2, <1>6, <2>1, <2>2 DEF AwaitedIsLast
  <2>4. StaleExplained' BY <1>1, <1>3, <2>1, <2>2 DEF StaleExplained
  <2> QED BY <1>4, <1>6, <2>3, <2>4 DEF p
<1> QED BY <1>5, <1>6

LEMMA PahoSubscribeCases ==
  ASSUME NEW t, NEW h, PahoSubscribe(t, h)
  PROVE  /\ cur' = {t}
         /\ \/ /\ token' = "waiting" /\ route' = [route EXCEPT ![t] = h]
               /\ out' = Append(out, [sub |-> TRUE, topics |-> {t},
                                      awaited |-> TRUE])
            \/ /\ token' = "waiting" /\ route' = [route EXCEPT ![t] = h]
               /\ out' = out
            \/ token' = "refused" /\ route' = route /\ out' = out
BY DEF PahoSubscribe

LEMMA PahoUnsubscribeCases ==
  ASSUME NEW ts, PahoUnsubscribe(ts)
  PROVE  /\ cur' = ts
         /\ \/ /\ token' = "waiting"
               /\ route' = [t \in Topics |-> IF t \in ts THEN {} ELSE route[t]]
               /\ out' = Append(out, [sub |-> FALSE, topics |-> ts,
                                      awaited |-> TRUE])
            \/ /\ token' \in {"waiting", "refused"}
               /\ route' = route /\ out' = out
BY DEF PahoUnsubscribe

(* While nothing is waited for, nothing is under way either. *)
LEMMA NothingAwaited ==
  ASSUME IInv, token = "none"
  PROVE  /\ cur = {} /\ Uncertain = {} /\ \A i \in DOMAIN out : ~out[i].awaited
         /\ \A t \in Topics \ doubtful : route[t] = record[t]
BY DEF IInv, Agreement, Typed, HolderWorks, Uncertain, AwaitedIsLast,
       RouteFollows

(* A token brings nothing but its own topics into doubt. *)
LEMMA TokenStarts ==
  ASSUME IInv, token = "none", token' \in {"waiting", "refused"},
         UNCHANGED <<due, mutex, todo, record, broker, doubtful, reported>>
  PROVE  SessionExplained' /\ HandlerOnRecorded' /\ RecordsOwed'
<1>1. Recorded' = Recorded /\ Unsubscribing' = Unsubscribing
  BY SameHolder
<1>2. Uncertain = {} BY NothingAwaited
<1>3. Owed \subseteq Owed' BY <1>1, <1>2 DEF Owed
<1> QED
  BY <1>1, <1>2, <1>3
  DEF IInv, Agreement, SessionExplained, HandlerOnRecorded, RecordsOwed

LEMMA SubscribeStarts ==
  ASSUME IInv, token = "none", ~Unsubscribing,
         NEW t \in todo, PahoSubscribe(t, Target(t)),
         UNCHANGED <<due, mutex, todo, record, broker, doubtful, reported>>
  PROVE  Agreement'
<1> DEFINE p == [sub |-> TRUE, topics |-> {t}, awaited |-> TRUE]
<1>1. /\ t \in Topics /\ route \in [Topics -> SUBSET Calls]
  BY DEF IInv, Typed, TypeOK
<1>2. /\ cur' = {t} /\ token' \in {"waiting", "refused"}
      /\ out' = out \/ (out' = Append(out, p) /\ token' = "waiting")
  BY PahoSubscribeCases
<1>3. p = [sub |-> ~Unsubscribing, topics |-> {t}, awaited |-> TRUE]
  OBVIOUS
<1>4. /\ AwaitedIsLast' /\ StaleExplained' /\ AckedIsDone'
      /\ (\E i \in DOMAIN out' : out'[i].awaited) => out' = Append(out, p)
  <2> HIDE DEF p
  <2>1. {t} \in SUBSET Topics BY <1>1
  <2> QED BY <1>2, <1>3, <2>1, PacketQueued
<1>5. \A i \in DOMAIN out : ~out[i].awaited BY NothingAwaited
<1>6. RouteFollows'
  <2>1. /\ \A s : Target(s)' = Target(s)
        /\ mutex = {Handler} => Target(t) = record[t]
    BY SameHolder, HandlerHolds
  <2>2. \A s \in Topics \ doubtful : route[s] = record[s] BY NothingAwaited
  <2>3. CASE route' = [route EXCEPT ![t] = Target(t)] /\ token' = "waiting"
    <3>1. /\ route'[t] = Target(t)
          /\ \A s \in Topics : s # t => route'[s] = route[s]
      BY <1>1, <2>3
    <3> QED BY <1>2, <2>1, <2>2, <2>3, <3>1 DEF RouteFollows
  <2>4. CASE token' = "refused" /\ route' = route /\ out' = out
    BY <1>5, <2>2, <2>4 DEF RouteFollows
  <2> QED BY <2>3, <2>4, PahoSubscribeCases
<1>7. SessionExplained' /\ HandlerOnRecorded' /\ RecordsOwed'
  BY <1>2, TokenStarts
<1> QED BY <1>4, <1>6, <1>7 DEF Agreement

LEMMA UnsubscribeStarts ==
  ASSUME IInv, token = "none", Unsubscribing, mutex # {Handler},
         PahoUnsubscribe(todo),
         UNCHANGED <<due, mutex, todo, record, broker, doubtful, reported>>
  PROVE  Agreement'
<1> DEFINE p == [sub |-> FALSE, topics |-> todo, awaited |-> TRUE]
<1>1. /\ todo \in SUBSET Topics /\ route \in [Topics -> SUBSET Calls]
  BY DEF IInv, Typed, TypeOK
<1>2. /\ cur' = todo /\ token' \in {"waiting", "refused"}
      /\ out' = out \/ (out' = Append(out, p) /\ token' = "waiting")
  BY PahoUnsubscribeCases
<1>3. p = [sub |-> ~Unsubscribing, topics |-> todo, awaited |-> TRUE]
  OBVIOUS
<1>4. /\ AwaitedIsLast' /\ StaleExplained' /\ AckedIsDone'
      /\ (\E i \in DOMAIN out' : out'[i].awaited) => out' = Append(out, p)
  <2> HIDE DEF p
  <2> QED BY <1>1, <1>2, <1>3, PacketQueued
<1>5. \A i \in DOMAIN out : ~out[i].awaited BY NothingAwaited
<1>6. RouteFollows'
  <2>1. \A s : Target(s)' = {}
    BY SameHolder DEF Target
  <2>2. \A s \in Topics \ doubtful : route[s] = record[s] BY NothingAwaited
  <2>3. CASE /\ route' = [s \in Topics |-> IF s \in todo THEN {} ELSE route[s]]
             /\ token' = "waiting"
    BY <1>1, <1>2, <2>1, <2>2, <2>3 DEF RouteFollows
  <2>4. CASE /\ token' \in {"waiting", "refused"}
             /\ route' = route /\ out' = out
    BY <1>5, <2>2, <2>4 DEF RouteFollows
  <2> QED BY <2>3, <2>4, PahoUnsubscribeCases
<1>7. SessionExplained' /\ HandlerOnRecorded' /\ RecordsOwed'
  BY <1>2, TokenStarts
<1> QED BY <1>4, <1>6, <1>7 DEF Agreement

LEMMA AgreementStarts ==
  ASSUME IInv,
         \/ \E c \in Calls : SubscribeTopic(c) \/ UnsubscribeTopics(c)
         \/ Resubscribe
  PROVE  Agreement'
<1>1. ASSUME NEW c \in Calls, SubscribeTopic(c) PROVE Agreement'
  <2>1. PICK t \in todo : PahoSubscribe(t, {c}) BY <1>1 DEF SubscribeTopic
  <2>2. /\ token = "none" /\ mutex = {c} /\ Kind[c] = "subscribe"
        /\ UNCHANGED <<due, mutex, todo, record, broker, doubtful, reported>>
    BY <1>1 DEF SubscribeTopic, Holds, ghosts
  <2>3. ~Unsubscribing /\ Target(t) = {c} BY <2>2, CallHolds
  <2> QED BY <2>1, <2>2, <2>3, SubscribeStarts
<1>2. ASSUME NEW c \in Calls, UnsubscribeTopics(c) PROVE Agreement'
  <2>1. /\ token = "none" /\ mutex = {c} /\ Kind[c] = "unsubscribe"
        /\ PahoUnsubscribe(todo)
        /\ UNCHANGED <<due, mutex, todo, record, broker, doubtful, reported>>
    BY <1>2 DEF UnsubscribeTopics, Holds, ghosts
  <2>2. Unsubscribing /\ mutex # {Handler} BY <2>1, CallHolds
  <2> QED BY <2>1, <2>2, UnsubscribeStarts
<1>3. CASE Resubscribe
  <2>1. PICK t \in todo : PahoSubscribe(t, record[t]) BY <1>3 DEF Resubscribe
  <2>2. /\ token = "none" /\ mutex = {Handler}
        /\ UNCHANGED <<due, mutex, todo, record, broker, doubtful, reported>>
    BY <1>3 DEF Resubscribe, Holds, ghosts
  <2>3. ~Unsubscribing /\ Target(t) = record[t] BY <2>2, HandlerHolds
  <2> QED BY <2>1, <2>2, <2>3, SubscribeStarts
<1> QED BY <1>1, <1>2, <1>3
----------------------------------------------------------------------------
(* The end of a token: nothing is waited for any more, and after an         *)
(* acknowledgement nothing is left on the way.                              *)
LEMMA TokenEnds ==
  ASSUME IInv, token # "waiting", token' = "none", cur' = {}, out' = out
  PROVE  /\ AwaitedIsLast' /\ AckedIsDone'
         /\ \A i \in DOMAIN out' : ~out'[i].awaited
         /\ token = "acked" => StaleExplained'
         /\ RouteFollows' <=> \A t \in Topics \ doubtful' :
                                route'[t] = record'[t]
<1>1. \A i \in DOMAIN out : ~out[i].awaited
  BY DEF IInv, Agreement, AwaitedIsLast
<1>2. token = "acked" => DOMAIN out = {}
  BY DEF IInv, Agreement, AckedIsDone
<1> QED
  BY <1>1, <1>2 DEF AwaitedIsLast, AckedIsDone, StaleExplained, RouteFollows

(* What the client has when a token is acknowledged. *)
LEMMA AckedFacts ==
  ASSUME IInv, token = "acked"
  PROVE  /\ cur \subseteq todo /\ cur \subseteq Topics /\ Uncertain = cur
         /\ session \subseteq Recorded \union doubtful \union cur
         /\ Unsubscribing => cur \cap session = {}
         /\ ~Unsubscribing => cur \subseteq session \union rejected \/ due > 0
         /\ due \in Nat
         /\ \A t \in cur : route[t] = Target(t)
         /\ \A t \in Topics \ (doubtful \union cur) : route[t] = record[t]
         /\ due = 0 => Recorded \subseteq session \union rejected
                             \union reported \union doubtful \union Owed
BY Options DEF IInv, Agreement, Typed, TypeOK, AckedIsDone, SessionExplained,
       RouteFollows, RecordsOwed, Uncertain

LEMMA AgreementRecordTopic ==
  ASSUME IInv, NEW c \in Calls, mutex = {c}, RecordTopic(c)
  PROVE  Agreement'
<1>1. /\ token = "acked" /\ Kind[c] = "subscribe"
      /\ record' = [t \in Topics |-> IF t \in cur THEN {c} ELSE record[t]]
      /\ doubtful' = doubtful \ cur
      /\ token' = "none" /\ cur' = {} /\ mutex' \in {{c}, {}}
      /\ UNCHANGED <<due, route, out, broker, reported>>
  BY DEF RecordTopic, Return, peer
<1>2. /\ ~Unsubscribing /\ Owed = {} /\ mutex' # {Handler}
      /\ \A t : Target(t) = {c}
  BY <1>1, CallHolds, CallShape DEF Owed
<1>3. Recorded' = Recorded \union cur
  BY <1>1, AckedFacts DEF Recorded
<1>4. AwaitedIsLast' /\ StaleExplained' /\ AckedIsDone' BY <1>1, TokenEnds
<1>5. RouteFollows'
  <2>1. ASSUME NEW t \in Topics \ doubtful' PROVE route'[t] = record'[t]
    BY <1>1, <1>2, AckedFacts
  <2> QED BY <1>1, <2>1, TokenEnds
<1>6. SessionExplained'
  BY <1>1, <1>3, AckedFacts DEF SessionExplained
<1>7. HandlerOnRecorded' BY <1>2 DEF HandlerOnRecorded
<1>8. RecordsOwed'
  <2> SUFFICES ASSUME due = 0
               PROVE  Recorded' \subseteq session \union rejected
                               \union reported \union (doubtful \ cur)
    BY <1>1 DEF RecordsOwed
  <2>1. cur \subseteq session \union rejected BY <1>1, <1>2, AckedFacts
  <2> QED BY <1>1, <1>2, <1>3, <2>1, AckedFacts
<1> QED BY <1>4, <1>5, <1>6, <1>7, <1>8 DEF Agreement

LEMMA AgreementDeleteTopics ==
  ASSUME IInv, NEW c \in Calls, mutex = {c}, DeleteTopics(c)
  PROVE  Agreement'
<1>1. /\ token = "acked" /\ Kind[c] = "unsubscribe"
      /\ record' = [t \in Topics |-> IF t \in cur THEN {} ELSE record[t]]
      /\ doubtful' = doubtful \ cur
      /\ token' = "none" /\ cur' = {} /\ mutex' = {}
      /\ UNCHANGED <<due, route, out, broker, reported>>
  BY DEF DeleteTopics, Return, peer
<1>2. /\ Unsubscribing /\ mutex' # {Handler} /\ \A t : Target(t) = {}
  BY <1>1, CallHolds
<1>3. Owed = cur BY <1>1, <1>2, CallHolds, AckedFacts DEF Owed
<1>4. Recorded' = Recorded \ cur
  BY <1>1, AckedFacts DEF Recorded
<1>5. AwaitedIsLast' /\ StaleExplained' /\ AckedIsDone' BY <1>1, TokenEnds
<1>6. RouteFollows'
  <2>1. ASSUME NEW t \in Topics \ doubtful' PROVE route'[t] = record'[t]
    BY <1>1, <1>2, AckedFacts
  <2> QED BY <1>1, <2>1, TokenEnds
<1>7. SessionExplained'
  BY <1>1, <1>2, <1>4, AckedFacts DEF SessionExplained
<1>8. HandlerOnRecorded' BY <1>2 DEF HandlerOnRecorded
<1>9. RecordsOwed'
  BY <1>1, <1>3, <1>4, AckedFacts DEF RecordsOwed
<1> QED BY <1>5, <1>6, <1>7, <1>8, <1>9 DEF Agreement

LEMMA AgreementResubscribed == ASSUME IInv, Resubscribed PROVE Agreement'
<1>1. /\ token = "acked" /\ mutex = {Handler} /\ doubtful' = doubtful \ cur
      /\ todo' = todo \ cur /\ cur' = {} /\ token' = "none"
      /\ UNCHANGED <<due, mutex, record, route, out, broker, reported>>
  BY DEF Resubscribed, Holds, table, peer
<1>2. /\ ~Unsubscribing /\ Owed = todo /\ Owed' = todo \ cur
      /\ \A t : Target(t) = record[t]
  BY <1>1, HandlerHolds DEF Owed
<1>3. /\ Recorded' = Recorded /\ todo \subseteq Recorded
  BY <1>1 DEF Recorded, IInv, Agreement, HandlerOnRecorded
<1>4. AwaitedIsLast' /\ StaleExplained' /\ AckedIsDone' BY <1>1, TokenEnds
<1>5. RouteFollows'
  <2>1. ASSUME NEW t \in Topics \ doubtful' PROVE route'[t] = record'[t]
    BY <1>1, <1>2, AckedFacts
  <2> QED BY <1>1, <2>1, TokenEnds
<1>6. SessionExplained'
  BY <1>1, <1>3, AckedFacts DEF SessionExplained
<1>7. HandlerOnRecorded' BY <1>1, <1>3 DEF HandlerOnRecorded
<1>8. RecordsOwed'
  <2> SUFFICES ASSUME due = 0
               PROVE  Recorded \subseteq session \union rejected
                        \union reported \union (doubtful \ cur)
                        \union (todo \ cur)
    BY <1>1, <1>2, <1>3 DEF RecordsOwed
  <2>1. cur \subseteq session \union rejected BY <1>1, <1>2, AckedFacts
  <2> QED BY <1>1, <1>2, <2>1, AckedFacts
<1> QED BY <1>4, <1>5, <1>6, <1>7, <1>8 DEF Agreement

(* A call that fails leaves its topics in doubt if the packet was sent, and *)
(* no trace if it was not.                                                  *)
LEMMA AgreementFails ==
  ASSUME IInv, NEW c \in Calls, mutex = {c},
         SubscribeFails(c) \/ UnsubscribeFails(c)
  PROVE  Agreement'
<1>1. /\ token \in {"failed", "refused"}
      /\ doubtful' = IF token = "failed" THEN doubtful \union cur ELSE doubtful
      /\ token' = "none" /\ cur' = {} /\ mutex' = {}
      /\ UNCHANGED <<due, record, route, out, broker, reported>>
  BY DEF SubscribeFails, UnsubscribeFails, Doubt, Return, table, peer
<1>2. /\ mutex # {Handler} /\ mutex' # {Handler} /\ Recorded' = Recorded
  BY <1>1, CallHolds, CallShape DEF Recorded
<1>3. /\ Uncertain \subseteq doubtful' /\ doubtful \subseteq doubtful'
      /\ Owed \subseteq doubtful'
  BY <1>1, <1>2 DEF Uncertain, Owed
<1>4. AwaitedIsLast' /\ AckedIsDone' BY <1>1, TokenEnds
<1>5. StaleExplained'
  <2>1. ASSUME NEW i \in DOMAIN out
        PROVE  \/ out[i].topics \subseteq doubtful'
               \/ out[i].sub /\ out[i].topics \subseteq Recorded
    <3>1. ~out[i].awaited BY <1>1, TokenEnds
    <3>2. \/ out[i].topics \subseteq doubtful
          \/ out[i].sub /\ out[i].topics \subseteq Recorded
          \/ token = "failed" /\ out[i].topics \subseteq cur
      BY <3>1 DEF IInv, Agreement, StaleExplained
    <3> QED BY <1>1, <1>3, <3>2
  <2> QED BY <1>1, <1>2, <2>1 DEF StaleExplained
<1>6. RouteFollows'
  <2>1. ASSUME NEW t \in Topics \ doubtful' PROVE route[t] = record[t]
    BY <1>1 DEF IInv, Agreement, RouteFollows
  <2> QED BY <1>1, <2>1, TokenEnds
<1>7. SessionExplained'
  BY <1>1, <1>2, <1>3 DEF IInv, Agreement, SessionExplained
<1>8. HandlerOnRecorded' BY <1>2 DEF HandlerOnRecorded
<1>9. RecordsOwed'
  BY <1>1, <1>2, <1>3 DEF IInv, Agreement, RecordsOwed
<1> QED BY <1>4, <1>5, <1>6, <1>7, <1>8, <1>9 DEF Agreement

(* The handler reports a topic that it could not subscribe, and goes on.    *)
LEMMA AgreementReportError == ASSUME IInv, ReportError PROVE Agreement'
<1>1. /\ token \in {"failed", "refused"} /\ mutex = {Handler}
      /\ reported' = reported \union cur
      /\ todo' = todo \ cur /\ cur' = {} /\ token' = "none"
      /\ UNCHANGED <<due, mutex, record, route, out, broker, doubtful>>
  BY DEF ReportError, Holds, table, peer
<1>2. /\ ~Unsubscribing /\ Owed = todo /\ Owed' = todo \ cur
  BY <1>1, HandlerHolds DEF Owed
<1>3. /\ Recorded' = Recorded /\ todo \subseteq Recorded
      /\ cur \subseteq Recorded
  BY <1>1
  DEF Recorded, IInv, Agreement, HandlerOnRecorded, Typed, TypeOK
<1>4. AwaitedIsLast' /\ AckedIsDone' BY <1>1, TokenEnds
<1>5. StaleExplained'
  <2>1. ASSUME NEW i \in DOMAIN out
        PROVE  \/ out[i].topics \subseteq doubtful
               \/ out[i].sub /\ out[i].topics \subseteq Recorded
    <3>1. ~out[i].awaited BY <1>1, TokenEnds
    <3>2. \/ out[i].topics \subseteq doubtful
          \/ out[i].sub /\ out[i].topics \subseteq Recorded
          \/ out[i].sub = ~Unsubscribing /\ out[i].topics \subseteq cur
      BY <3>1 DEF IInv, Agreement, StaleExplained
    <3> QED BY <1>2, <1>3, <3>2
  <2> QED BY <1>1, <1>3, <2>1 DEF StaleExplained
<1>6. RouteFollows'
  <2>1. \A t \in Topics \ doubtful : route[t] = record[t]
    BY <1>1 DEF IInv, Agreement, RouteFollows
  <2> QED BY <1>1, <2>1, TokenEnds
<1>7. SessionExplained'
  BY <1>1, <1>3 DEF IInv, Agreement, SessionExplained, Uncertain
<1>8. HandlerOnRecorded' BY <1>1, <1>3 DEF HandlerOnRecorded
<1>9. RecordsOwed'
  BY <1>1, <1>2, <1>3 DEF IInv, Agreement, RecordsOwed
<1> QED BY <1>4, <1>5, <1>6, <1>7, <1>8, <1>9 DEF Agreement
----------------------------------------------------------------------------
(* Every step keeps the invariant. *)
LEMMA WorkKeeps ==
  ASSUME IInv, NEW c \in Calls, StartCall(c) \/ Work(c) PROVE IInv'
<1>1. CASE StartCall(c)
  BY <1>1, TypedOutside, AgreementKept DEF StartCall, IInv
<1>2. CASE Lock(c) BY <1>2, TypedOutside, AgreementLock DEF IInv
<1>3. CASE SubscribeTopic(c) \/ UnsubscribeTopics(c)
  <2>1. mutex = {c} BY <1>3 DEF SubscribeTopic, UnsubscribeTopics, Holds
  <2> QED BY <1>3, <2>1, TypedWork, AgreementStarts DEF IInv
<1>4. CASE RecordTopic(c)
  <2>1. mutex = {c} BY <1>4 DEF RecordTopic, Holds
  <2> QED BY <1>4, <2>1, TypedWork, AgreementRecordTopic DEF IInv
<1>5. CASE DeleteTopics(c)
  <2>1. mutex = {c} BY <1>5 DEF DeleteTopics, Holds
  <2> QED BY <1>5, <2>1, TypedWork, AgreementDeleteTopics DEF IInv
<1>6. CASE SubscribeFails(c) \/ UnsubscribeFails(c)
  <2>1. mutex = {c} BY <1>6 DEF SubscribeFails, UnsubscribeFails, Holds
  <2> QED BY <1>6, <2>1, TypedWork, AgreementFails DEF IInv
<1> QED BY <1>1, <1>2, <1>3, <1>4, <1>5, <1>6 DEF Work

LEMMA HandlerKeeps == ASSUME IInv, HandlerWork PROVE IInv'
<1>1. CASE LockHandler \/ UnlockHandler
  BY <1>1, TypedOutside, AgreementLockHandler, AgreementUnlockHandler DEF IInv
<1>2. CASE Resubscribe \/ Resubscribed \/ ReportError
  BY <1>2, TypedHandler, AgreementStarts, AgreementResubscribed,
     AgreementReportError DEF IInv
<1> QED BY <1>1, <1>2 DEF HandlerWork

LEMMA NextKeeps == IInv /\ [Next]_vars => IInv'
<1> SUFFICES ASSUME IInv, [Next]_vars PROVE IInv'
  OBVIOUS
<1>1. CASE Connection
  BY <1>1, TypedConnection, AgreementConnection DEF IInv
<1>2. CASE Serve \/ Reject \/ TokenFails
  <2>1. Typed' BY <1>2, TypedBroker DEF IInv, Agreement
  <2>2. Agreement'
    BY <1>2, AgreementServe, AgreementTokenFails
  <2> QED BY <2>1, <2>2 DEF IInv
<1>3. ASSUME NEW c \in Calls, StartCall(c) \/ Work(c) PROVE IInv'
  BY <1>3, WorkKeeps
<1>4. CASE HandlerWork BY <1>4, HandlerKeeps
<1>5. ASSUME NEW t \in Topics, BadMessage(t) PROVE IInv'
  BY <1>5, TypedOutside, AgreementKept DEF BadMessage, IInv
<1>6. ASSUME NEW e \in Errs, ReadError(e) \/ ReaderReturns(e) PROVE IInv'
  <2>1. UNCHANGED <<due, work, table, peer, ghosts>>
    BY <1>6 DEF ReadError, ReaderReturns
  <2> QED BY <1>6, <2>1, TypedOutside, AgreementKept DEF IInv
<1>7. CASE UNCHANGED vars
  <2>1. Agreement' BY <1>7, AgreementKept DEF vars, IInv
  <2>2. Typed'
    BY <1>7 DEF vars, IInv, Typed, TypeOK, HolderWorks, link, work, table,
                peer, app, ghosts
  <2> QED BY <2>1, <2>2 DEF IInv
<1> QED BY <1>1, <1>2, <1>3, <1>4, <1>5, <1>6, <1>7 DEF Next

(* The inductive invariant: with at most one holder of subscriptionMutex,   *)
(* records, routes and session agree but for what the holder is about.      *)
THEOREM InvHolds == Spec => []IInv
<1>1. Init => IInv BY TypedInit, AgreementInit DEF IInv
<1> QED BY <1>1, NextKeeps, PTL DEF Spec

(* Every variable of the client, of paho and of the broker keeps its type,  *)
(* and never is more than one call or handler at work.                      *)
THEOREM TypeCorrect == Spec => []TypeOK
<1>1. IInv => TypeOK BY DEF IInv, Typed
<1> QED BY <1>1, InvHolds, PTL

(* "On a re-connect is when the subscriptions must be re-created": once     *)
(* onConnectHandler is through, every record of existingSubscriptions is    *)
(* served by the broker, or its failure was reported, or its last call      *)
(* failed, or the broker refused it in its last answer.                     *)
THEOREM RecordsAreServed == Spec => []RecordsServed
<1>1. IInv => RecordsServed
  BY NobodyHolds DEF IInv, Agreement, RecordsOwed, RecordsServed, Quiet
<1> QED BY <1>1, InvHolds, PTL

(* What the broker serves is recorded, so that the mutex orders Unsubscribe *)
(* and onConnectHandler: no reconnect brings back a topic that was given up.*)
THEOREM NoGhosts == Spec => []NoGhostSubscription
<1>1. IInv => NoGhostSubscription
  <2> SUFFICES ASSUME IInv, mutex = {}
               PROVE  session \subseteq Recorded \union doubtful
    BY DEF NoGhostSubscription, Quiet
  <2>1. token = "none" BY NobodyHolds DEF IInv
  <2> QED BY <2>1, NothingAwaited DEF IInv, Agreement, SessionExplained
<1> QED BY <1>1, InvHolds, PTL

(* The handler that paho calls for a topic is the recorded one, the one     *)
(* onConnectHandler would install, unless the topic's last call failed.     *)
THEOREM RouteMatchesRecord == Spec => []RouteIsRecorded
<1>1. IInv => RouteIsRecorded
  <2> SUFFICES ASSUME IInv, mutex = {}
               PROVE  \A t \in Topics \ doubtful : route[t] = record[t]
    BY DEF RouteIsRecorded, Quiet
  <2>1. token = "none" BY NobodyHolds DEF IInv
  <2> QED BY <2>1, NothingAwaited
<1> QED BY <1>1, InvHolds, PTL
=============================================================================
