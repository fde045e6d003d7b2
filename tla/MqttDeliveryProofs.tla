------------------------- MODULE MqttDeliveryProofs -------------------------
(* MqttDelivery implements ClientStart, and what ClientStartProofs proves   *)
(* of a start holds of a client with messages under way: for every set of   *)
(* configurations, any number of calls of Connect, publishers and topics.   *)
(* Then the traffic itself: MqttInv follows the messages from the outbox to *)
(* the reader, one lemma per action that moves one, up to OnceInOrder.      *)
EXTENDS MqttDelivery, ClientStartProofs

(* A step with messages under way is a step of ClientStart, or none of it. *)
LEMMA StepOfStart == StartInv /\ [Next]_vars => [StartNext]_startVars
<1> SUFFICES ASSUME StartInv, [Next]_vars PROVE [StartNext]_startVars
  OBVIOUS
<1>1. CASE Start
  BY <1>1 DEF Start, StartNext, Environment
<1>2. CASE Lose \/ ComeUp
  <2>1. own \in DOMAIN conns
    BY <1>2 DEF Lose, ComeUp, Active, StartInv, ConnsInOrder
  <2> QED BY <1>2, <2>1 DEF Lose, ComeUp, StartNext, Environment
<1>3. CASE Leave
  BY <1>3 DEF Leave, StartNext
<1>4. CASE Subscribe \/ Restore \/ AppPublishes \/ Take \/ Route
           \/ HandlerReturns \/ ReadError
  BY <1>4 DEF Subscribe, Restore, AppPublishes, Take, Route, HandlerReturns,
              ReadError
<1>5. CASE \/ \E p \in Publishers : PublishEnds(p)
           \/ \E k \in 1..2 : ReadReceipt(k)
           \/ \E t \in Topics : ReadMessage(t)
  BY <1>5 DEF PublishEnds, ReadReceipt, ReadMessage
<1>6. CASE UNCHANGED vars
  BY <1>6 DEF vars
<1> QED BY <1>1, <1>2, <1>3, <1>4, <1>5, <1>6 DEF Next

LEMMA StartInvHolds == Spec => []StartInv
<1>1. Init => StartInv
  BY StartInvInit DEF Init
<1>2. StartInv /\ [Next]_vars => StartInv'
  BY StepOfStart, StartInvNext
<1> QED BY <1>1, <1>2, PTL DEF Spec

(* Refinement: what happens to configurations, calls of Connect and         *)
(* connections while messages are under way is a behaviour of ClientStart:  *)
(* the traffic makes no connection, and changes the status of one only as   *)
(* the library may at any time.                                             *)
THEOREM StartImplemented == Spec => StartSpec
<1>1. Init => StartInit
  BY DEF Init
<1> QED BY <1>1, StartInvHolds, StepOfStart, PTL DEF Spec, StartSpec

(* Connect of both clients, called any number of times at once, and         *)
(* Disconnect: an open connection that is not the one in the client's field *)
(* comes from two calls at once or from a JetStream attempt that failed     *)
(* after it had connected. *)
THEOREM StraysAreExplained == Spec => []StraysExplained
<1>1. StartInv => StraysExplained
  BY DEF StartInv, StraysOfJetStream, StraysExplained
<1> QED BY <1>1, StartInvHolds, PTL

(* Load, newConnection and createClientOptions: with the traffic under way, *)
(* connections lost and come up again, and options set late, every client   *)
(* of the library is made of all that was given and the defaults.           *)
THEOREM ConfigurationsAsGiven == Spec => []ConfiguredAsGiven
BY StartImplemented, StartConfigured, PTL
----------------------------------------------------------------------------
(* The order of messages.  Of a sequence: it has an element, every x in it  *)
(* has a y before it, no x in it is before a y.                             *)
Has(s, e)      == \E i \in DOMAIN s : s[i] = e
Leads(s, y, x) == \A i \in DOMAIN s :
                    s[i] = x => \E j \in DOMAIN s : j < i /\ s[j] = y
Never(s, x, y) == \A i, j \in DOMAIN s : i < j => ~(s[i] = x /\ s[j] = y)

(* Of a message: published before another, taken by the broker (for the     *)
(* first time in a session with the topics), handed to the application,     *)
(* still in the outbox, in the part of it that is to be sent, or on its way.*)
Before(x, y) == \E i, j \in DOMAIN sent : i < j /\ sent[i] = x /\ sent[j] = y
First(m)     == [m |-> m, served |-> TRUE] \in taken
Took(m)      == First(m) \/ [m |-> m, served |-> FALSE] \in taken
Handed(m)    == Has(handed, m)
Flagged(m)   == \E k \in DOMAIN outbox : outbox[k].m = m /\ outbox[k].sent
Unsent(m)    == \E k \in DOMAIN outbox : outbox[k].m = m /\ ~outbox[k].sent
Coming(m)    == Has(inbound, Message(m))
Confirmed(m) == Has(inbound, Receipt(m))
Retaining    == Set("Retained")

TrafficTyped ==
  /\ subscribed \in BOOLEAN /\ served \in BOOLEAN /\ restoring \in BOOLEAN
  /\ next \in 1..(Len(Script) + 1) /\ losses \in 0..MaxLosses
  /\ sending \in [Publishers -> SUBSET Messages]
  /\ outbox \in Seq([m : Messages, sent : BOOLEAN])
  /\ stored \in [Topics -> SUBSET Messages]
  /\ \A t \in Topics : \A x, y \in stored[t] : x = y /\ TopicOf[x] = t
  /\ unacked \in Seq(Messages)
  /\ inbound \in Seq([kind : {"message", "receipt"}, m : Messages])
  /\ handling \in SUBSET Messages /\ \A x, y \in handling : x = y
  /\ channel \in [Topics -> Seq(Messages)]
  /\ \A t \in Topics : Len(channel[t]) <= Capacity \/ Len(channel[t]) = 1
  /\ errors \in Seq(Messages)
  /\ sent \in Seq(Messages) /\ taken \subseteq [m : Messages, served : BOOLEAN]
  /\ handed \in Seq(Messages)

MqttTyped == StartTypeOK /\ Stamped /\ TrafficTyped

(* There is one client, of MQTT, and it is dialled once. *)
OneClient ==
  setup.traffic =>
    /\ IsMqtt /\ own = Len(conns) /\ own \in {0, 1}
    /\ \A c \in Connects : connect[c] # "idle" => c \in setup.connects
    /\ \A c \in setup.connects \cap Connects :
         /\ own = 1 => connect[c] \notin {"idle", "make"}
         /\ connect[c] \in {"test", "dial"} => own = 1 /\ Status = "new"
    /\ own = 1 => DOMAIN conns[own] = {"status", "options", "from"}

(* Nothing is under way before the connection is up, nothing comes in when  *)
(* it is not, and it comes back only after it was lost.                     *)
Silent ==
  /\ losses = 0 /\ sent = <<>> /\ outbox = <<>> /\ inbound = <<>>
  /\ unacked = <<>> /\ handed = <<>> /\ handling = {} /\ taken = {}
  /\ \A t \in Topics : stored[t] = {} /\ channel[t] = <<>>
UpFirst ==
  /\ ~Active \/ Status \in {"new", "connecting"} => Silent
  /\ Active /\ Status # "up" => inbound = <<>>
  /\ Active /\ Status = "reconnecting" => losses > 0

(* Every message is published once. *)
PublishedOnce ==
  /\ \A i, j \in DOMAIN sent : sent[i] = sent[j] => i = j
  /\ \A i \in DOMAIN sent : \/ \E k \in 1..(next - 1) : sent[i] = Script[k]
                            \/ \E m \in Messages : sent[i] \in ReplyTo[m]

(* The outbox is in the order of publication; a message that was sent has   *)
(* its receipt under way; with qos 1 one leaves only with its receipt, and  *)
(* none is taken before an earlier one.                                     *)
OutboxInOrder ==
  /\ \A x, y \in Messages : \A i, j \in DOMAIN outbox :
       i < j /\ outbox[i].m = x /\ outbox[j].m = y => Before(x, y)
  /\ \A i \in DOMAIN outbox : Has(sent, outbox[i].m)
  /\ \A m \in Messages : Flagged(m) =>
       /\ Took(m) /\ Assured
       /\ Status = "down" \/ Confirmed(m)
  /\ \A m \in Messages : Took(m) => Has(sent, m)
  /\ Assured =>
       /\ \A m \in Messages : Has(sent, m) => Took(m) \/ Flagged(m) \/ Unsent(m)
       /\ \A x, y \in Messages : Took(x) /\ Before(y, x) => Took(y)

(* The broker sends nothing that it has not taken. *)
FromBroker ==
  /\ \A m \in Messages :
       /\ Handed(m) \/ m \in handling \/ Coming(m) \/ Confirmed(m)
            \/ Has(unacked, m) => Took(m)
       /\ Confirmed(m) \/ Has(unacked, m) => Assured
  /\ \A t \in Topics : \A m \in stored[t] : Took(m) /\ Retaining

(* Unless something is sent again: a message comes after those that were    *)
(* published before it on the topic, or it is once more the retained one.   *)
Ordered(x, y) == Before(x, y) \/ (Retaining /\ x = y)
InOrder ==
  ~Assured \/ losses = 0 =>
    /\ \A x, y \in Messages : Took(x) /\ Unsent(y) => Before(x, y)
    /\ Retaining => \A x \in Messages :
         Took(x) => \E z \in stored[TopicOf[x]] : Ordered(x, z)
    /\ \A x, y \in Messages :
         TopicOf[x] = TopicOf[y] /\ ~Ordered(x, y) =>
           /\ Never(handed, x, y)
           /\ Never(inbound, Message(x), Message(y))
           /\ Handed(x) => y \notin handling /\ ~Coming(y)
           /\ x \in handling => ~Coming(y)

(* A clean session: when a message is at its reader, an earlier one has     *)
(* been there or will never come.                                           *)
CleanInOrder ==
  Assured /\ ~Lasting /\ ~Retaining =>
    \A x, y \in Messages : Before(y, x) =>
      /\ Handed(x) \/ x \in handling =>
           \/ Handed(y)
           \/ /\ ~Flagged(y) /\ ~Unsent(y)
              /\ ~Coming(y) /\ y \notin handling
      /\ \/ Handed(y) \/ y \in handling
         \/ Leads(inbound, Message(y), Message(x))
         \/ /\ ~Coming(y)
            /\ \/ ~Flagged(y) /\ ~Unsent(y)
               \/ Leads(inbound, Receipt(y), Message(x))
      /\ Coming(x) => ~Unsent(y)

(* A session that lasts: it keeps what it took until it was handed over,    *)
(* and nothing overtakes it.                                                *)
LastingInOrder ==
  Assured /\ Lasting =>
    /\ \A y \in Messages : First(y) /\ ~Handed(y) =>
         /\ Has(unacked, y)
         /\ Status = "up" => y \in handling \/ Coming(y)
    /\ \A x, y \in Messages : Before(y, x) /\ First(y) /\ ~Handed(y) =>
         /\ x \notin handling /\ ~Handed(x)
         /\ Leads(unacked, y, x)
         /\ y \in handling \/ Leads(inbound, Message(y), Message(x))

(* What that means for the messages handed over so far. *)
HandedInOrder ==
  Assured /\ (Lasting \/ ~Retaining) =>
    \A x, y \in Messages : Before(y, x) =>
      \A i, j \in DOMAIN handed : i < j /\ handed[i] = x /\ handed[j] = y =>
        \/ \E k \in 1..(j - 1) : handed[k] = y
        \/ [m |-> y, served |-> FALSE] \in taken

Traffic == /\ OutboxInOrder /\ FromBroker /\ InOrder
           /\ CleanInOrder /\ LastingInOrder /\ HandedInOrder

MqttInv == /\ MqttTyped /\ OneClient /\ UpFirst /\ PublishedOnce
           /\ Active => Traffic
----------------------------------------------------------------------------
(* Of sequences. *)

LEMMA Concat ==
  ASSUME NEW S, NEW s \in Seq(S), NEW t \in Seq(S)
  PROVE  /\ s \o t \in Seq(S) /\ Len(s \o t) = Len(s) + Len(t)
         /\ \A i \in 1..Len(s) : (s \o t)[i] = s[i]
         /\ \A i \in 1..Len(t) : (s \o t)[Len(s) + i] = t[i]
         /\ \A i \in DOMAIN (s \o t) :
              \/ i \in DOMAIN s /\ (s \o t)[i] = s[i]
              \/ /\ i > Len(s) /\ i - Len(s) \in DOMAIN t
                 /\ (s \o t)[i] = t[i - Len(s)]
OBVIOUS

LEMMA FunctionsAreSeqs ==
  ASSUME NEW S, NEW n \in Nat, NEW f \in [1..n -> S]
  PROVE  f \in Seq(S) /\ Len(f) = n
OBVIOUS

LEMMA ElementsOfSeq ==
  ASSUME NEW S, NEW s \in Seq(S), NEW i \in DOMAIN s
  PROVE  s[i] \in S
OBVIOUS

LEMMA AppendTyped ==
  ASSUME NEW S, NEW s \in Seq(S), NEW e \in S
  PROVE  Append(s, e) \in Seq(S) /\ Len(Append(s, e)) = Len(s) + 1
OBVIOUS

LEMMA ConcatHas ==
  ASSUME NEW S, NEW s \in Seq(S), NEW t \in Seq(S), NEW e
  PROVE  Has(s \o t, e) <=> Has(s, e) \/ Has(t, e)
<1>1. ASSUME Has(s \o t, e) PROVE Has(s, e) \/ Has(t, e)
  BY <1>1, Concat DEF Has
<1>2. ASSUME Has(s, e) PROVE Has(s \o t, e)
  <2>1. PICK i \in DOMAIN s : s[i] = e BY <1>2 DEF Has
  <2>2. i \in 1..Len(s) /\ i \in DOMAIN (s \o t) BY Concat
  <2> QED BY <2>1, <2>2, Concat DEF Has
<1>3. ASSUME Has(t, e) PROVE Has(s \o t, e)
  <2>1. PICK i \in DOMAIN t : t[i] = e BY <1>3 DEF Has
  <2>2. i \in 1..Len(t) /\ Len(s) + i \in DOMAIN (s \o t) BY Concat
  <2> QED BY <2>1, <2>2, Concat DEF Has
<1> QED BY <1>1, <1>2, <1>3

LEMMA ConcatLeads ==
  ASSUME NEW S, NEW s \in Seq(S), NEW t \in Seq(S), NEW x, NEW y,
         Leads(s, y, x), Has(s, y) \/ ~Has(t, x)
  PROVE  Leads(s \o t, y, x)
<1> SUFFICES ASSUME NEW i \in DOMAIN (s \o t), (s \o t)[i] = x
             PROVE  \E j \in DOMAIN (s \o t) : j < i /\ (s \o t)[j] = y
  BY DEF Leads
<1>1. \A j \in DOMAIN s : j \in DOMAIN (s \o t) /\ (s \o t)[j] = s[j]
  BY Concat
<1>2. CASE i \in DOMAIN s /\ (s \o t)[i] = s[i]
  BY <1>1, <1>2 DEF Leads
<1>3. CASE i > Len(s) /\ i - Len(s) \in DOMAIN t /\ (s \o t)[i] = t[i - Len(s)]
  <2>1. PICK j \in DOMAIN s : s[j] = y BY <1>3 DEF Has
  <2>2. j < i BY <1>3, <2>1
  <2> QED BY <1>1, <2>1, <2>2
<1> QED BY <1>2, <1>3, Concat

LEMMA ConcatNever ==
  ASSUME NEW S, NEW s \in Seq(S), NEW t \in Seq(S), NEW x, NEW y,
         Never(s, x, y), Never(t, x, y), ~(Has(s, x) /\ Has(t, y))
  PROVE  Never(s \o t, x, y)
<1> SUFFICES ASSUME NEW i \in DOMAIN (s \o t), NEW j \in DOMAIN (s \o t), i < j,
                    (s \o t)[i] = x, (s \o t)[j] = y
             PROVE  FALSE
  BY DEF Never
<1>1. /\ Len(s) \in Nat /\ i \in Nat /\ j \in Nat /\ DOMAIN s = 1..Len(s)
      /\ i \geq 1
  BY Concat
<1>2. CASE j \in DOMAIN s /\ (s \o t)[j] = s[j]
  <2>1. i \in DOMAIN s BY <1>1, <1>2
  <2>2. (s \o t)[i] = s[i] BY <2>1, Concat
  <2> QED BY <1>2, <2>1, <2>2 DEF Never
<1>3. CASE j > Len(s) /\ j - Len(s) \in DOMAIN t /\ (s \o t)[j] = t[j - Len(s)]
  <2>1. CASE i \in DOMAIN s /\ (s \o t)[i] = s[i]
    BY <1>3, <2>1 DEF Has
  <2>2. CASE i - Len(s) \in DOMAIN t /\ (s \o t)[i] = t[i - Len(s)]
    <3>1. i - Len(s) < j - Len(s) BY <1>1
    <3> QED BY <1>3, <2>2, <3>1 DEF Never
  <2> QED BY <2>1, <2>2, Concat
<1> QED BY <1>2, <1>3, Concat

LEMMA Removal ==
  ASSUME NEW S, NEW s \in Seq(S), NEW i \in DOMAIN s
  PROVE  /\ RemoveAt(s, i) \in Seq(S) /\ Len(RemoveAt(s, i)) = Len(s) - 1
         /\ Len(s) \in Nat /\ i \in 1..Len(s) /\ DOMAIN s = 1..Len(s)
         /\ DOMAIN RemoveAt(s, i) = 1..(Len(s) - 1)
         /\ \A k \in DOMAIN RemoveAt(s, i) :
              /\ k < i => k \in DOMAIN s /\ RemoveAt(s, i)[k] = s[k]
              /\ k >= i => k + 1 \in DOMAIN s /\ RemoveAt(s, i)[k] = s[k + 1]
         /\ \A k \in DOMAIN s :
              /\ k < i => /\ k \in DOMAIN RemoveAt(s, i)
                          /\ RemoveAt(s, i)[k] = s[k]
              /\ k > i => /\ k - 1 \in DOMAIN RemoveAt(s, i)
                          /\ RemoveAt(s, i)[k - 1] = s[k]
<1> DEFINE p == SubSeq(s, 1, i - 1)
           q == SubSeq(s, i + 1, Len(s))
<1>1. i \in 1..Len(s) /\ Len(s) \in Nat OBVIOUS
<1>2. /\ p \in Seq(S) /\ Len(p) = i - 1
      /\ \A k \in 1..(i - 1) : p[k] = s[k]
  BY <1>1
<1>3. /\ q \in Seq(S) /\ Len(q) = Len(s) - i
      /\ \A k \in 1..(Len(s) - i) : q[k] = s[i + k]
  BY <1>1
<1>4. RemoveAt(s, i) = p \o q BY DEF RemoveAt
<1> HIDE DEF p, q
<1> DEFINE r == p \o q
<1>5. /\ r \in Seq(S) /\ Len(r) = Len(s) - 1
      /\ \A k \in 1..(i - 1) : r[k] = s[k]
      /\ \A k \in 1..(Len(s) - i) : r[i - 1 + k] = s[i + k]
  BY <1>1, <1>2, <1>3, Concat
<1> HIDE DEF r
<1>6. DOMAIN r = 1..(Len(s) - 1) /\ DOMAIN s = 1..Len(s)
  BY <1>5
<1>7. ASSUME NEW k \in DOMAIN r
      PROVE  /\ k < i => k \in DOMAIN s /\ r[k] = s[k]
             /\ k >= i => k + 1 \in DOMAIN s /\ r[k] = s[k + 1]
  <2>1. k \in 1..(Len(s) - 1) BY <1>6
  <2>2. CASE k < i
    <3>1. k \in 1..(i - 1) /\ k \in 1..Len(s) BY <1>1, <2>1, <2>2
    <3> QED BY <1>1, <1>5, <1>6, <2>1, <2>2, <3>1
  <2>3. CASE k >= i
    <3> DEFINE l == k - i + 1
    <3>1. /\ l \in 1..(Len(s) - i) /\ i - 1 + l = k
          /\ i + l = k + 1 /\ k + 1 \in 1..Len(s) /\ ~(k < i)
      BY <1>1, <2>1, <2>3
    <3> HIDE DEF l
    <3>2. r[i - 1 + l] = s[i + l] BY <1>5, <3>1
    <3> QED BY <1>6, <3>1, <3>2
  <2> QED BY <1>1, <2>1, <2>2, <2>3
<1>8. ASSUME NEW k \in DOMAIN s
      PROVE  /\ k < i => k \in DOMAIN r /\ r[k] = s[k]
             /\ k > i => k - 1 \in DOMAIN r /\ r[k - 1] = s[k]
  <2>1. k \in 1..Len(s) BY <1>6
  <2>2. CASE k < i
    <3>1. k \in 1..(i - 1) /\ k \in 1..(Len(s) - 1) /\ ~(k > i)
      BY <1>1, <2>1, <2>2
    <3> QED BY <1>5, <1>6, <3>1
  <2>3. CASE k > i
    <3> DEFINE l == k - i
    <3>1. /\ l \in 1..(Len(s) - i) /\ i - 1 + l = k - 1
          /\ i + l = k /\ k - 1 \in 1..(Len(s) - 1) /\ ~(k < i)
      BY <1>1, <2>1, <2>3
    <3> HIDE DEF l
    <3>2. r[i - 1 + l] = s[i + l] BY <1>5, <3>1
    <3> QED BY <1>6, <3>1, <3>2
  <2> QED BY <1>1, <2>1, <2>2, <2>3
<1> QED BY <1>1, <1>4, <1>5, <1>6, <1>7, <1>8 DEF r

LEMMA RemovalHas ==
  ASSUME NEW S, NEW s \in Seq(S), NEW i \in DOMAIN s, NEW e
  PROVE  /\ Has(RemoveAt(s, i), e) => Has(s, e)
         /\ Has(s, e) /\ s[i] # e => Has(RemoveAt(s, i), e)
<1> DEFINE r == RemoveAt(s, i)
<1>0. /\ \A k \in DOMAIN r : k \in Nat
      /\ \A k \in DOMAIN s : k \in Nat
      /\ i \in Nat
      /\ \A k \in DOMAIN r :
           /\ k < i => k \in DOMAIN s /\ r[k] = s[k]
           /\ k >= i => k + 1 \in DOMAIN s /\ r[k] = s[k + 1]
      /\ \A k \in DOMAIN s :
           /\ k < i => k \in DOMAIN r /\ r[k] = s[k]
           /\ k > i => k - 1 \in DOMAIN r /\ r[k - 1] = s[k]
  BY Removal
<1> HIDE DEF r
<1>1. ASSUME NEW k \in DOMAIN r, r[k] = e PROVE Has(s, e)
  <2>1. k < i \/ k >= i BY <1>0
  <2> QED BY <1>0, <1>1, <2>1 DEF Has
<1>2. ASSUME NEW k \in DOMAIN s, s[k] = e, s[i] # e PROVE Has(r, e)
  <2>1. k < i \/ k > i BY <1>0, <1>2
  <2> QED BY <1>0, <1>2, <2>1 DEF Has
<1> QED BY <1>1, <1>2 DEF Has, r

LEMMA RemovalLeads ==
  ASSUME NEW S, NEW s \in Seq(S), NEW i \in DOMAIN s, NEW x, NEW y,
         Leads(s, y, x), s[i] # y
  PROVE  Leads(RemoveAt(s, i), y, x)
<1> DEFINE r == RemoveAt(s, i)
<1>0. /\ \A k \in DOMAIN r : k \in Nat
      /\ \A k \in DOMAIN s : k \in Nat
      /\ i \in Nat
      /\ \A k \in DOMAIN r :
           /\ k < i => k \in DOMAIN s /\ r[k] = s[k]
           /\ k >= i => k + 1 \in DOMAIN s /\ r[k] = s[k + 1]
      /\ \A k \in DOMAIN s :
           /\ k < i => k \in DOMAIN r /\ r[k] = s[k]
           /\ k > i => k - 1 \in DOMAIN r /\ r[k - 1] = s[k]
  BY Removal
<1> HIDE DEF r
<1> SUFFICES ASSUME NEW k \in DOMAIN r, r[k] = x
             PROVE  \E j \in DOMAIN r : j < k /\ r[j] = y
  BY DEF Leads, r
<1>k. k \in Nat BY <1>0
<1>1. PICK l \in DOMAIN s : s[l] = x /\ (k < i => l = k) /\ (k >= i => l = k + 1)
  <2>1. CASE k < i BY <1>0, <2>1, <1>k
  <2>2. CASE k >= i
    <3>1. ~(k < i) BY <1>0, <1>k, <2>2
    <3> QED BY <1>0, <2>2, <3>1
  <2> QED BY <1>0, <1>k, <2>1, <2>2
<1>2. PICK j \in DOMAIN s : j < l /\ s[j] = y BY <1>1 DEF Leads
<1>3. CASE j < i
  <2>1. j \in DOMAIN r /\ r[j] = y BY <1>0, <1>2, <1>3
  <2>2. j < k BY <1>0, <1>k, <1>1, <1>2, <1>3
  <2> QED BY <2>1, <2>2
<1>4. CASE j > i
  <2>1. j - 1 \in DOMAIN r /\ r[j - 1] = y BY <1>0, <1>2, <1>4
  <2>2. j - 1 < k BY <1>0, <1>k, <1>1, <1>2, <1>4
  <2> QED BY <2>1, <2>2
<1>5. j # i BY <1>2
<1> QED BY <1>0, <1>3, <1>4, <1>5

LEMMA RemovalNever ==
  ASSUME NEW S, NEW s \in Seq(S), NEW i \in DOMAIN s, NEW x, NEW y,
         Never(s, x, y)
  PROVE  Never(RemoveAt(s, i), x, y)
<1> DEFINE r == RemoveAt(s, i)
<1>0. /\ \A k \in DOMAIN r : k \in Nat
      /\ \A k \in DOMAIN s : k \in Nat
      /\ i \in Nat
      /\ \A k \in DOMAIN r :
           /\ k < i => k \in DOMAIN s /\ r[k] = s[k]
           /\ k >= i => k + 1 \in DOMAIN s /\ r[k] = s[k + 1]
      /\ \A k \in DOMAIN s :
           /\ k < i => k \in DOMAIN r /\ r[k] = s[k]
           /\ k > i => k - 1 \in DOMAIN r /\ r[k - 1] = s[k]
  BY Removal
<1> HIDE DEF r
<1> SUFFICES ASSUME NEW k \in DOMAIN r, NEW l \in DOMAIN r, k < l,
                    r[k] = x, r[l] = y
             PROVE  FALSE
  BY DEF Never, r
<1>t. k \in Nat /\ l \in Nat BY <1>0
<1>3. \A q \in Nat : q < i \/ (q >= i /\ ~(q < i)) BY <1>0
<1>4. \A z : \A q \in DOMAIN r : r[q] = z =>
        \E m \in DOMAIN s : s[m] = z /\ (q < i => m = q) /\ (q >= i => m = q + 1)
  <2> SUFFICES ASSUME NEW q \in DOMAIN r, NEW z, r[q] = z
               PROVE  \E m \in DOMAIN s :
                 s[m] = z /\ (q < i => m = q) /\ (q >= i => m = q + 1)
    OBVIOUS
  <2>1. CASE q < i
    <3>1. ~(q >= i) BY <1>0, <2>1
    <3> QED BY <1>0, <2>1, <3>1
  <2>2. CASE q >= i
    <3>1. ~(q < i) BY <1>0, <2>2
    <3> QED BY <1>0, <2>2, <3>1
  <2> QED BY <1>0, <1>3, <2>1, <2>2
<1>1. PICK m \in DOMAIN s : s[m] = x /\ (k < i => m = k) /\ (k >= i => m = k + 1)
  BY <1>4
<1>2. PICK n \in DOMAIN s : s[n] = y /\ (l < i => n = l) /\ (l >= i => n = l + 1)
  BY <1>4
<1>5. m < n BY <1>0, <1>t, <1>1, <1>2, <1>3
<1> QED BY <1>1, <1>2, <1>5 DEF Never

(* Taking the head is a removal. *)
LEMMA TailRemoves ==
  ASSUME NEW S, NEW s \in Seq(S), s # <<>>
  PROVE  /\ 1 \in DOMAIN s /\ Head(s) = s[1] /\ Head(s) \in S
         /\ Tail(s) = RemoveAt(s, 1)
<1>1. Len(s) \in Nat /\ Len(s) > 0 BY EmptySeq
<1>2. /\ Tail(s) \in Seq(S) /\ Len(Tail(s)) = Len(s) - 1
      /\ \A k \in 1..(Len(s) - 1) : Tail(s)[k] = s[k + 1]
  BY <1>1
<1>3. 1 \in DOMAIN s /\ Head(s) = s[1] /\ Head(s) \in S
  BY <1>1
<1>4. /\ RemoveAt(s, 1) \in Seq(S) /\ Len(RemoveAt(s, 1)) = Len(s) - 1
      /\ \A k \in 1..(Len(s) - 1) : RemoveAt(s, 1)[k] = s[k + 1]
  <2> DEFINE r == RemoveAt(s, 1)
  <2>1. /\ r \in Seq(S) /\ Len(r) = Len(s) - 1 /\ DOMAIN r = 1..(Len(s) - 1)
        /\ \A k \in DOMAIN r : k >= 1 => r[k] = s[k + 1]
    BY <1>3, Removal
  <2> HIDE DEF r
  <2>2. \A k \in 1..(Len(s) - 1) : k >= 1 BY <1>1
  <2> QED BY <2>1, <2>2 DEF r
<1>5. Tail(s) = RemoveAt(s, 1)
  BY <1>2, <1>4, SeqEqual
<1> QED BY <1>3, <1>5

LEMMA LedNotFirst ==
  ASSUME NEW S, NEW s \in Seq(S), s # <<>>, NEW x, NEW y, Leads(s, y, x)
  PROVE  Head(s) # x
<1>1. 1 \in DOMAIN s /\ Head(s) = s[1] /\ \A j \in DOMAIN s : j \in Nat /\ j >= 1
  BY TailRemoves
<1> QED BY <1>1 DEF Leads

LEMMA Trivially ==
  /\ \A e : ~Has(<<>>, e)
  /\ \A s, x, y : ~Has(s, x) => Leads(s, y, x) /\ Never(s, x, y) /\ Never(s, y, x)
  /\ \A e, f : Has(<<e>>, f) <=> e = f
  /\ \A e, x, y : Never(<<e>>, x, y)
<1>1. \A e : ~Has(<<>>, e) BY DEF Has
<1>2. \A s, x, y : ~Has(s, x) => Leads(s, y, x) /\ Never(s, x, y) /\ Never(s, y, x)
  BY DEF Has, Leads, Never
<1>3. \A e : DOMAIN <<e>> = {1} /\ <<e>>[1] = e OBVIOUS
<1>4. \A e, f : Has(<<e>>, f) <=> e = f BY <1>3 DEF Has
<1>5. \A e, x, y : Never(<<e>>, x, y) BY <1>3 DEF Never
<1> QED BY <1>1, <1>2, <1>4, <1>5

(* Messages as they go to the client. *)
LEMMA MessagedSame ==
  ASSUME NEW ms \in Seq(Messages), NEW x, NEW y
  PROVE  /\ Messaged(ms) \in Seq([kind : {"message", "receipt"}, m : Messages])
         /\ Has(Messaged(ms), Message(x)) <=> Has(ms, x)
         /\ ~Has(Messaged(ms), Receipt(x))
         /\ Leads(Messaged(ms), Message(y), Message(x)) <=> Leads(ms, y, x)
         /\ Never(Messaged(ms), Message(x), Message(y)) <=> Never(ms, x, y)
<1> DEFINE s == Messaged(ms)
<1>1. DOMAIN s = DOMAIN ms /\ \A i \in DOMAIN ms : s[i] = Message(ms[i])
  BY DEF Messaged
<1>2. \A i \in DOMAIN ms : ms[i] \in Messages OBVIOUS
<1>3. \A v, w : /\ Message(v) = Message(w) <=> v = w
                /\ Message(v) # Receipt(w)
  BY DEF Message, Receipt
<1>4. \A v \in Messages : Message(v) \in [kind : {"message", "receipt"}, m : Messages]
  BY DEF Message
<1>5. s \in Seq([kind : {"message", "receipt"}, m : Messages])
  <2>1. DOMAIN s = 1..Len(ms) /\ Len(ms) \in Nat BY <1>1
  <2>2. \A i \in 1..Len(ms) : s[i] \in [kind : {"message", "receipt"}, m : Messages]
    BY <1>1, <1>2, <1>4, <2>1
  <2>3. s = [i \in 1..Len(ms) |-> s[i]] BY <2>1 DEF Messaged
  <2> HIDE DEF s
  <2> QED BY <2>1, <2>2, <2>3
<1> HIDE DEF s
<1>6. Has(s, Message(x)) <=> Has(ms, x) BY <1>1, <1>3 DEF Has
<1>7. ~Has(s, Receipt(x)) BY <1>1, <1>3 DEF Has
<1>8. Leads(s, Message(y), Message(x)) <=> Leads(ms, y, x)
  BY <1>1, <1>3 DEF Leads
<1>9. Never(s, Message(x), Message(y)) <=> Never(ms, x, y)
  BY <1>1, <1>3 DEF Never
<1> QED BY <1>5, <1>6, <1>7, <1>8, <1>9 DEF s
----------------------------------------------------------------------------
(* Of states and steps. *)

(* Nothing under way, nothing out of order. *)
LEMMA SilentIsFine == Silent => Traffic
<1> SUFFICES ASSUME Silent PROVE Traffic OBVIOUS
<1>1. /\ sent = <<>> /\ outbox = <<>> /\ inbound = <<>> /\ unacked = <<>>
      /\ handed = <<>> /\ handling = {} /\ taken = {}
      /\ \A t \in Topics : stored[t] = {}
  BY DEF Silent
<1>2. /\ \A m : ~Took(m) /\ ~First(m) /\ ~Handed(m) /\ ~Flagged(m) /\ ~Unsent(m)
      /\ \A m : ~Coming(m) /\ ~Confirmed(m) /\ ~Has(unacked, m) /\ ~Has(sent, m)
      /\ \A x, y : ~Before(x, y)
  BY <1>1 DEF Took, First, Handed, Flagged, Unsent, Coming, Confirmed, Has,
              Before
<1>3. OutboxInOrder BY <1>1, <1>2 DEF OutboxInOrder
<1>4. FromBroker BY <1>1, <1>2 DEF FromBroker
<1>5. InOrder
  <2>1. \A x, y : Never(handed, x, y) /\ Never(inbound, x, y)
    BY <1>1 DEF Never
  <2> QED BY <1>1, <1>2, <2>1 DEF InOrder
<1>6. CleanInOrder BY <1>1, <1>2 DEF CleanInOrder
<1>7. LastingInOrder BY <1>1, <1>2 DEF LastingInOrder
<1>8. HandedInOrder BY <1>1 DEF HandedInOrder
<1> QED BY <1>3, <1>4, <1>5, <1>6, <1>7, <1>8 DEF Traffic

(* What a step leaves as it is when it changes the status of the client at  *)
(* most. *)
SameClient == /\ setup' = setup /\ own' = own
              /\ (Active' <=> Active) /\ (Assured' <=> Assured)
              /\ (Lasting' <=> Lasting) /\ (Retaining' <=> Retaining)

LEMMA StartUnmoved ==
  UNCHANGED <<setup, own, conns>> => SameClient /\ Status' = Status
BY DEF SameClient, Active, Status, Assured, Lasting,
       Retaining, Set

LEMMA StatusMoved ==
  ASSUME StartInv, MqttTyped, OneClient, Active, NEW st, Library(own, st),
         UNCHANGED <<before, own>>
  PROVE  /\ SameClient /\ Status' = st
         /\ DOMAIN conns'[own] = DOMAIN conns[own] /\ Len(conns') = Len(conns)
<1>1. /\ own \in 0..Len(conns) /\ own = 1 /\ own = Len(conns)
      /\ DOMAIN conns[own] = {"status", "options", "from"}
  BY DEF MqttTyped, TrafficTyped, StartTypeOK, OneClient, Active
<1>2. own \in DOMAIN conns /\ conns' = [conns EXCEPT ![own].status = st]
  BY <1>1 DEF Library
<1>3. /\ conns'[own] = [conns[own] EXCEPT !.status = st]
      /\ DOMAIN conns' = DOMAIN conns /\ own' = own /\ setup' = setup
  BY <1>2 DEF before
<1>4. /\ conns'[own].status = st /\ conns'[own].options = conns[own].options
      /\ DOMAIN conns'[own] = DOMAIN conns[own]
  BY <1>1, <1>3
<1>5. SameClient /\ Status' = st
  BY <1>3, <1>4 DEF SameClient, Active, Status, Assured, Lasting, Retaining, Set
<1>6. Len(conns') = Len(conns)
  BY <1>2, StatusKeepsOrder DEF StartInv, Library
<1> QED BY <1>4, <1>5, <1>6

LEMMA SameParts ==
  /\ UNCHANGED sent => \A x, y : Before(x, y)' <=> Before(x, y)
  /\ UNCHANGED taken =>
       \A m : (Took(m)' <=> Took(m)) /\ (First(m)' <=> First(m))
  /\ UNCHANGED handed => \A m : Handed(m)' <=> Handed(m)
  /\ UNCHANGED outbox =>
       \A m : (Flagged(m)' <=> Flagged(m)) /\ (Unsent(m)' <=> Unsent(m))
  /\ UNCHANGED inbound =>
       \A m : (Coming(m)' <=> Coming(m)) /\ (Confirmed(m)' <=> Confirmed(m))
<1>1. UNCHANGED sent => \A x, y : Before(x, y)' <=> Before(x, y)
  BY DEF Before
<1>2. UNCHANGED taken =>
        \A m : (Took(m)' <=> Took(m)) /\ (First(m)' <=> First(m))
  BY DEF Took, First
<1>3. UNCHANGED handed => \A m : Handed(m)' <=> Handed(m)
  BY DEF Handed
<1>4. UNCHANGED outbox =>
        \A m : (Flagged(m)' <=> Flagged(m)) /\ (Unsent(m)' <=> Unsent(m))
  BY DEF Flagged, Unsent
<1>5. UNCHANGED inbound =>
        \A m : (Coming(m)' <=> Coming(m)) /\ (Confirmed(m)' <=> Confirmed(m))
  BY DEF Coming, Confirmed
<1> QED BY <1>1, <1>2, <1>3, <1>4, <1>5

LEMMA HandedKept ==
  ASSUME HandedInOrder, SameClient, UNCHANGED handed, taken \subseteq taken',
         \A x, y : Handed(x) /\ Before(y, x)' => Before(y, x)
  PROVE  HandedInOrder'
<1>1. \A x : \A i \in DOMAIN handed : handed[i] = x => Handed(x) BY DEF Handed, Has
<1> QED BY <1>1 DEF HandedInOrder, SameClient

LEMMA TrafficUnmoved ==
  ASSUME Traffic, SameClient, Status' = Status,
         UNCHANGED <<sent, outbox, inbound, unacked, handed, handling, taken,
                     stored, losses>>
  PROVE  Traffic'
<1>1. OutboxInOrder' BY SameParts DEF Traffic, OutboxInOrder, SameClient
<1>2. FromBroker' BY SameParts DEF Traffic, FromBroker, SameClient
<1>3. InOrder' BY SameParts DEF Traffic, InOrder, Ordered, SameClient
<1>4. CleanInOrder' BY SameParts DEF Traffic, CleanInOrder, SameClient
<1>5. LastingInOrder' BY SameParts DEF Traffic, LastingInOrder, SameClient
<1>6. HandedInOrder' BY SameParts, HandedKept DEF Traffic
<1> QED BY <1>1, <1>2, <1>3, <1>4, <1>5, <1>6 DEF Traffic

LEMMA OfBefore ==
  ASSUME MqttTyped, PublishedOnce
  PROVE  /\ \A x, y : Before(x, y) => Has(sent, x) /\ Has(sent, y)
         /\ \A x, y : Before(x, y) => ~Before(y, x) /\ x # y
<1>1. \A i \in DOMAIN sent : i \in Nat BY DEF MqttTyped, TrafficTyped
<1>2. \A x, y : Before(x, y) => Has(sent, x) /\ Has(sent, y)
  BY DEF Before, Has
<1>3. ASSUME NEW x, NEW y, Before(x, y), Before(y, x) \/ x = y PROVE FALSE
  <2>1. PICK i, j \in DOMAIN sent : i < j /\ sent[i] = x /\ sent[j] = y
    BY <1>3 DEF Before
  <2>2. PICK k, l \in DOMAIN sent :
          (k < l \/ k = l) /\ sent[k] = y /\ sent[l] = x
    BY <1>3, <2>1 DEF Before
  <2>3. i = l /\ j = k BY <2>1, <2>2 DEF PublishedOnce
  <2> QED BY <1>1, <2>1, <2>2, <2>3
<1> QED BY <1>2, <1>3

(* The retained messages are one per topic at most. *)
LEMMA OfRetained ==
  ASSUME MqttTyped
  PROVE  /\ Retained \in Seq(Messages)
         /\ \A m : Has(Retained, m) => m \in Messages /\ m \in stored[TopicOf[m]]
         /\ (\A t \in Topics : stored[t] = {}) => Retained = <<>>
<1> DEFINE all == UNION {stored[t] : t \in Topics}
<1>1. /\ stored \in [Topics -> SUBSET Messages]
      /\ \A t \in Topics : \A x, y \in stored[t] : x = y /\ TopicOf[x] = t
  BY DEF MqttTyped, TrafficTyped
<1>2. IsFiniteSet(all)
  <2> DEFINE parts == {stored[t] : t \in Topics}
  <2>1. IsFiniteSet(parts)
    <3>1. stored \in Surjection(Topics, parts)
      BY <1>1 DEF Surjection
    <3> QED BY <3>1, FS_Surjection, TrafficShape
  <2>2. ASSUME NEW t \in Topics PROVE IsFiniteSet(stored[t])
    <3>1. CASE stored[t] = {} BY <3>1, FS_EmptySet
    <3>2. CASE stored[t] # {}
      <4>1. PICK x \in stored[t] : TRUE BY <3>2
      <4>2. stored[t] = {x} BY <1>1, <4>1
      <4> QED BY <4>2, FS_Singleton
    <3> QED BY <3>1, <3>2
  <2> QED BY <2>1, <2>2, FS_UNION
<1>3. Cardinality(all) \in Nat /\ ExistsBijection(1..Cardinality(all), all)
  BY <1>2, FS_CardinalityType
<1>4. Retained \in [1..Cardinality(all) -> all]
  <2>1. PICK f \in [1..Cardinality(all) -> all] : IsInjective(f)
    BY <1>3 DEF ExistsBijection, Bijection, Injection
  <2> QED BY <2>1 DEF Retained, SetToSeq
<1>5. all \subseteq Messages BY <1>1
<1>6. Retained \in Seq(Messages)
  <2> HIDE DEF all
  <2>1. Retained \in [1..Cardinality(all) -> Messages] BY <1>4, <1>5
  <2> QED BY <1>3, <2>1, FunctionsAreSeqs
<1>7. ASSUME NEW m, Has(Retained, m)
      PROVE  m \in Messages /\ m \in stored[TopicOf[m]]
  <2>1. m \in all BY <1>4, <1>7 DEF Has
  <2> QED BY <1>1, <1>5, <2>1
<1>8. ASSUME \A t \in Topics : stored[t] = {} PROVE Retained = <<>>
  <2>1. all = {} BY <1>8
  <2>2. Cardinality(all) = 0 BY <2>1, FS_EmptySet
  <2> QED BY <1>4, <2>2
<1> QED BY <1>6, <1>7, <1>8
----------------------------------------------------------------------------
(* The steps. *)

(* Subscribe and onConnectHandler: the retained messages come, in a session *)
(* that also keeps them until they are acknowledged.                        *)
LEMMA RetainedComes ==
  ASSUME MqttTyped, Traffic, Status = "up", SameClient, Status' = Status,
         inbound' = inbound \o Messaged(Retained), Forward(Retained),
         UNCHANGED <<sent, outbox, handed, handling, taken, stored, losses>>
  PROVE  Traffic'
<1> DEFINE Parcel == [kind : {"message", "receipt"}, m : Messages]
           more == Messaged(Retained)
<1>a. /\ OutboxInOrder /\ FromBroker /\ InOrder
      /\ CleanInOrder /\ LastingInOrder /\ HandedInOrder
  BY DEF Traffic
<1>b. /\ inbound \in Seq(Parcel) /\ unacked \in Seq(Messages)
      /\ \A t \in Topics : \A x, y \in stored[t] : x = y /\ TopicOf[x] = t
      /\ handed \in Seq(Messages)
      /\ \A m \in Messages : TopicOf[m] \in Topics
  BY MessageShape DEF MqttTyped, TrafficTyped
<1>c. Retained \in Seq(Messages) /\ more \in Seq(Parcel)
  BY OfRetained, MessagedSame
<1>d. \A m : Has(Retained, m) => /\ m \in Messages /\ m \in stored[TopicOf[m]]
                                 /\ Took(m) /\ Retaining
  <2>1. \A m : Has(Retained, m) => m \in Messages /\ m \in stored[TopicOf[m]]
    BY OfRetained
  <2> QED BY <1>a, <1>b, <2>1 DEF FromBroker
<1>e. \A x, y : /\ Has(more, Message(x)) <=> Has(Retained, x)
                /\ ~Has(more, Receipt(x))
                /\ Never(more, Message(x), Message(y)) <=> Never(Retained, x, y)
  BY <1>c, MessagedSame
<1>f. inbound' = inbound \o more OBVIOUS
<1> HIDE DEF more
<1>1. /\ \A m : Coming(m)' <=> Coming(m) \/ Has(Retained, m)
      /\ \A m : Confirmed(m)' <=> Confirmed(m)
  <2>1. \A e : Has(inbound', e) <=> Has(inbound, e) \/ Has(more, e)
    BY <1>b, <1>c, <1>f, ConcatHas
  <2> QED BY <1>e, <2>1 DEF Coming, Confirmed
<1>2. /\ ~Assured => unacked' = unacked
      /\ Assured => unacked' = unacked \o Retained
      /\ \A m : Has(unacked, m) => Has(unacked', m)
      /\ \A m : Has(unacked', m) =>
                  Has(unacked, m) \/ (Assured /\ Has(Retained, m))
  BY <1>b, <1>c, ConcatHas DEF Forward
<1>3. OutboxInOrder'
  BY <1>a, <1>1, SameParts DEF OutboxInOrder, SameClient
<1>4. FromBroker'
  BY <1>a, <1>1, <1>2, <1>d, SameParts DEF FromBroker, SameClient
<1>5. InOrder'
  <2> SUFFICES ASSUME ~Assured \/ losses = 0 PROVE InOrder'
    BY DEF InOrder, SameClient
  <2>1. ASSUME NEW x \in Messages, NEW y \in Messages, Took(x),
               Has(Retained, y), TopicOf[x] = TopicOf[y]
        PROVE  Ordered(x, y)
    <3>1. Retaining /\ y \in stored[TopicOf[x]] BY <1>d, <2>1
    <3>2. PICK z \in stored[TopicOf[x]] : Ordered(x, z)
      BY <1>a, <2>1, <3>1 DEF InOrder
    <3> QED BY <1>b, <3>1, <3>2
  <2>2. ASSUME NEW x \in Messages, NEW y \in Messages,
               TopicOf[x] = TopicOf[y], ~Ordered(x, y)
        PROVE  /\ Never(handed, x, y)
               /\ Never(inbound', Message(x), Message(y))
               /\ Handed(x) => y \notin handling /\ ~Coming(y)'
               /\ x \in handling => ~Coming(y)'
    <3>1. /\ Never(handed, x, y) /\ Never(inbound, Message(x), Message(y))
          /\ Handed(x) => y \notin handling /\ ~Coming(y)
          /\ x \in handling => ~Coming(y)
      BY <1>a, <2>2 DEF InOrder
    <3>2. Took(x) => ~Has(Retained, y) BY <2>1, <2>2
    <3>3. Handed(x) \/ x \in handling \/ Coming(x) => Took(x)
      BY <1>a DEF FromBroker
    <3>4. Never(Retained, x, y)
      BY <1>d, <3>2, Trivially
    <3>5. Never(inbound', Message(x), Message(y))
      <4>1. ~(Coming(x) /\ Has(Retained, y)) BY <3>2, <3>3
      <4>2. ~(Has(inbound, Message(x)) /\ Has(more, Message(y)))
        BY <1>e, <4>1 DEF Coming
      <4>3. Never(more, Message(x), Message(y)) BY <1>e, <3>4
      <4> QED BY <1>b, <1>c, <1>f, <3>1, <4>2, <4>3, ConcatNever
    <3> QED BY <1>1, <3>1, <3>2, <3>3, <3>5
  <2>3. /\ \A x, y : Ordered(x, y)' <=> Ordered(x, y)
        /\ \A x, y : Never(handed, x, y)' <=> Never(handed, x, y)
    BY SameParts DEF Ordered, SameClient
  <2> QED BY <1>a, <2>2, <2>3, SameParts DEF InOrder, SameClient
<1>6. CleanInOrder'
  <2> SUFFICES ASSUME Assured, ~Lasting, ~Retaining PROVE CleanInOrder'
    BY DEF CleanInOrder, SameClient
  <2>1. \A m : (Coming(m)' <=> Coming(m)) /\ ~Has(Retained, m)
    BY <1>1, <1>d
  <2>2. \A e, y, x : Leads(inbound, e, Message(x)) => Leads(inbound', e, Message(x))
    BY <1>b, <1>c, <1>e, <1>f, <2>1, ConcatLeads
  <2> QED BY <1>a, <2>1, <2>2, SameParts DEF CleanInOrder, SameClient
<1>7. LastingInOrder'
  <2> SUFFICES ASSUME Assured, Lasting PROVE LastingInOrder'
    BY DEF LastingInOrder, SameClient
  <2>1. ASSUME NEW y \in Messages, First(y), ~Handed(y)
        PROVE  Has(unacked, y) /\ (y \in handling \/ Coming(y))
    BY <1>a, <2>1 DEF LastingInOrder
  <2>2. ASSUME NEW x \in Messages, NEW y \in Messages,
               Before(y, x), First(y), ~Handed(y)
        PROVE  /\ x \notin handling /\ ~Handed(x)
               /\ Leads(unacked', y, x)
               /\ y \in handling \/ Leads(inbound', Message(y), Message(x))
    <3>1. /\ x \notin handling /\ ~Handed(x) /\ Leads(unacked, y, x)
          /\ y \in handling \/ Leads(inbound, Message(y), Message(x))
      BY <1>a, <2>2 DEF LastingInOrder
    <3>2. Leads(unacked', y, x)
      <4>1. Leads(unacked \o Retained, y, x)
        BY <1>b, <1>c, <2>1, <2>2, <3>1, ConcatLeads
      <4> QED BY <1>2, <4>1
    <3>3. y \notin handling => Leads(inbound', Message(y), Message(x))
      <4> SUFFICES ASSUME y \notin handling
                   PROVE  Leads(inbound', Message(y), Message(x))
        OBVIOUS
      <4>1. Has(inbound, Message(y)) BY <2>1, <2>2 DEF Coming
      <4> QED BY <1>b, <1>c, <1>f, <3>1, <4>1, ConcatLeads
    <3> QED BY <3>1, <3>2, <3>3
  <2> QED BY <1>1, <1>2, <2>1, <2>2, SameParts DEF LastingInOrder, SameClient
<1>8. HandedInOrder'
  BY <1>a, SameParts, HandedKept
<1> QED BY <1>3, <1>4, <1>5, <1>6, <1>7, <1>8 DEF Traffic

(* Publish*, by the application or by a reader: a message that was not      *)
(* published before is the last one now.                                    *)
LEMMA Published ==
  ASSUME MqttTyped, PublishedOnce, Traffic, SameClient, Status' = Status,
         NEW m \in Messages, ~Has(sent, m),
         outbox' = Append(outbox, [m |-> m, sent |-> FALSE]),
         sent' = Append(sent, m),
         UNCHANGED <<inbound, unacked, handed, handling, taken, stored, losses>>
  PROVE  Traffic'
<1> DEFINE Entry == [m : Messages, sent : BOOLEAN]
           last  == [m |-> m, sent |-> FALSE]
<1>a. /\ OutboxInOrder /\ FromBroker /\ InOrder
      /\ CleanInOrder /\ LastingInOrder /\ HandedInOrder
  BY DEF Traffic
<1>b. /\ outbox \in Seq(Entry) /\ sent \in Seq(Messages) /\ last \in Entry
      /\ handed \in Seq(Messages)
  BY DEF MqttTyped, TrafficTyped
<1>c. /\ \A x, y : Before(x, y) => Has(sent, x) /\ Has(sent, y)
      /\ \A x, y : Before(x, y) => ~Before(y, x) /\ x # y
  BY OfBefore
<1>d. /\ ~Took(m) /\ ~First(m) /\ ~Handed(m) /\ m \notin handling /\ ~Coming(m)
      /\ ~Confirmed(m) /\ ~Has(unacked, m) /\ ~Flagged(m)
      /\ \A t \in Topics : m \notin stored[t]
  BY <1>a DEF OutboxInOrder, FromBroker, Took
<1>1. /\ DOMAIN sent' = 1..(Len(sent) + 1) /\ DOMAIN sent = 1..Len(sent)
      /\ Len(sent) \in Nat /\ sent'[Len(sent) + 1] = m
      /\ \A i \in 1..Len(sent) : sent'[i] = sent[i]
  BY <1>b
<1>2. /\ DOMAIN outbox' = 1..(Len(outbox) + 1) /\ DOMAIN outbox = 1..Len(outbox)
      /\ Len(outbox) \in Nat /\ outbox'[Len(outbox) + 1] = last
      /\ \A i \in 1..Len(outbox) : outbox'[i] = outbox[i]
  <2> HIDE DEF Entry, last
  <2> QED BY <1>b DEF last
<1>3. \A x : Has(sent', x) <=> Has(sent, x) \/ x = m
  BY <1>1 DEF Has
<1>4. \A x, y : Before(x, y)' <=> Before(x, y) \/ (Has(sent, x) /\ y = m)
  <2>1. ASSUME NEW x, NEW y, Before(x, y)' PROVE Before(x, y) \/ (Has(sent, x) /\ y = m)
    <3>1. PICK i, j \in DOMAIN sent' : i < j /\ sent'[i] = x /\ sent'[j] = y
      BY <2>1 DEF Before
    <3>2. CASE j \in 1..Len(sent) BY <1>1, <3>1, <3>2 DEF Before
    <3>3. CASE j = Len(sent) + 1
      BY <1>1, <3>1, <3>3 DEF Has
    <3> QED BY <1>1, <3>1, <3>2, <3>3
  <2>2. ASSUME NEW x, NEW y, Before(x, y) PROVE Before(x, y)'
    BY <1>1, <2>2 DEF Before
  <2>3. ASSUME NEW x, Has(sent, x) PROVE Before(x, m)'
    BY <1>1, <2>3 DEF Before, Has
  <2> QED BY <2>1, <2>2, <2>3
<1>5. /\ \A x : Flagged(x)' <=> Flagged(x)
      /\ \A x : Unsent(x)' <=> Unsent(x) \/ x = m
  <2>1. last.m = m /\ last.sent = FALSE OBVIOUS
  <2> HIDE DEF last
  <2> QED BY <1>2, <2>1 DEF Flagged, Unsent
<1>6. OutboxInOrder'
  <2>1. \A x, y \in Messages : \A i, j \in DOMAIN outbox' :
          i < j /\ outbox'[i].m = x /\ outbox'[j].m = y => Before(x, y)'
    <3> SUFFICES ASSUME NEW x \in Messages, NEW y \in Messages,
                        NEW i \in DOMAIN outbox', NEW j \in DOMAIN outbox',
                        i < j, outbox'[i].m = x, outbox'[j].m = y
                 PROVE  Before(x, y)'
      OBVIOUS
    <3>1. i \in 1..Len(outbox) /\ outbox'[i] = outbox[i] BY <1>2
    <3>2. Has(sent, x) BY <1>a, <1>2, <3>1 DEF OutboxInOrder
    <3>3. CASE j \in 1..Len(outbox)
      BY <1>a, <1>2, <1>4, <3>1, <3>3 DEF OutboxInOrder
    <3>4. CASE j = Len(outbox) + 1
      BY <1>2, <1>4, <3>1, <3>2, <3>4
    <3> QED BY <1>2, <3>3, <3>4
  <2>2. \A i \in DOMAIN outbox' : Has(sent', outbox'[i].m)
    BY <1>a, <1>2, <1>3 DEF OutboxInOrder
  <2>3. \A x \in Messages : Flagged(x)' =>
          /\ Took(x)' /\ Assured'
          /\ Status' = "down" \/ Confirmed(x)'
    BY <1>a, <1>5, SameParts DEF OutboxInOrder, SameClient
  <2>4. \A x \in Messages : Took(x)' => Has(sent', x)
    BY <1>a, <1>3, SameParts DEF OutboxInOrder
  <2>5. Assured' =>
          /\ \A x \in Messages : Has(sent', x) => Took(x)' \/ Flagged(x)' \/ Unsent(x)'
          /\ \A x, y \in Messages : Took(x)' /\ Before(y, x)' => Took(y)'
    BY <1>a, <1>d, <1>3, <1>4, <1>5, SameParts DEF OutboxInOrder, SameClient
  <2> QED BY <2>1, <2>2, <2>3, <2>4, <2>5 DEF OutboxInOrder
<1>7. FromBroker'
  BY <1>a, SameParts DEF FromBroker, SameClient
<1>8. InOrder'
  <2>1. \A x, y : Ordered(x, y) => Ordered(x, y)'
    BY <1>4 DEF Ordered, SameClient
  <2>2. \A x \in Messages : Took(x) => Has(sent, x) BY <1>a DEF OutboxInOrder
  <2>3. ~Assured \/ losses = 0 =>
          \A x, y \in Messages : Took(x) /\ Unsent(y)' => Before(x, y)'
    BY <1>a, <1>4, <1>5, <2>2 DEF InOrder
  <2> QED BY <1>a, <2>1, <2>3, SameParts DEF InOrder, SameClient
<1>9. CleanInOrder'
  <2> SUFFICES ASSUME Assured, ~Lasting, ~Retaining PROVE CleanInOrder'
    BY DEF CleanInOrder, SameClient
  <2>1. \A y : Leads(inbound, Message(y), Message(m))
    BY <1>d, Trivially DEF Coming
  <2> SUFFICES ASSUME NEW x \in Messages, NEW y \in Messages, Before(y, x)'
        PROVE /\ Handed(x) \/ x \in handling =>
                   \/ Handed(y)
                   \/ /\ ~Flagged(y)' /\ ~Unsent(y)'
                      /\ ~Coming(y) /\ y \notin handling
              /\ \/ Handed(y) \/ y \in handling
                 \/ Leads(inbound, Message(y), Message(x))
                 \/ /\ ~Coming(y)
                    /\ \/ ~Flagged(y)' /\ ~Unsent(y)'
                       \/ Leads(inbound, Receipt(y), Message(x))
              /\ Coming(x) => ~Unsent(y)'
    BY SameParts DEF CleanInOrder, SameClient
  <2>2. CASE x = m BY <1>d, <2>1, <2>2
  <2>3. CASE x # m
    <3>1. Before(y, x) /\ y # m BY <1>4, <1>c, <2>3
    <3> QED BY <1>a, <1>5, <3>1 DEF CleanInOrder
  <2> QED BY <2>2, <2>3
<1>10. LastingInOrder'
  <2> SUFFICES ASSUME Assured, Lasting PROVE LastingInOrder'
    BY DEF LastingInOrder, SameClient
  <2>1. \A y : Leads(inbound, Message(y), Message(m)) /\ Leads(unacked, y, m)
    BY <1>d, Trivially DEF Coming
  <2>2. \A x, y \in Messages : Before(y, x)' /\ First(y) /\ ~Handed(y) =>
         /\ x \notin handling /\ ~Handed(x)
         /\ Leads(unacked, y, x)
         /\ y \in handling \/ Leads(inbound, Message(y), Message(x))
    BY <1>a, <1>d, <1>4, <2>1 DEF LastingInOrder
  <2> QED BY <1>a, <2>2, SameParts DEF LastingInOrder, SameClient
<1>11. HandedInOrder'
  <2>1. \A x, y : Handed(x) /\ Before(y, x)' => Before(y, x)
    BY <1>4, <1>d
  <2> QED BY <1>a, <2>1, HandedKept
<1> QED BY <1>6, <1>7, <1>8, <1>9, <1>10, <1>11 DEF Traffic

(* The broker takes the first message that is to be sent. *)
LEMMA OfTake ==
  ASSUME MqttTyped, PublishedOnce, Traffic, Status = "up",
         SameClient, Status' = Status,
         NEW i \in DOMAIN outbox, ~outbox[i].sent,
         \A j \in 1..(i - 1) : outbox[j].sent,
         NEW m, m = outbox[i].m,
         IF Assured THEN outbox' = Marked(i) ELSE outbox' = RemoveAt(outbox, i),
         UNCHANGED sent
  PROVE  /\ m \in Messages /\ Unsent(m) /\ Has(sent, m)
         /\ \A y : Before(y, m) => ~Unsent(y)
         /\ \A y : Unsent(y)' <=> Unsent(y) /\ y # m
         /\ \A y : Unsent(y)' => Before(m, y)
         /\ \A y : Flagged(y)' <=> Assured /\ (Flagged(y) \/ y = m)
         /\ \A x, y \in Messages : \A k, l \in DOMAIN outbox' :
              k < l /\ outbox'[k].m = x /\ outbox'[l].m = y => Before(x, y)
         /\ \A k \in DOMAIN outbox' : Has(sent, outbox'[k].m)
<1> DEFINE Entry == [m : Messages, sent : BOOLEAN]
<1>a. /\ outbox \in Seq(Entry) /\ DOMAIN outbox = 1..Len(outbox)
      /\ Len(outbox) \in Nat /\ i \in 1..Len(outbox)
      /\ \A k \in DOMAIN outbox : outbox[k] \in Entry
  <2>1. outbox \in Seq(Entry) BY DEF MqttTyped, TrafficTyped
  <2> HIDE DEF Entry
  <2> QED BY <2>1
<1>b. /\ \A x, y : Before(x, y) => ~Before(y, x) /\ x # y
      /\ \A x, y \in Messages : \A k, l \in DOMAIN outbox :
           k < l /\ outbox[k].m = x /\ outbox[l].m = y => Before(x, y)
      /\ \A k \in DOMAIN outbox : Has(sent, outbox[k].m)
      /\ \A x \in Messages : Flagged(x) => Assured
  BY OfBefore DEF Traffic, OutboxInOrder
<1>c. \A k \in DOMAIN outbox : outbox[k].m \in Messages /\ outbox[k].sent \in BOOLEAN
  BY <1>a
<1> HIDE DEF Entry
<1>1. m \in Messages /\ Unsent(m) /\ Has(sent, m)
  BY <1>b, <1>c DEF Unsent
<1>2. /\ \A k \in DOMAIN outbox : k < i => outbox[k].sent
      /\ \A k \in DOMAIN outbox : k > i => Before(m, outbox[k].m)
      /\ \A k \in DOMAIN outbox : k # i => outbox[k].m # m
  <2>1. ASSUME NEW k \in DOMAIN outbox, k < i
        PROVE  outbox[k].sent /\ Before(outbox[k].m, m)
    BY <1>a, <1>b, <1>c, <2>1
  <2>2. ASSUME NEW k \in DOMAIN outbox, k > i PROVE Before(m, outbox[k].m)
    BY <1>a, <1>b, <1>c, <2>2
  <2>3. \A k \in DOMAIN outbox : k < i \/ k > i \/ k = i BY <1>a
  <2> QED BY <1>b, <2>1, <2>2, <2>3
<1>3. ASSUME NEW y, Unsent(y) PROVE y = m \/ Before(m, y)
  <2>1. PICK k \in DOMAIN outbox : outbox[k].m = y /\ ~outbox[k].sent
    BY <1>3 DEF Unsent
  <2>2. k >= i BY <1>a, <1>2, <2>1
  <2>3. k = i \/ k > i BY <1>a, <2>2
  <2> QED BY <1>2, <2>1, <2>3
<1>4. \A y : Before(y, m) => ~Unsent(y)
  BY <1>b, <1>3
<1>5. CASE Assured
  <2>1. /\ DOMAIN outbox' = DOMAIN outbox
        /\ \A k \in DOMAIN outbox : outbox'[k].m = outbox[k].m
        /\ outbox'[i].sent
        /\ \A k \in DOMAIN outbox : k # i => outbox'[k].sent = outbox[k].sent
    <3>1. outbox' = [outbox EXCEPT ![i].sent = TRUE] BY <1>5 DEF Marked
    <3>2. "sent" \in DOMAIN outbox[i] BY <1>a DEF Entry
    <3> QED BY <3>1, <3>2
  <2>2. \A y : Unsent(y)' <=> Unsent(y) /\ y # m
    BY <1>2, <2>1 DEF Unsent
  <2>3. \A y : Flagged(y)' <=> Flagged(y) \/ y = m
    BY <1>2, <2>1 DEF Flagged
  <2> QED BY <1>1, <1>3, <1>4, <1>5, <1>b, <2>1, <2>2, <2>3
<1>6. CASE ~Assured
  <2> DEFINE r == RemoveAt(outbox, i)
  <2>0. outbox' = r BY <1>6
  <2>1. /\ \A k \in DOMAIN r : k \in Nat
        /\ \A k \in DOMAIN r :
             /\ k < i => k \in DOMAIN outbox /\ r[k] = outbox[k]
             /\ k >= i => k + 1 \in DOMAIN outbox /\ r[k] = outbox[k + 1]
        /\ \A k \in DOMAIN outbox :
             /\ k < i => k \in DOMAIN r /\ r[k] = outbox[k]
             /\ k > i => k - 1 \in DOMAIN r /\ r[k - 1] = outbox[k]
    <3>1. i \in DOMAIN outbox /\ outbox \in Seq(Entry) BY <1>a
    <3>2. DOMAIN r = 1..(Len(outbox) - 1) BY <3>1, Removal
    <3>3. \A k \in DOMAIN r :
            /\ k < i => k \in DOMAIN outbox /\ r[k] = outbox[k]
            /\ k >= i => k + 1 \in DOMAIN outbox /\ r[k] = outbox[k + 1]
      BY <3>1, Removal
    <3>4. \A k \in DOMAIN outbox :
            /\ k < i => k \in DOMAIN r /\ r[k] = outbox[k]
            /\ k > i => k - 1 \in DOMAIN r /\ r[k - 1] = outbox[k]
      BY <3>1, Removal
    <3> HIDE DEF r
    <3> QED BY <1>a, <3>2, <3>3, <3>4
  <2> HIDE DEF r
  <2>2. \A y : ~Flagged(y)
    BY <1>6, <1>b, <1>c DEF Flagged
  <2>3. \A k \in DOMAIN r : \E l \in DOMAIN outbox :
          r[k] = outbox[l] /\ l # i /\ (k < i => l = k) /\ (k >= i => l = k + 1)
    <3> SUFFICES ASSUME NEW k \in DOMAIN r
                 PROVE  \E l \in DOMAIN outbox :
                   r[k] = outbox[l] /\ l # i /\ (k < i => l = k)
                   /\ (k >= i => l = k + 1)
      OBVIOUS
    <3>1. CASE k < i
      <4>1. ~(k >= i) /\ k # i BY <1>a, <2>1, <3>1
      <4> QED BY <2>1, <3>1, <4>1
    <3>2. CASE k >= i
      <4>1. ~(k < i) /\ k + 1 # i BY <1>a, <2>1, <3>2
      <4> QED BY <2>1, <3>2, <4>1
    <3> QED BY <1>a, <2>1, <3>1, <3>2
  <2>4. \A l \in DOMAIN outbox : l # i => \E k \in DOMAIN r : r[k] = outbox[l]
    <3>1. \A l \in DOMAIN outbox : l # i => l < i \/ l > i BY <1>a
    <3> QED BY <2>1, <3>1
  <2>5. \A y : Unsent(y)' <=> Unsent(y) /\ y # m
    BY <1>2, <2>0, <2>3, <2>4 DEF Unsent
  <2>6. \A y : ~Flagged(y)'
    BY <2>0, <2>2, <2>3 DEF Flagged
  <2>7. ASSUME NEW x \in Messages, NEW y \in Messages,
               NEW k \in DOMAIN r, NEW l \in DOMAIN r,
               k < l, r[k].m = x, r[l].m = y
        PROVE  Before(x, y)
    <3>1. PICK p \in DOMAIN outbox :
            r[k] = outbox[p] /\ (k < i => p = k) /\ (k >= i => p = k + 1)
      BY <2>3
    <3>2. PICK q \in DOMAIN outbox :
            r[l] = outbox[q] /\ (l < i => q = l) /\ (l >= i => q = l + 1)
      BY <2>3
    <3>3. p < q BY <1>a, <2>1, <2>7, <3>1, <3>2
    <3> QED BY <1>b, <2>7, <3>1, <3>2, <3>3
  <2>8. \A k \in DOMAIN r : Has(sent, r[k].m) BY <1>b, <2>3
  <2> QED BY <1>1, <1>3, <1>4, <1>6, <2>0, <2>5, <2>6, <2>7, <2>8
<1> QED BY <1>5, <1>6

(* What the broker sends when it takes m: the message, if the session has   *)
(* the topics, and the receipt, if it is assured.                           *)
LEMMA OfSending ==
  ASSUME MqttTyped, NEW m \in Messages, NEW copy,
         copy = IF served THEN <<m>> ELSE <<>>,
         IF Assured
         THEN inbound' \in {inbound \o Messaged(copy) \o <<Receipt(m)>>,
                            inbound \o <<Receipt(m)>> \o Messaged(copy)}
         ELSE inbound' = inbound \o Messaged(copy)
  PROVE  \E new \in Seq([kind : {"message", "receipt"}, m : Messages]) :
           /\ inbound' = inbound \o new
           /\ \A x : Has(new, Message(x)) <=> served /\ x = m
           /\ \A x : Has(new, Receipt(x)) <=> Assured /\ x = m
           /\ \A x, y : Never(new, Message(x), Message(y))
<1> DEFINE Parcel == [kind : {"message", "receipt"}, m : Messages]
           ms == Messaged(copy)
           rs == <<Receipt(m)>>
<1>1. /\ copy \in Seq(Messages) /\ \A x : Has(copy, x) <=> served /\ x = m
      /\ \A x, y : Never(copy, x, y)
  <2>1. CASE served
    <3>1. copy = <<m>> BY <2>1
    <3> QED BY <2>1, <3>1, Trivially
  <2>2. CASE ~served
    <3>1. copy = <<>> BY <2>2
    <3> QED BY <2>2, <3>1, Trivially
  <2> QED BY <2>1, <2>2
<1>2. /\ ms \in Seq(Parcel) /\ \A x : ~Has(ms, Receipt(x))
      /\ \A x : Has(ms, Message(x)) <=> served /\ x = m
      /\ \A x, y : Never(ms, Message(x), Message(y))
  BY <1>1, MessagedSame
<1>3. \A x, y : /\ Receipt(x) # Message(y)
                /\ Receipt(x) = Receipt(y) <=> x = y
  BY DEF Receipt, Message
<1>4. rs \in Seq(Parcel)
  <2>1. Receipt(m) \in Parcel BY DEF Receipt
  <2> HIDE DEF Parcel
  <2> QED BY <2>1
<1>5. /\ \A x : ~Has(rs, Message(x))
      /\ \A x : Has(rs, Receipt(x)) <=> x = m
      /\ \A x, y : Never(rs, Message(x), Message(y))
  BY <1>3, Trivially
<1>6. inbound \in Seq(Parcel) BY DEF MqttTyped, TrafficTyped
<1>7. \/ Assured /\ inbound' = (inbound \o ms) \o rs
      \/ Assured /\ inbound' = (inbound \o rs) \o ms
      \/ ~Assured /\ inbound' = inbound \o ms
  OBVIOUS
<1> HIDE DEF ms, rs, Parcel
<1>8. CASE Assured /\ inbound' = (inbound \o ms) \o rs
  <2>1. inbound' = inbound \o (ms \o rs)
    BY <1>2, <1>4, <1>6, <1>8, ConcatAssociative
  <2>2. ms \o rs \in Seq(Parcel) BY <1>2, <1>4, Concat
  <2>3. \A e : Has(ms \o rs, e) <=> Has(ms, e) \/ Has(rs, e)
    BY <1>2, <1>4, ConcatHas
  <2>4. \A x, y : Never(ms \o rs, Message(x), Message(y))
    BY <1>2, <1>4, <1>5, ConcatNever
  <2> QED BY <1>2, <1>5, <1>8, <2>1, <2>2, <2>3, <2>4 DEF Parcel
<1>9. CASE Assured /\ inbound' = (inbound \o rs) \o ms
  <2>1. inbound' = inbound \o (rs \o ms)
    BY <1>2, <1>4, <1>6, <1>9, ConcatAssociative
  <2>2. rs \o ms \in Seq(Parcel) BY <1>2, <1>4, Concat
  <2>3. \A e : Has(rs \o ms, e) <=> Has(rs, e) \/ Has(ms, e)
    BY <1>2, <1>4, ConcatHas
  <2>4. \A x, y : Never(rs \o ms, Message(x), Message(y))
    BY <1>2, <1>4, <1>5, ConcatNever
  <2> QED BY <1>2, <1>5, <1>9, <2>1, <2>2, <2>3, <2>4 DEF Parcel
<1>10. CASE ~Assured /\ inbound' = inbound \o ms
  BY <1>2, <1>10 DEF Parcel
<1> QED BY <1>7, <1>8, <1>9, <1>10

LEMMA BrokerTakes ==
  ASSUME MqttTyped, PublishedOnce, Traffic, Status = "up", SameClient,
         Status' = Status, Take
  PROVE  Traffic'
<1> DEFINE Parcel == [kind : {"message", "receipt"}, m : Messages]
<1>a. /\ OutboxInOrder /\ FromBroker /\ InOrder
      /\ CleanInOrder /\ LastingInOrder /\ HandedInOrder
  BY DEF Traffic
<1>b. /\ inbound \in Seq(Parcel) /\ unacked \in Seq(Messages)
      /\ taken \subseteq [m : Messages, served : BOOLEAN] /\ served \in BOOLEAN
      /\ \A t \in Topics : \A x, y \in stored[t] : x = y /\ TopicOf[x] = t
      /\ \A x \in Messages : TopicOf[x] \in Topics
      /\ stored \in [Topics -> SUBSET Messages]
  BY MessageShape DEF MqttTyped, TrafficTyped
<1>c. /\ \A x, y : Before(x, y) => Has(sent, x) /\ Has(sent, y)
      /\ \A x, y : Before(x, y) => ~Before(y, x) /\ x # y
  BY OfBefore
<1>d. UNCHANGED <<sent, handed, handling, losses>>
  BY DEF Take, receiver
<1>0. PICK i \in DOMAIN outbox :
        /\ ~outbox[i].sent /\ \A j \in 1..(i - 1) : outbox[j].sent
        /\ LET m    == outbox[i].m
               copy == IF served THEN <<m>> ELSE <<>>
           IN /\ stored' = IF Set("Retained")
                           THEN [stored EXCEPT ![TopicOf[m]] = {m}] ELSE stored
              /\ Forward(copy)
              /\ IF Assured
                 THEN /\ outbox' = Marked(i)
                      /\ inbound' \in {inbound \o Messaged(copy) \o <<Receipt(m)>>,
                                       inbound \o <<Receipt(m)>> \o Messaged(copy)}
                 ELSE /\ outbox' = RemoveAt(outbox, i)
                      /\ inbound' = inbound \o Messaged(copy)
              /\ taken' = IF \E first \in taken : first.m = m THEN taken
                          ELSE taken \union {[m |-> m, served |-> served]}
  BY DEF Take
<1> DEFINE m == outbox[i].m
           copy == IF served THEN <<m>> ELSE <<>>
<1>1. /\ m \in Messages /\ Unsent(m) /\ Has(sent, m)
      /\ \A y : Before(y, m) => ~Unsent(y)
      /\ \A y : Unsent(y)' <=> Unsent(y) /\ y # m
      /\ \A y : Unsent(y)' => Before(m, y)
      /\ \A y : Flagged(y)' <=> Assured /\ (Flagged(y) \/ y = m)
      /\ \A x, y \in Messages : \A k, l \in DOMAIN outbox' :
           k < l /\ outbox'[k].m = x /\ outbox'[l].m = y => Before(x, y)
      /\ \A k \in DOMAIN outbox' : Has(sent, outbox'[k].m)
  BY <1>0, <1>d, OfTake
<1>2. PICK new \in Seq(Parcel) :
        /\ inbound' = inbound \o new
        /\ \A x : Has(new, Message(x)) <=> served /\ x = m
        /\ \A x : Has(new, Receipt(x)) <=> Assured /\ x = m
        /\ \A x, y : Never(new, Message(x), Message(y))
  BY <1>0, <1>1, OfSending
<1>3. /\ stored' = IF Retaining THEN [stored EXCEPT ![TopicOf[m]] = {m}]
                   ELSE stored
      /\ Forward(copy)
      /\ taken' = IF \E first \in taken : first.m = m THEN taken
                  ELSE taken \union {[m |-> m, served |-> served]}
  BY <1>0 DEF Retaining
<1>4. /\ copy \in Seq(Messages) /\ \A x : Has(copy, x) <=> served /\ x = m
  <2>1. CASE served
    <3>1. copy = <<m>> BY <2>1
    <3> QED BY <1>1, <2>1, <3>1, Trivially
  <2>2. CASE ~served
    <3>1. copy = <<>> BY <2>2
    <3> QED BY <2>2, <3>1, Trivially
  <2> QED BY <2>1, <2>2
<1> HIDE DEF m, copy, Parcel
<1>5. /\ \A x : Coming(x)' <=> Coming(x) \/ (served /\ x = m)
      /\ \A x : Confirmed(x)' <=> Confirmed(x) \/ (Assured /\ x = m)
  <2>1. \A e : Has(inbound', e) <=> Has(inbound, e) \/ Has(new, e)
    BY <1>b, <1>2, ConcatHas
  <2> QED BY <1>2, <2>1 DEF Coming, Confirmed
<1>6. /\ \A e, y : Leads(inbound, e, Message(y)) /\
                     (Has(inbound, e) \/ ~(served /\ y = m))
                   => Leads(inbound', e, Message(y))
  BY <1>b, <1>2, ConcatLeads
<1>7. /\ ~Assured => unacked' = unacked
      /\ Assured => unacked' = unacked \o copy
      /\ \A x : Has(unacked', x) <=> Has(unacked, x) \/ (Assured /\ served /\ x = m)
  <2>1. \A x : Has(unacked \o copy, x) <=> Has(unacked, x) \/ Has(copy, x)
    BY <1>b, <1>4, ConcatHas
  <2> QED BY <1>3, <1>4, <2>1 DEF Forward
<1>8. /\ taken \subseteq taken'
      /\ \A x : Took(x)' <=> Took(x) \/ x = m
      /\ \A x : First(x)' <=> First(x) \/ (x = m /\ served /\ ~Took(m))
  <2>1. (\E first \in taken : first.m = m) <=> Took(m)
    <3>1. ASSUME NEW first \in taken, first.m = m PROVE Took(m)
      <4>1. first = [m |-> m, served |-> first.served] /\ first.served \in BOOLEAN
        BY <1>b, <3>1
      <4> QED BY <4>1 DEF Took, First
    <3>2. [m |-> m, served |-> TRUE].m = m /\ [m |-> m, served |-> FALSE].m = m
      OBVIOUS
    <3> QED BY <3>1, <3>2 DEF Took, First
  <2>2. CASE Took(m)
    <3>1. taken' = taken BY <1>3, <2>1, <2>2
    <3> QED BY <2>2, <3>1, SameParts
  <2>3. CASE ~Took(m)
    <3>1. taken' = taken \union {[m |-> m, served |-> served]}
      BY <1>3, <2>1, <2>3
    <3>2. \A x : First(x)' <=> First(x) \/ (x = m /\ served)
      BY <1>b, <3>1 DEF First
    <3>3. \A x : [m |-> x, served |-> FALSE] \in taken'
                 <=> [m |-> x, served |-> FALSE] \in taken \/ (x = m /\ ~served)
      BY <1>b, <3>1
    <3> QED BY <1>b, <2>3, <3>1, <3>2, <3>3 DEF Took
  <2> QED BY <2>2, <2>3
<1>9. \A x, y : Before(x, y)' <=> Before(x, y)
  BY <1>d, SameParts
(* With qos 1 what was published before m has been taken. *)
<1>10. Assured => \A y \in Messages : Before(y, m) => Took(y)
  BY <1>a, <1>c, <1>1 DEF OutboxInOrder
<1>11. OutboxInOrder'
  <2>1. \A x \in Messages : Flagged(x)' =>
          /\ Took(x)' /\ Assured'
          /\ Status' = "down" \/ Confirmed(x)'
    BY <1>a, <1>1, <1>5, <1>8 DEF OutboxInOrder, SameClient
  <2>2. \A x \in Messages : Took(x)' => Has(sent, x)
    BY <1>a, <1>1, <1>8 DEF OutboxInOrder
  <2>3. Assured =>
          /\ \A x \in Messages : Has(sent, x) => Took(x)' \/ Flagged(x)' \/ Unsent(x)'
          /\ \A x, y \in Messages : Took(x)' /\ Before(y, x) => Took(y)'
    BY <1>a, <1>1, <1>8, <1>10 DEF OutboxInOrder
  <2> QED BY <1>d, <1>1, <1>9, <2>1, <2>2, <2>3 DEF OutboxInOrder, SameClient
<1>12. FromBroker'
  <2>1. \A x \in Messages :
          /\ Handed(x) \/ x \in handling \/ Coming(x)' \/ Confirmed(x)'
               \/ Has(unacked', x) => Took(x)'
          /\ Confirmed(x)' \/ Has(unacked', x) => Assured
    BY <1>a, <1>5, <1>7, <1>8 DEF FromBroker
  <2>2. \A t \in Topics : \A x \in stored'[t] : Took(x)' /\ Retaining
    BY <1>a, <1>b, <1>1, <1>3, <1>8 DEF FromBroker
  <2> QED BY <1>d, <2>1, <2>2, SameParts DEF FromBroker, SameClient
<1>13. InOrder'
  <2> SUFFICES ASSUME ~Assured \/ losses = 0 PROVE InOrder'
    BY <1>d DEF InOrder, SameClient
  <2>0. \A x \in Messages : Took(x) => Before(x, m)
    BY <1>a, <1>1 DEF InOrder
  <2>1. \A x, y \in Messages : Took(x)' /\ Unsent(y)' => Before(x, y)
    BY <1>a, <1>1, <1>8 DEF InOrder
  <2>2. ASSUME Retaining, NEW x \in Messages, Took(x)'
        PROVE  \E z \in stored'[TopicOf[x]] : Ordered(x, z)
    <3>1. stored' = [stored EXCEPT ![TopicOf[m]] = {m}] BY <1>3, <2>2
    <3>2. CASE TopicOf[x] = TopicOf[m]
      <4>1. m \in stored'[TopicOf[x]] BY <1>b, <3>1, <3>2
      <4>2. Ordered(x, m) BY <1>8, <2>0, <2>2 DEF Ordered
      <4> QED BY <4>1, <4>2
    <3>3. CASE TopicOf[x] # TopicOf[m]
      <4>1. stored'[TopicOf[x]] = stored[TopicOf[x]] BY <1>b, <3>1, <3>3
      <4>2. Took(x) BY <1>8, <2>2, <3>3
      <4> QED BY <1>a, <2>2, <4>1, <4>2 DEF InOrder
    <3> QED BY <3>2, <3>3
  <2>3. ASSUME NEW x \in Messages, NEW y \in Messages,
               TopicOf[x] = TopicOf[y], ~Ordered(x, y)
        PROVE  /\ Never(handed, x, y)
               /\ Never(inbound', Message(x), Message(y))
               /\ Handed(x) => y \notin handling /\ ~Coming(y)'
               /\ x \in handling => ~Coming(y)'
    <3>1. /\ Never(handed, x, y) /\ Never(inbound, Message(x), Message(y))
          /\ Handed(x) => y \notin handling /\ ~Coming(y)
          /\ x \in handling => ~Coming(y)
      BY <1>a, <2>3 DEF InOrder
    <3>2. Took(x) => y # m BY <2>0, <2>3 DEF Ordered
    <3>3. Handed(x) \/ x \in handling \/ Coming(x) => Took(x)
      BY <1>a DEF FromBroker
    <3>4. ~(Has(inbound, Message(x)) /\ Has(new, Message(y)))
      BY <1>2, <3>2, <3>3 DEF Coming
    <3>5. Never(inbound', Message(x), Message(y))
      BY <1>b, <1>2, <3>1, <3>4, ConcatNever
    <3> QED BY <1>5, <3>1, <3>2, <3>3, <3>5
  <2>4. /\ \A x, y : Ordered(x, y)' <=> Ordered(x, y)
        /\ \A x, y : Never(handed, x, y)' <=> Never(handed, x, y)
    BY <1>d, <1>9 DEF Ordered, SameClient
  <2>5. \A x : Handed(x)' <=> Handed(x) BY <1>d, SameParts
  <2> QED BY <1>d, <1>9, <2>1, <2>2, <2>3, <2>4, <2>5 DEF InOrder, SameClient
<1>14. CleanInOrder'
  <2> SUFFICES ASSUME Assured, ~Lasting, ~Retaining PROVE CleanInOrder'
    BY DEF CleanInOrder, SameClient
  <2> SUFFICES ASSUME NEW x \in Messages, NEW y \in Messages, Before(y, x)
        PROVE /\ Handed(x) \/ x \in handling =>
                   \/ Handed(y)
                   \/ /\ ~Flagged(y)' /\ ~Unsent(y)'
                      /\ ~Coming(y)' /\ y \notin handling
              /\ \/ Handed(y) \/ y \in handling
                 \/ Leads(inbound', Message(y), Message(x))
                 \/ /\ ~Coming(y)'
                    /\ \/ ~Flagged(y)' /\ ~Unsent(y)'
                       \/ Leads(inbound', Receipt(y), Message(x))
              /\ Coming(x)' => ~Unsent(y)'
    BY <1>d, <1>9, SameParts DEF CleanInOrder, SameClient
  <2>1. /\ Handed(x) \/ x \in handling =>
             \/ Handed(y)
             \/ /\ ~Flagged(y) /\ ~Unsent(y)
                /\ ~Coming(y) /\ y \notin handling
        /\ \/ Handed(y) \/ y \in handling
           \/ Leads(inbound, Message(y), Message(x))
           \/ /\ ~Coming(y)
              /\ \/ ~Flagged(y) /\ ~Unsent(y)
                 \/ Leads(inbound, Receipt(y), Message(x))
        /\ Coming(x) => ~Unsent(y)
    BY <1>a DEF CleanInOrder
  <2>2. x # y BY <1>c
  <2>3. Handed(x) \/ x \in handling =>
          \/ Handed(y)
          \/ ~Flagged(y)' /\ ~Unsent(y)' /\ ~Coming(y)' /\ y \notin handling
    BY <1>1, <1>5, <2>1
  <2>4. Coming(x)' => ~Unsent(y)'
    BY <1>1, <1>5, <2>1
  <2>5. ASSUME ~Handed(y), y \notin handling
        PROVE  \/ Leads(inbound', Message(y), Message(x))
               \/ /\ ~Coming(y)'
                  /\ \/ ~Flagged(y)' /\ ~Unsent(y)'
                     \/ Leads(inbound', Receipt(y), Message(x))
    <3>1. CASE y = m
      <4>1. ~Coming(x)' BY <1>1, <1>5, <2>1, <2>2, <3>1
      <4> QED BY <4>1, Trivially DEF Coming
    <3>2. CASE y # m /\ x # m
      <4>1. \A e : Leads(inbound, e, Message(x)) => Leads(inbound', e, Message(x))
        BY <1>6, <3>2
      <4> QED BY <1>1, <1>5, <2>1, <2>5, <3>2, <4>1
    <3>3. CASE x = m
      <4>1. y # m /\ ~Unsent(y) /\ ~Unsent(y)' BY <1>1, <2>2, <3>3
      <4>2. CASE Coming(y)
        <5>1. Leads(inbound, Message(y), Message(x)) BY <2>1, <2>5, <4>2
        <5> QED BY <1>6, <4>2, <5>1 DEF Coming
      <4>3. CASE ~Coming(y) /\ Flagged(y)
        <5>1. Has(inbound, Receipt(y))
          BY <1>a, <4>3 DEF OutboxInOrder, Confirmed
        <5>2. Leads(inbound, Receipt(y), Message(x))
          <6>1. CASE Leads(inbound, Message(y), Message(x))
            <7>1. ~Has(inbound, Message(x))
              BY <4>3, <6>1 DEF Leads, Has, Coming
            <7> QED BY <7>1, Trivially
          <6> QED BY <2>1, <2>5, <4>3, <6>1
        <5>3. Leads(inbound', Receipt(y), Message(x)) BY <1>6, <5>1, <5>2
        <5> QED BY <1>5, <4>1, <4>3, <5>3
      <4>4. CASE ~Coming(y) /\ ~Flagged(y)
        BY <1>1, <1>5, <4>1, <4>4
      <4> QED BY <4>2, <4>3, <4>4
    <3> QED BY <3>1, <3>2, <3>3
  <2> QED BY <2>3, <2>4, <2>5
<1>15. LastingInOrder'
  <2> SUFFICES ASSUME Assured, Lasting PROVE LastingInOrder'
    BY DEF LastingInOrder, SameClient
  <2>1. \A y \in Messages : First(y) /\ ~Handed(y) =>
          Has(unacked, y) /\ (y \in handling \/ Coming(y))
    BY <1>a DEF LastingInOrder
  <2>2. \A y \in Messages : First(y)' /\ ~Handed(y) =>
          Has(unacked', y) /\ (y \in handling \/ Coming(y)')
    BY <1>5, <1>7, <1>8, <2>1
  <2>3. ASSUME NEW x \in Messages, NEW y \in Messages,
               Before(y, x), First(y)', ~Handed(y)
        PROVE  /\ x \notin handling /\ ~Handed(x)
               /\ Leads(unacked', y, x)
               /\ y \in handling \/ Leads(inbound', Message(y), Message(x))
    <3>1. CASE First(y)
      <4>1. /\ x \notin handling /\ ~Handed(x) /\ Leads(unacked, y, x)
            /\ y \in handling \/ Leads(inbound, Message(y), Message(x))
        BY <1>a, <2>3, <3>1 DEF LastingInOrder
      <4>2. Has(unacked, y) /\ (y \in handling \/ Has(inbound, Message(y)))
        BY <2>1, <2>3, <3>1 DEF Coming
      <4>3. Leads(unacked \o copy, y, x)
        BY <1>b, <1>4, <4>1, <4>2, ConcatLeads
      <4> QED BY <1>6, <1>7, <4>1, <4>2, <4>3
    <3>2. CASE ~First(y)
      <4>1. y = m /\ ~Took(m) BY <1>8, <2>3, <3>2
      <4>2. ~Took(x) /\ x # m BY <1>a, <1>c, <2>3, <4>1 DEF OutboxInOrder
      <4>3. x \notin handling /\ ~Handed(x) /\ ~Coming(x) /\ ~Has(unacked, x)
        BY <1>a, <4>2 DEF FromBroker
      <4>4. ~Has(inbound', Message(x)) /\ ~Has(unacked', x)
        BY <1>5, <1>7, <4>2, <4>3 DEF Coming
      <4> QED BY <4>3, <4>4, Trivially
    <3> QED BY <3>1, <3>2
  <2> QED BY <1>d, <1>9, <2>2, <2>3, SameParts DEF LastingInOrder, SameClient
<1>16. HandedInOrder'
  BY <1>a, <1>d, <1>8, <1>9, HandedKept
<1> QED BY <1>11, <1>12, <1>13, <1>14, <1>15, <1>16 DEF Traffic

(* paho reads the receipt of m, and m leaves the outbox.                    *)
LEMMA OutboxWithout ==
  ASSUME MqttTyped, PublishedOnce, Traffic, NEW k \in DOMAIN outbox, NEW m,
         outbox[k].m = m, outbox' = RemoveAt(outbox, k)
  PROVE  /\ \A y : Flagged(y)' <=> Flagged(y) /\ y # m
         /\ \A y : Unsent(y)' <=> Unsent(y) /\ y # m
         /\ \A x, y \in Messages : \A j, l \in DOMAIN outbox' :
              j < l /\ outbox'[j].m = x /\ outbox'[l].m = y => Before(x, y)
         /\ \A j \in DOMAIN outbox' : Has(sent, outbox'[j].m)
<1> DEFINE Entry == [m : Messages, sent : BOOLEAN]
           r == RemoveAt(outbox, k)
<1>1. outbox \in Seq(Entry) BY DEF MqttTyped, TrafficTyped
<1>2. \A j \in DOMAIN outbox : outbox[j].m \in Messages
  <2>1. \A e \in Entry : e.m \in Messages OBVIOUS
  <2> HIDE DEF Entry
  <2> QED BY <1>1, <2>1
<1> HIDE DEF Entry
<1>3. /\ DOMAIN outbox = 1..Len(outbox) /\ Len(outbox) \in Nat
      /\ k \in 1..Len(outbox) /\ DOMAIN r = 1..(Len(outbox) - 1)
  BY <1>1, Removal
<1>4. \A j \in DOMAIN r :
        /\ j < k => j \in DOMAIN outbox /\ r[j] = outbox[j]
        /\ j >= k => j + 1 \in DOMAIN outbox /\ r[j] = outbox[j + 1]
  BY <1>1, Removal
<1>5. \A j \in DOMAIN outbox :
        /\ j < k => j \in DOMAIN r /\ r[j] = outbox[j]
        /\ j > k => j - 1 \in DOMAIN r /\ r[j - 1] = outbox[j]
  BY <1>1, Removal
<1>6. outbox' = r OBVIOUS
<1> HIDE DEF r
<1>7. \A j \in DOMAIN r : \E l \in DOMAIN outbox :
        r[j] = outbox[l] /\ l # k /\ (j < k => l = j) /\ (j >= k => l = j + 1)
  <2> SUFFICES ASSUME NEW j \in DOMAIN r
               PROVE  \E l \in DOMAIN outbox :
                 r[j] = outbox[l] /\ l # k /\ (j < k => l = j)
                 /\ (j >= k => l = j + 1)
    OBVIOUS
  <2>1. CASE j < k
    <3>1. ~(j >= k) /\ j # k BY <1>3, <2>1
    <3> QED BY <1>4, <2>1, <3>1
  <2>2. CASE j >= k
    <3>1. ~(j < k) /\ j + 1 # k BY <1>3, <2>2
    <3> QED BY <1>4, <2>2, <3>1
  <2> QED BY <1>3, <2>1, <2>2
<1>8. \A l \in DOMAIN outbox : l # k => \E j \in DOMAIN r : r[j] = outbox[l]
  <2>1. \A l \in DOMAIN outbox : l # k => l < k \/ l > k BY <1>3
  <2> QED BY <1>5, <2>1
<1>9. \A l \in DOMAIN outbox : outbox[l].m = m => l = k
  <2> SUFFICES ASSUME NEW l \in DOMAIN outbox, outbox[l].m = m, l # k
               PROVE  FALSE
    OBVIOUS
  <2>1. m \in Messages BY <1>2
  <2>2. l < k \/ k < l BY <1>3
  <2>3. Before(m, m) BY <2>1, <2>2 DEF Traffic, OutboxInOrder
  <2> QED BY <2>3, OfBefore
<1>10. \A y : Unsent(y)' <=> Unsent(y) /\ y # m
  BY <1>6, <1>7, <1>8, <1>9 DEF Unsent
<1>11. \A y : Flagged(y)' <=> Flagged(y) /\ y # m
  BY <1>6, <1>7, <1>8, <1>9 DEF Flagged
<1>12. ASSUME NEW x \in Messages, NEW y \in Messages,
              NEW j \in DOMAIN r, NEW l \in DOMAIN r,
              j < l, r[j].m = x, r[l].m = y
       PROVE  Before(x, y)
  <2>1. PICK p \in DOMAIN outbox :
          r[j] = outbox[p] /\ (j < k => p = j) /\ (j >= k => p = j + 1)
    BY <1>7
  <2>2. PICK q \in DOMAIN outbox :
          r[l] = outbox[q] /\ (l < k => q = l) /\ (l >= k => q = l + 1)
    BY <1>7
  <2>3. p < q BY <1>3, <1>12, <2>1, <2>2
  <2> QED BY <1>12, <2>1, <2>2, <2>3 DEF Traffic, OutboxInOrder
<1>13. \A j \in DOMAIN r : Has(sent, r[j].m)
  BY <1>7 DEF Traffic, OutboxInOrder
<1> QED BY <1>6, <1>10, <1>11, <1>12, <1>13

LEMMA ReceiptRead ==
  ASSUME MqttTyped, PublishedOnce, Traffic, SameClient, Status' = Status,
         NEW i, ReadReceipt(i)
  PROVE  Traffic'
<1> DEFINE Parcel == [kind : {"message", "receipt"}, m : Messages]
           m == inbound[i].m
<1>a. /\ OutboxInOrder /\ FromBroker /\ InOrder
      /\ CleanInOrder /\ LastingInOrder /\ HandedInOrder
  BY DEF Traffic
<1>b. /\ UNCHANGED <<sent, handed, handling, losses, stored, unacked, taken>>
      /\ i \in DOMAIN inbound /\ inbound[i].kind = "receipt"
      /\ inbound' = RemoveAt(inbound, i)
  BY DEF ReadReceipt, receiver
<1>c. inbound \in Seq(Parcel) /\ inbound[i] \in Parcel
  <2>1. inbound \in Seq(Parcel) BY DEF MqttTyped, TrafficTyped
  <2> HIDE DEF Parcel
  <2> QED BY <1>b, <2>1
<1>d. m \in Messages /\ inbound[i] = Receipt(m)
  BY <1>b, <1>c DEF Receipt
<1>e. \/ /\ \A k \in DOMAIN outbox : outbox[k].m # m
         /\ UNCHANGED outbox
      \/ \E k \in DOMAIN outbox : outbox[k].m = m /\ outbox' = RemoveAt(outbox, k)
  BY DEF ReadReceipt
<1> HIDE DEF Parcel, m
<1>1. Took(m) /\ Assured
  <2>1. Confirmed(m) BY <1>b, <1>d DEF Confirmed, Has
  <2> QED BY <1>a, <1>d, <2>1 DEF FromBroker
<1>2. /\ \A y : Flagged(y)' <=> Flagged(y) /\ y # m
      /\ \A y : Unsent(y)' <=> Unsent(y) /\ y # m
      /\ \A x, y \in Messages : \A j, l \in DOMAIN outbox' :
           j < l /\ outbox'[j].m = x /\ outbox'[l].m = y => Before(x, y)
      /\ \A j \in DOMAIN outbox' : Has(sent, outbox'[j].m)
  <2>1. CASE (\A k \in DOMAIN outbox : outbox[k].m # m) /\ UNCHANGED outbox
    <3>1. ~Flagged(m) /\ ~Unsent(m) BY <2>1 DEF Flagged, Unsent
    <3> QED BY <1>a, <2>1, <3>1, SameParts DEF OutboxInOrder
  <2>2. CASE \E k \in DOMAIN outbox :
               outbox[k].m = m /\ outbox' = RemoveAt(outbox, k)
    BY <2>2, OutboxWithout
  <2> QED BY <1>e, <2>1, <2>2
<1>3. \A x, y : /\ Receipt(x) # Message(y)
                /\ Receipt(x) = Receipt(y) <=> x = y
  BY DEF Receipt, Message
<1>4. /\ \A x : Coming(x)' <=> Coming(x)
      /\ \A x : Confirmed(x)' => Confirmed(x)
      /\ \A x : Confirmed(x) /\ x # m => Confirmed(x)'
  <2>1. \A e : /\ Has(inbound', e) => Has(inbound, e)
               /\ Has(inbound, e) /\ inbound[i] # e => Has(inbound', e)
    BY <1>b, <1>c, RemovalHas
  <2> QED BY <1>d, <1>3, <2>1 DEF Coming, Confirmed
<1>5. /\ \A e, y : Leads(inbound, e, y) /\ inbound[i] # e => Leads(inbound', e, y)
      /\ \A x, y : Never(inbound, x, y) => Never(inbound', x, y)
  BY <1>b, <1>c, RemovalLeads, RemovalNever
<1>6. /\ \A x, y : Before(x, y)' <=> Before(x, y)
      /\ \A x : (Took(x)' <=> Took(x)) /\ (First(x)' <=> First(x))
      /\ \A x : Handed(x)' <=> Handed(x)
  BY <1>b, SameParts
<1>7. OutboxInOrder'
  <2>1. \A x \in Messages : Flagged(x)' =>
          /\ Took(x)' /\ Assured'
          /\ Status' = "down" \/ Confirmed(x)'
    BY <1>a, <1>2, <1>4, <1>6 DEF OutboxInOrder, SameClient
  <2>2. Assured' =>
          /\ \A x \in Messages : Has(sent', x) => Took(x)' \/ Flagged(x)' \/ Unsent(x)'
          /\ \A x, y \in Messages : Took(x)' /\ Before(y, x)' => Took(y)'
    BY <1>a, <1>b, <1>1, <1>2, <1>6 DEF OutboxInOrder, SameClient
  <2> QED BY <1>a, <1>b, <1>2, <1>6, <2>1, <2>2 DEF OutboxInOrder
<1>8. FromBroker'
  BY <1>a, <1>b, <1>4, <1>6 DEF FromBroker, SameClient
<1>9. InOrder'
  <2>1. /\ \A x, y : Ordered(x, y)' <=> Ordered(x, y)
        /\ \A x, y : Never(handed, x, y)' <=> Never(handed, x, y)
    BY <1>b, <1>6 DEF Ordered, SameClient
  <2> QED BY <1>a, <1>b, <1>2, <1>4, <1>5, <1>6, <2>1 DEF InOrder, SameClient
<1>10. CleanInOrder'
  <2> SUFFICES ASSUME Assured, ~Lasting, ~Retaining PROVE CleanInOrder'
    BY DEF CleanInOrder, SameClient
  <2> SUFFICES ASSUME NEW x \in Messages, NEW y \in Messages, Before(y, x)
        PROVE /\ Handed(x) \/ x \in handling =>
                   \/ Handed(y)
                   \/ /\ ~Flagged(y)' /\ ~Unsent(y)'
                      /\ ~Coming(y)' /\ y \notin handling
              /\ \/ Handed(y) \/ y \in handling
                 \/ Leads(inbound', Message(y), Message(x))
                 \/ /\ ~Coming(y)'
                    /\ \/ ~Flagged(y)' /\ ~Unsent(y)'
                       \/ Leads(inbound', Receipt(y), Message(x))
              /\ Coming(x)' => ~Unsent(y)'
    BY <1>b, <1>6 DEF CleanInOrder, SameClient
  <2>1. /\ Leads(inbound, Message(y), Message(x)) =>
             Leads(inbound', Message(y), Message(x))
        /\ Leads(inbound, Receipt(y), Message(x)) /\ y # m =>
             Leads(inbound', Receipt(y), Message(x))
    BY <1>d, <1>3, <1>5
  <2> QED BY <1>a, <1>2, <1>4, <2>1 DEF CleanInOrder
<1>11. LastingInOrder'
  <2> SUFFICES ASSUME Assured, Lasting PROVE LastingInOrder'
    BY DEF LastingInOrder, SameClient
  <2>1. \A x, y : Leads(inbound, Message(y), Message(x)) =>
                    Leads(inbound', Message(y), Message(x))
    BY <1>d, <1>3, <1>5
  <2> QED BY <1>a, <1>b, <1>4, <1>6, <2>1 DEF LastingInOrder, SameClient
<1>12. HandedInOrder'
  BY <1>a, <1>b, <1>6, HandedKept
<1> QED BY <1>7, <1>8, <1>9, <1>10, <1>11, <1>12 DEF Traffic

(* The handler of the first message starts. *)
LEMMA Routed ==
  ASSUME MqttTyped, PublishedOnce, Traffic, Status = "up", SameClient,
         Status' = Status, Route
  PROVE  Traffic'
<1> DEFINE Parcel == [kind : {"message", "receipt"}, m : Messages]
           m == Head(inbound).m
<1>a. /\ OutboxInOrder /\ FromBroker /\ InOrder
      /\ CleanInOrder /\ LastingInOrder /\ HandedInOrder
  BY DEF Traffic
<1>b. /\ UNCHANGED <<sent, outbox, handed, losses, stored, unacked, taken>>
      /\ handling = {} /\ inbound # <<>> /\ Head(inbound).kind = "message"
      /\ handling' = {m} /\ inbound' = Tail(inbound)
  BY DEF Route, publisher
<1>c. inbound \in Seq(Parcel) BY DEF MqttTyped, TrafficTyped
<1>d. /\ 1 \in DOMAIN inbound /\ Head(inbound) = inbound[1]
      /\ Head(inbound) \in Parcel /\ inbound' = RemoveAt(inbound, 1)
  <2> HIDE DEF Parcel
  <2> QED BY <1>b, <1>c, TailRemoves
<1>e. m \in Messages /\ inbound[1] = Message(m)
  BY <1>b, <1>d DEF Message
<1> HIDE DEF Parcel, m
<1>1. Coming(m) /\ Took(m)
  <2>1. Coming(m) BY <1>d, <1>e DEF Coming, Has
  <2> QED BY <1>a, <1>e, <2>1 DEF FromBroker
<1>2. \A x, y : /\ Receipt(x) # Message(y)
                /\ Receipt(x) = Receipt(y) <=> x = y
                /\ Message(x) = Message(y) <=> x = y
  BY DEF Receipt, Message
<1>3. /\ \A x : Coming(x)' => Coming(x)
      /\ \A x : Coming(x) /\ x # m => Coming(x)'
      /\ \A x : Confirmed(x)' <=> Confirmed(x)
  <2>1. \A e : /\ Has(inbound', e) => Has(inbound, e)
               /\ Has(inbound, e) /\ inbound[1] # e => Has(inbound', e)
    BY <1>c, <1>d, RemovalHas
  <2> QED BY <1>e, <1>2, <2>1 DEF Coming, Confirmed
<1>4. /\ \A e, y : Leads(inbound, e, y) /\ inbound[1] # e => Leads(inbound', e, y)
      /\ \A x, y : Never(inbound, x, y) => Never(inbound', x, y)
  BY <1>c, <1>d, RemovalLeads, RemovalNever
(* Nothing is before the first. *)
<1>5. /\ \A e : ~Leads(inbound, e, Message(m))
      /\ \A y : Never(inbound, Message(m), Message(y)) => ~Coming(y)'
  <2>1. \A e : ~Leads(inbound, e, Message(m))
    BY <1>b, <1>c, <1>d, <1>e, LedNotFirst
  <2>2. ASSUME NEW y, Coming(y)' PROVE ~Never(inbound, Message(m), Message(y))
    <3>1. PICK k \in DOMAIN inbound' : inbound'[k] = Message(y)
      BY <2>2 DEF Coming, Has
    <3>2. /\ DOMAIN inbound' = 1..(Len(inbound) - 1) /\ Len(inbound) \in Nat
          /\ k >= 1 => k + 1 \in DOMAIN inbound /\ inbound'[k] = inbound[k + 1]
      BY <1>c, <1>d, <3>1, Removal
    <3>3. k \in Nat /\ k >= 1 /\ 1 < k + 1 BY <3>1, <3>2
    <3> QED BY <1>d, <1>e, <3>1, <3>2, <3>3 DEF Never
  <2> QED BY <2>1, <2>2
<1>6. /\ \A x, y : Before(x, y)' <=> Before(x, y)
      /\ \A x : (Took(x)' <=> Took(x)) /\ (First(x)' <=> First(x))
      /\ \A x : Handed(x)' <=> Handed(x)
      /\ \A x : (Flagged(x)' <=> Flagged(x)) /\ (Unsent(x)' <=> Unsent(x))
  BY <1>b, SameParts
<1>7. \A x, y : Before(x, y) => x # y
  BY OfBefore
<1>8. OutboxInOrder'
  BY <1>a, <1>b, <1>3, <1>6 DEF OutboxInOrder, SameClient
<1>9. FromBroker'
  BY <1>a, <1>b, <1>1, <1>3, <1>6 DEF FromBroker, SameClient
<1>10. InOrder'
  <2> SUFFICES ASSUME ~Assured \/ losses = 0 PROVE InOrder'
    BY <1>b DEF InOrder, SameClient
  <2>1. /\ \A x, y : Ordered(x, y)' <=> Ordered(x, y)
        /\ \A x, y : Never(handed, x, y)' <=> Never(handed, x, y)
    BY <1>b, <1>6 DEF Ordered, SameClient
  <2>2. ASSUME NEW x \in Messages, NEW y \in Messages,
               TopicOf[x] = TopicOf[y], ~Ordered(x, y)
        PROVE  /\ Never(handed, x, y)
               /\ Never(inbound', Message(x), Message(y))
               /\ Handed(x) => y \notin handling' /\ ~Coming(y)'
               /\ x \in handling' => ~Coming(y)'
    <3>1. /\ Never(handed, x, y) /\ Never(inbound, Message(x), Message(y))
          /\ Handed(x) => ~Coming(y)
      BY <1>a, <2>2 DEF InOrder
    <3> QED BY <1>b, <1>1, <1>3, <1>4, <1>5, <3>1
  <2> QED BY <1>a, <1>b, <1>6, <2>1, <2>2 DEF InOrder, SameClient
<1>11. CleanInOrder'
  <2> SUFFICES ASSUME Assured, ~Lasting, ~Retaining PROVE CleanInOrder'
    BY DEF CleanInOrder, SameClient
  <2> SUFFICES ASSUME NEW x \in Messages, NEW y \in Messages, Before(y, x)
        PROVE /\ Handed(x) \/ x \in handling' =>
                   \/ Handed(y)
                   \/ /\ ~Flagged(y) /\ ~Unsent(y)
                      /\ ~Coming(y)' /\ y \notin handling'
              /\ \/ Handed(y) \/ y \in handling'
                 \/ Leads(inbound', Message(y), Message(x))
                 \/ /\ ~Coming(y)'
                    /\ \/ ~Flagged(y) /\ ~Unsent(y)
                       \/ Leads(inbound', Receipt(y), Message(x))
              /\ Coming(x)' => ~Unsent(y)
    BY <1>6 DEF CleanInOrder, SameClient
  <2>1. /\ Handed(x) \/ x \in handling =>
             \/ Handed(y)
             \/ /\ ~Flagged(y) /\ ~Unsent(y)
                /\ ~Coming(y) /\ y \notin handling
        /\ \/ Handed(y) \/ y \in handling
           \/ Leads(inbound, Message(y), Message(x))
           \/ /\ ~Coming(y)
              /\ \/ ~Flagged(y) /\ ~Unsent(y)
                 \/ Leads(inbound, Receipt(y), Message(x))
        /\ Coming(x) => ~Unsent(y)
    BY <1>a DEF CleanInOrder
  <2>2. x # y BY <1>7
  <2>3. Handed(x) \/ x \in handling' =>
          \/ Handed(y)
          \/ ~Flagged(y) /\ ~Unsent(y) /\ ~Coming(y)' /\ y \notin handling'
    <3>1. CASE x = m
      BY <1>b, <1>3, <1>5, <2>1, <2>2, <3>1
    <3>2. CASE x # m
      <4>1. x \in handling' => FALSE BY <1>b, <3>2
      <4>2. ~Coming(y) => y # m BY <1>1
      <4> QED BY <1>b, <1>3, <2>1, <4>1, <4>2
    <3> QED BY <3>1, <3>2
  <2>4. \/ Handed(y) \/ y \in handling'
        \/ Leads(inbound', Message(y), Message(x))
        \/ /\ ~Coming(y)'
           /\ \/ ~Flagged(y) /\ ~Unsent(y)
              \/ Leads(inbound', Receipt(y), Message(x))
    <3>1. CASE y = m BY <1>b, <3>1
    <3>2. CASE y # m
      <4>1. /\ Leads(inbound, Message(y), Message(x)) =>
                 Leads(inbound', Message(y), Message(x))
            /\ Leads(inbound, Receipt(y), Message(x)) =>
                 Leads(inbound', Receipt(y), Message(x))
        BY <1>e, <1>2, <1>4, <3>2
      <4> QED BY <1>b, <1>3, <2>1, <4>1
    <3> QED BY <3>1, <3>2
  <2> QED BY <1>3, <2>1, <2>3, <2>4
<1>12. LastingInOrder'
  <2> SUFFICES ASSUME Assured, Lasting PROVE LastingInOrder'
    BY DEF LastingInOrder, SameClient
  <2>1. \A y \in Messages : First(y) /\ ~Handed(y) =>
          Has(unacked, y) /\ (y \in handling' \/ Coming(y)')
    BY <1>a, <1>b, <1>3 DEF LastingInOrder
  <2>2. ASSUME NEW x \in Messages, NEW y \in Messages,
               Before(y, x), First(y), ~Handed(y)
        PROVE  /\ x \notin handling' /\ ~Handed(x) /\ Leads(unacked, y, x)
               /\ y \in handling' \/ Leads(inbound', Message(y), Message(x))
    <3>1. /\ ~Handed(x) /\ Leads(unacked, y, x)
          /\ Leads(inbound, Message(y), Message(x))
      BY <1>a, <1>b, <2>2 DEF LastingInOrder
    <3>2. x # m BY <1>5, <3>1
    <3>3. y # m => Leads(inbound', Message(y), Message(x))
      BY <1>e, <1>2, <1>4, <3>1
    <3> QED BY <1>b, <3>1, <3>2, <3>3
  <2> QED BY <1>b, <1>6, <2>1, <2>2 DEF LastingInOrder, SameClient
<1>13. HandedInOrder'
  BY <1>a, <1>b, <1>6, HandedKept
<1> QED BY <1>8, <1>9, <1>10, <1>11, <1>12, <1>13 DEF Traffic

(* newMessageHandler and newBinaryDataMessageHandler: the message is handed *)
(* over, as a message or as an error, and acknowledged or not.              *)
LEMMA Returned ==
  ASSUME MqttTyped, PublishedOnce, Traffic, SameClient, Status' = Status,
         HandlerReturns
  PROVE  Traffic'
<1>a. /\ OutboxInOrder /\ FromBroker /\ InOrder
      /\ CleanInOrder /\ LastingInOrder /\ HandedInOrder
  BY DEF Traffic
<1>0. PICK m \in handling : /\ HandleEnvelope(m) \/ HandleBinary(m)
                            /\ Acknowledge(m)
  BY DEF HandlerReturns
<1>b. /\ UNCHANGED <<sent, outbox, losses, stored, inbound, taken>>
      /\ handling' = {}
  BY DEF HandlerReturns, publisher
<1>c. /\ m \in Messages /\ \A y \in handling : y = m
      /\ handed \in Seq(Messages) /\ unacked \in Seq(Messages)
  BY <1>0 DEF MqttTyped, TrafficTyped
<1>d. handed' = Append(handed, m)
  BY <1>0 DEF HandleEnvelope, HandleBinary, Deliver
<1>e. UNCHANGED unacked \/ \E i \in DOMAIN unacked :
        unacked[i] = m /\ unacked' = RemoveAt(unacked, i)
  BY <1>0 DEF Acknowledge
<1>1. /\ DOMAIN handed' = 1..(Len(handed) + 1) /\ Len(handed) \in Nat
      /\ DOMAIN handed = 1..Len(handed) /\ handed'[Len(handed) + 1] = m
      /\ \A i \in 1..Len(handed) : handed'[i] = handed[i]
  BY <1>c, <1>d
<1>2. \A x : Handed(x)' <=> Handed(x) \/ x = m
  BY <1>1 DEF Handed, Has
<1>3. /\ \A x : Has(unacked', x) => Has(unacked, x)
      /\ \A x : Has(unacked, x) /\ x # m => Has(unacked', x)
      /\ \A x, y : Leads(unacked, y, x) /\ y # m => Leads(unacked', y, x)
  BY <1>c, <1>e, RemovalHas, RemovalLeads
<1>4. /\ \A x, y : Before(x, y)' <=> Before(x, y)
      /\ \A x : (Took(x)' <=> Took(x)) /\ (First(x)' <=> First(x))
      /\ \A x : (Coming(x)' <=> Coming(x)) /\ (Confirmed(x)' <=> Confirmed(x))
      /\ \A x : (Flagged(x)' <=> Flagged(x)) /\ (Unsent(x)' <=> Unsent(x))
  BY <1>b, SameParts
<1>5. Took(m) BY <1>0, <1>a, <1>c DEF FromBroker
<1>6. OutboxInOrder'
  BY <1>a, <1>b, <1>4 DEF OutboxInOrder, SameClient
<1>7. FromBroker'
  BY <1>a, <1>b, <1>2, <1>3, <1>4, <1>5 DEF FromBroker, SameClient
<1>8. InOrder'
  <2> SUFFICES ASSUME ~Assured \/ losses = 0 PROVE InOrder'
    BY <1>b DEF InOrder, SameClient
  <2>1. \A x, y : Ordered(x, y)' <=> Ordered(x, y)
    BY <1>4 DEF Ordered, SameClient
  <2>2. ASSUME NEW x \in Messages, NEW y \in Messages,
               TopicOf[x] = TopicOf[y], ~Ordered(x, y)
        PROVE  /\ Never(handed', x, y)
               /\ Never(inbound, Message(x), Message(y))
               /\ Handed(x)' => ~Coming(y)
    <3>1. /\ Never(handed, x, y) /\ Never(inbound, Message(x), Message(y))
          /\ Handed(x) => y \notin handling /\ ~Coming(y)
          /\ x \in handling => ~Coming(y)
      BY <1>a, <2>2 DEF InOrder
    <3>2. Never(handed', x, y)
      <4> SUFFICES ASSUME NEW i \in DOMAIN handed', NEW j \in DOMAIN handed',
                          i < j, handed'[i] = x, handed'[j] = y
                   PROVE  FALSE
        BY DEF Never
      <4>1. i \in DOMAIN handed /\ handed[i] = x BY <1>1
      <4>2. Handed(x) BY <4>1 DEF Handed, Has
      <4>3. j # Len(handed) + 1 BY <1>0, <1>1, <3>1, <4>2
      <4>4. j \in DOMAIN handed /\ handed[j] = y BY <1>1, <4>3
      <4> QED BY <3>1, <4>1, <4>4 DEF Never
    <3> QED BY <1>0, <1>2, <3>1, <3>2
  <2> QED BY <1>a, <1>b, <1>4, <2>1, <2>2 DEF InOrder, SameClient
<1>9. CleanInOrder'
  <2> SUFFICES ASSUME Assured, ~Lasting, ~Retaining PROVE CleanInOrder'
    BY DEF CleanInOrder, SameClient
  <2> SUFFICES ASSUME NEW x \in Messages, NEW y \in Messages, Before(y, x)
        PROVE /\ Handed(x)' =>
                   \/ Handed(y)'
                   \/ ~Flagged(y) /\ ~Unsent(y) /\ ~Coming(y)
              /\ \/ Handed(y)'
                 \/ Leads(inbound, Message(y), Message(x))
                 \/ /\ ~Coming(y)
                    /\ \/ ~Flagged(y) /\ ~Unsent(y)
                       \/ Leads(inbound, Receipt(y), Message(x))
              /\ Coming(x) => ~Unsent(y)
    BY <1>b, <1>4 DEF CleanInOrder, SameClient
  <2>1. /\ Handed(x) \/ x \in handling =>
             \/ Handed(y)
             \/ /\ ~Flagged(y) /\ ~Unsent(y)
                /\ ~Coming(y) /\ y \notin handling
        /\ \/ Handed(y) \/ y \in handling
           \/ Leads(inbound, Message(y), Message(x))
           \/ /\ ~Coming(y)
              /\ \/ ~Flagged(y) /\ ~Unsent(y)
                 \/ Leads(inbound, Receipt(y), Message(x))
        /\ Coming(x) => ~Unsent(y)
    BY <1>a DEF CleanInOrder
  <2> QED BY <1>0, <1>2, <1>c, <2>1
<1>10. LastingInOrder'
  <2> SUFFICES ASSUME Assured, Lasting PROVE LastingInOrder'
    BY DEF LastingInOrder, SameClient
  <2>1. \A y \in Messages : First(y) /\ ~Handed(y)' =>
          Has(unacked', y) /\ (Status = "up" => Coming(y))
    BY <1>0, <1>a, <1>c, <1>2, <1>3 DEF LastingInOrder
  <2>2. ASSUME NEW x \in Messages, NEW y \in Messages,
               Before(y, x), First(y), ~Handed(y)'
        PROVE  /\ ~Handed(x)' /\ Leads(unacked', y, x)
               /\ Leads(inbound, Message(y), Message(x))
    <3>1. ~Handed(y) /\ y # m BY <1>2, <2>2
    <3>2. /\ x \notin handling /\ ~Handed(x) /\ Leads(unacked, y, x)
          /\ y \in handling \/ Leads(inbound, Message(y), Message(x))
      BY <1>a, <2>2, <3>1 DEF LastingInOrder
    <3> QED BY <1>0, <1>c, <1>2, <1>3, <3>1, <3>2
  <2> QED BY <1>b, <1>4, <2>1, <2>2 DEF LastingInOrder, SameClient
<1>11. HandedInOrder'
  <2> SUFFICES ASSUME Assured, Lasting \/ ~Retaining PROVE HandedInOrder'
    BY DEF HandedInOrder, SameClient
  <2> SUFFICES ASSUME NEW x \in Messages, NEW y \in Messages, Before(y, x),
                      NEW i \in DOMAIN handed', NEW j \in DOMAIN handed',
                      i < j, handed'[i] = x, handed'[j] = y
               PROVE  \/ \E k \in 1..(j - 1) : handed'[k] = y
                      \/ [m |-> y, served |-> FALSE] \in taken
    BY <1>b, <1>4 DEF HandedInOrder, SameClient
  <2>1. i \in DOMAIN handed /\ handed[i] = x BY <1>1
  <2>2. Handed(x) BY <2>1 DEF Handed, Has
  <2>3. CASE j \in DOMAIN handed
    <3>1. handed[j] = y BY <1>1, <2>3
    <3>2. \/ \E k \in 1..(j - 1) : handed[k] = y
          \/ [m |-> y, served |-> FALSE] \in taken
      BY <1>a, <2>1, <2>3, <3>1 DEF HandedInOrder
    <3>3. \A k \in 1..(j - 1) : handed'[k] = handed[k] BY <1>1, <2>3
    <3> QED BY <3>2, <3>3
  <2>4. CASE j = Len(handed) + 1
    <3>1. y = m BY <1>1, <2>4
    <3>2. CASE Handed(m)
      <4>1. PICK k \in DOMAIN handed : handed[k] = m BY <3>2 DEF Handed, Has
      <4>2. k \in 1..(j - 1) /\ handed'[k] = m BY <1>1, <2>4, <4>1
      <4> QED BY <3>1, <4>2
    <3>3. CASE ~Handed(m)
      <4>1. ~(~Lasting /\ ~Retaining)
        BY <1>0, <1>a, <2>2, <3>1, <3>3 DEF CleanInOrder
      <4>2. ~First(m) BY <1>a, <2>2, <3>1, <3>3, <4>1 DEF LastingInOrder
      <4> QED BY <1>5, <3>1, <4>2 DEF Took
    <3> QED BY <3>2, <3>3
  <2> QED BY <1>1, <2>3, <2>4
<1> QED BY <1>6, <1>7, <1>8, <1>9, <1>10, <1>11 DEF Traffic

(* The connection is lost, or given up: what was on its way is gone.        *)
LEMMA LostOrLeft ==
  ASSUME MqttTyped, PublishedOnce, Traffic, SameClient, Status' # "up",
         \/ Status' = "down" /\ UNCHANGED <<outbox, losses>>
         \/ /\ losses' # 0
            /\ outbox' = IF Assured
                         THEN [i \in DOMAIN outbox |->
                                 [outbox[i] EXCEPT !.sent = FALSE]]
                         ELSE <<>>,
         inbound' = <<>>,
         UNCHANGED <<sent, handed, handling, stored, unacked, taken>>
  PROVE  Traffic'
<1>a. /\ OutboxInOrder /\ FromBroker /\ InOrder
      /\ CleanInOrder /\ LastingInOrder /\ HandedInOrder
  BY DEF Traffic
<1>1. \A x : ~Coming(x)' /\ ~Confirmed(x)' /\ ~Has(inbound', x)
  BY Trivially DEF Coming, Confirmed
<1>2. /\ \A x, y : Before(x, y)' <=> Before(x, y)
      /\ \A x : (Took(x)' <=> Took(x)) /\ (First(x)' <=> First(x))
      /\ \A x : Handed(x)' <=> Handed(x)
  BY SameParts
<1>3. /\ \A x : Flagged(x)' \/ Unsent(x)' => Flagged(x) \/ Unsent(x)
      /\ Assured => \A x : Flagged(x) \/ Unsent(x) => Flagged(x)' \/ Unsent(x)'
      /\ \A x : Flagged(x)' => Status' = "down" /\ Flagged(x)
      /\ ~Assured => \A x : Unsent(x)' => Unsent(x)
      /\ \A x, y \in Messages : \A j, l \in DOMAIN outbox' :
           j < l /\ outbox'[j].m = x /\ outbox'[l].m = y => Before(x, y)
      /\ \A j \in DOMAIN outbox' : Has(sent, outbox'[j].m)
  <2>1. CASE UNCHANGED <<outbox, losses>> /\ Status' = "down"
    BY <1>a, <2>1, SameParts DEF OutboxInOrder
  <2>2. CASE Assured /\ outbox' = [i \in DOMAIN outbox |->
                                    [outbox[i] EXCEPT !.sent = FALSE]]
    <3>1. DOMAIN outbox' = DOMAIN outbox BY <2>2
    <3>2. \A i \in DOMAIN outbox :
            outbox'[i].m = outbox[i].m /\ outbox'[i].sent = FALSE
      <4> SUFFICES ASSUME NEW i \in DOMAIN outbox
                   PROVE  outbox'[i].m = outbox[i].m /\ outbox'[i].sent = FALSE
        OBVIOUS
      <4>1. outbox[i] \in [m : Messages, sent : BOOLEAN]
        <5>1. outbox \in Seq([m : Messages, sent : BOOLEAN]) BY DEF MqttTyped, TrafficTyped
        <5> QED BY <5>1, ElementsOfSeq
      <4> QED BY <2>2, <4>1
    <3>3. \A x : ~Flagged(x)' BY <3>1, <3>2 DEF Flagged
    <3>4. \A x : Unsent(x)' <=> Flagged(x) \/ Unsent(x)
      BY <3>1, <3>2 DEF Flagged, Unsent
    <3> QED BY <1>a, <2>2, <3>1, <3>2, <3>3, <3>4 DEF OutboxInOrder
  <2>3. CASE ~Assured /\ outbox' = <<>>
    <3>1. \A x : ~Flagged(x)' /\ ~Unsent(x)' BY <2>3 DEF Flagged, Unsent
    <3> QED BY <2>3, <3>1
  <2> QED BY <2>1, <2>2, <2>3
<1>4. OutboxInOrder'
  <2>1. Assured' =>
          /\ \A x \in Messages : Has(sent', x) => Took(x)' \/ Flagged(x)' \/ Unsent(x)'
          /\ \A x, y \in Messages : Took(x)' /\ Before(y, x)' => Took(y)'
    BY <1>a, <1>2, <1>3 DEF OutboxInOrder, SameClient
  <2> QED BY <1>a, <1>2, <1>3, <2>1 DEF OutboxInOrder, SameClient
<1>5. FromBroker'
  BY <1>a, <1>1, <1>2 DEF FromBroker, SameClient
<1>6. InOrder'
  <2>1. /\ \A x, y : Ordered(x, y)' <=> Ordered(x, y)
        /\ \A x, y : Never(handed, x, y)' <=> Never(handed, x, y)
    BY <1>2 DEF Ordered, SameClient
  <2>2. \A x, y : Never(inbound', x, y) BY <1>1, Trivially
  <2>3. ~Assured' \/ losses' = 0 =>
          (~Assured \/ losses = 0) /\ \A y : Unsent(y)' => Unsent(y)
    <3>1. UNCHANGED outbox => \A y : Unsent(y)' => Unsent(y) BY SameParts
    <3> QED BY <1>3, <3>1 DEF SameClient
  <2> QED BY <1>a, <1>1, <1>2, <2>1, <2>2, <2>3 DEF InOrder, SameClient
<1>7. CleanInOrder'
  <2>1. \A x, y : Leads(inbound', x, y) BY <1>1, Trivially
  <2> QED BY <1>a, <1>1, <1>2, <1>3, <2>1 DEF CleanInOrder, SameClient
<1>8. LastingInOrder'
  <2>1. \A x, y : Leads(inbound', x, y) BY <1>1, Trivially
  <2> QED BY <1>a, <1>1, <1>2, <2>1 DEF LastingInOrder, SameClient
<1>9. HandedInOrder'
  BY <1>a, <1>2, HandedKept
<1> QED BY <1>4, <1>5, <1>6, <1>7, <1>8, <1>9 DEF Traffic

(* The connection comes back after it was lost. *)
LEMMA CameBack ==
  ASSUME MqttTyped, PublishedOnce, Traffic, SameClient, inbound = <<>>,
         Status = "reconnecting", Status' = "up", losses # 0, handling = {},
         IF Lasting THEN inbound' = Messaged(unacked) /\ UNCHANGED unacked
                    ELSE inbound' = <<>> /\ unacked' = <<>>,
         UNCHANGED <<sent, outbox, handed, handling, stored, taken, losses>>
  PROVE  Traffic'
<1>a. /\ OutboxInOrder /\ FromBroker /\ InOrder
      /\ CleanInOrder /\ LastingInOrder /\ HandedInOrder
      /\ unacked \in Seq(Messages)
  BY DEF Traffic, MqttTyped, TrafficTyped
<1>1. /\ \A x, y : Before(x, y)' <=> Before(x, y)
      /\ \A x : (Took(x)' <=> Took(x)) /\ (First(x)' <=> First(x))
      /\ \A x : Handed(x)' <=> Handed(x)
      /\ \A x : (Flagged(x)' <=> Flagged(x)) /\ (Unsent(x)' <=> Unsent(x))
  BY SameParts
<1>2. \A x : ~Coming(x) /\ ~Confirmed(x)
  BY Trivially DEF Coming, Confirmed
<1>3. /\ Lasting => /\ \A x : Coming(x)' <=> Has(unacked, x)
                    /\ \A x, y : Leads(inbound', Message(y), Message(x))
                                   <=> Leads(unacked, y, x)
                    /\ unacked' = unacked
      /\ ~Lasting => \A x : ~Coming(x)' /\ ~Has(unacked', x)
      /\ \A x : ~Confirmed(x)'
      /\ \A x : Has(unacked', x) => Has(unacked, x)
  <2>1. CASE Lasting
    <3>1. inbound' = Messaged(unacked) /\ unacked' = unacked BY <2>1
    <3>2. /\ \A x : Has(Messaged(unacked), Message(x)) <=> Has(unacked, x)
          /\ \A x : ~Has(Messaged(unacked), Receipt(x))
          /\ \A x, y : Leads(Messaged(unacked), Message(y), Message(x))
                        <=> Leads(unacked, y, x)
      BY <1>a, MessagedSame
    <3>3. /\ \A x : Coming(x)' <=> Has(unacked, x)
          /\ \A x : ~Confirmed(x)'
          /\ \A x, y : Leads(inbound', Message(y), Message(x))
                        <=> Leads(unacked, y, x)
      BY <3>1, <3>2 DEF Coming, Confirmed
    <3> QED BY <2>1, <3>1, <3>3
  <2>2. CASE ~Lasting BY <2>2, Trivially DEF Coming, Confirmed
  <2> QED BY <2>1, <2>2
<1>4. \A x \in Messages : ~Flagged(x) BY <1>a, <1>2 DEF OutboxInOrder
<1>5. OutboxInOrder'
  BY <1>a, <1>1, <1>4 DEF OutboxInOrder, SameClient
<1>6. FromBroker'
  BY <1>a, <1>1, <1>3 DEF FromBroker, SameClient
<1>7. InOrder'
  <2> SUFFICES ASSUME ~Assured PROVE InOrder'
    BY DEF InOrder, SameClient
  <2>1. \A x \in Messages : ~Coming(x)' BY <1>a, <1>3 DEF FromBroker
  <2>2. \A x, y \in Messages : Never(inbound', Message(x), Message(y))
    BY <2>1, Trivially DEF Coming
  <2>3. /\ \A x, y : Ordered(x, y)' <=> Ordered(x, y)
        /\ \A x, y : Never(handed, x, y)' <=> Never(handed, x, y)
    BY <1>1 DEF Ordered, SameClient
  <2> QED BY <1>a, <1>1, <2>1, <2>2, <2>3 DEF InOrder, SameClient
<1>8. CleanInOrder'
  <2>1. ~Lasting => \A x, y : Leads(inbound', x, y) BY Trivially
  <2> QED BY <1>a, <1>1, <1>3, <2>1 DEF CleanInOrder, SameClient
<1>9. LastingInOrder'
  BY <1>a, <1>1, <1>3 DEF LastingInOrder, SameClient
<1>10. HandedInOrder'
  BY <1>a, <1>1, HandedKept
<1> QED BY <1>5, <1>6, <1>7, <1>8, <1>9, <1>10 DEF Traffic
----------------------------------------------------------------------------
(* The types of what is under way, one lemma per group of actions. *)

LEMMA AnySends ==
  ASSUME NEW p, NEW m, PublishAny(p, m)
  PROVE  \/ UNCHANGED <<outbox, sent, sending>>
         \/ /\ outbox' = Append(outbox, [m |-> m, sent |-> FALSE])
            /\ sent' = Append(sent, m)
            /\ sending' = [sending EXCEPT ![p] = {m}]
            /\ Status = "up" \/ Status = "reconnecting"
BY DEF PublishAny, Publish, PublishWithSizeLimit, PublishBinaryData, Hand

LEMMA PublishedTyped ==
  ASSUME TrafficTyped, NEW p, NEW m \in Messages, PublishAny(p, m)
  PROVE  /\ sending' \in [Publishers -> SUBSET Messages]
         /\ outbox' \in Seq([m : Messages, sent : BOOLEAN])
         /\ sent' \in Seq(Messages)
<1> DEFINE Entry == [m : Messages, sent : BOOLEAN]
           last  == [m |-> m, sent |-> FALSE]
<1>1. /\ sending \in [Publishers -> SUBSET Messages]
      /\ outbox \in Seq(Entry) /\ sent \in Seq(Messages) /\ last \in Entry
  BY DEF TrafficTyped
<1>2. \/ UNCHANGED <<outbox, sent, sending>>
      \/ /\ outbox' = Append(outbox, last) /\ sent' = Append(sent, m)
         /\ sending' = [sending EXCEPT ![p] = {m}]
  BY AnySends
<1> HIDE DEF Entry, last
<1>3. outbox' \in Seq(Entry) BY <1>1, <1>2, AppendTyped
<1>4. sent' \in Seq(Messages) BY <1>1, <1>2, AppendTyped
<1>5. sending' \in [Publishers -> SUBSET Messages] BY <1>1, <1>2
<1> QED BY <1>3, <1>4, <1>5 DEF Entry

LEMMA TypedAlong ==
  ASSUME TrafficTyped, setup' = setup
  PROVE  /\ UNCHANGED <<subs, publisher, broker, receiver, losses>>
              => TrafficTyped'
         /\ /\ UNCHANGED <<subs, broker, errors, handling, handed, losses>>
            /\ channel' \in [Topics -> Seq(Messages)]
            /\ \A t \in Topics :
                 Len(channel'[t]) <= Capacity \/ Len(channel'[t]) = 1
            /\ next' \in 1..(Len(Script) + 1)
            /\ sending' \in [Publishers -> SUBSET Messages]
            /\ outbox' \in Seq([m : Messages, sent : BOOLEAN])
            /\ sent' \in Seq(Messages)
            => TrafficTyped'
         /\ /\ UNCHANGED <<next, sending, sent, receiver, taken, losses, stored>>
            /\ subscribed' \in BOOLEAN /\ served' \in BOOLEAN
            /\ restoring' \in BOOLEAN
            /\ outbox' \in Seq([m : Messages, sent : BOOLEAN])
            /\ unacked' \in Seq(Messages)
            /\ inbound' \in Seq([kind : {"message", "receipt"}, m : Messages])
            => TrafficTyped'
BY DEF TrafficTyped, subs, publisher, broker, receiver, Script, MaxLosses

(* Script[next] is a message, of which there is one call. *)
LEMMA OfScript ==
  ASSUME MqttTyped
  PROVE  /\ Script \in Seq(Messages) /\ Len(Script) \in Nat
         /\ \A i, j \in 1..Len(Script) : Script[i] = Script[j] => i = j
         /\ \A i \in 1..Len(Script) : /\ Script[i] \in Messages
                                      /\ \A m \in Messages : Script[i] \notin ReplyTo[m]
         /\ MaxLosses \in Nat
         /\ setup.traffic \in BOOLEAN
         /\ setup.traffic => IsMqtt /\ \A c, d \in setup.connects : c = d
<1>1. setup \in Setups BY DEF MqttTyped, StartTypeOK
<1>2. Script \in Seq(Messages) /\ MaxLosses \in Nat
  BY <1>1, TrafficShape DEF Script, MaxLosses
<1>3. Len(Script) \in Nat /\ DOMAIN Script = 1..Len(Script) BY <1>2
<1>4. /\ \A i, j \in DOMAIN Script : Script[i] = Script[j] => i = j
      /\ \A i \in DOMAIN Script, m \in Messages : Script[i] \notin ReplyTo[m]
  BY <1>1, TrafficShape DEF Script
<1>5. /\ setup.traffic \in BOOLEAN
      /\ setup.traffic => IsMqtt /\ \A c, d \in setup.connects : c = d
  BY <1>1, TrafficShape DEF IsMqtt
<1>6. \A i \in DOMAIN Script : Script[i] \in Messages
  BY <1>2, ElementsOfSeq
<1> QED BY <1>2, <1>3, <1>4, <1>5, <1>6

LEMMA RetainedTyped ==
  ASSUME MqttTyped, setup' = setup, Subscribe \/ Restore
  PROVE  TrafficTyped'
<1> DEFINE Parcel == [kind : {"message", "receipt"}, m : Messages]
           more == Messaged(Retained)
<1>1. /\ Retained \in Seq(Messages) /\ more \in Seq(Parcel)
      /\ inbound \in Seq(Parcel) /\ unacked \in Seq(Messages)
  BY OfRetained, MessagedSame DEF MqttTyped, TrafficTyped
<1>2. inbound' = inbound \o more /\ Forward(Retained)
  BY DEF Subscribe, Restore
<1> HIDE DEF more, Parcel
<1>3. inbound' \in Seq(Parcel) /\ unacked' \in Seq(Messages)
  BY <1>1, <1>2, Concat DEF Forward
<1>4. /\ UNCHANGED <<publisher, receiver, taken, losses, stored>>
      /\ subscribed' \in BOOLEAN /\ served' \in BOOLEAN /\ restoring' \in BOOLEAN
  BY DEF Subscribe, Restore, MqttTyped, TrafficTyped
<1>5. outbox \in Seq([m : Messages, sent : BOOLEAN])
  BY DEF MqttTyped, TrafficTyped
<1> QED BY <1>3, <1>4, <1>5, TypedAlong DEF Parcel, publisher, MqttTyped

LEMMA AppTyped ==
  ASSUME MqttTyped, setup' = setup, AppPublishes
  PROVE  TrafficTyped'
<1>1. next \in 1..(Len(Script) + 1) /\ next <= Len(Script) /\ next' = next + 1
  BY DEF AppPublishes, MqttTyped, TrafficTyped
<1>2. Script[next] \in Messages /\ next' \in 1..(Len(Script) + 1)
  BY <1>1, OfScript
<1>3. /\ sending' \in [Publishers -> SUBSET Messages]
      /\ outbox' \in Seq([m : Messages, sent : BOOLEAN])
      /\ sent' \in Seq(Messages)
  BY <1>2, PublishedTyped DEF AppPublishes, MqttTyped
<1>4. /\ channel \in [Topics -> Seq(Messages)]
      /\ \A t \in Topics : Len(channel[t]) <= Capacity \/ Len(channel[t]) = 1
  BY DEF MqttTyped, TrafficTyped
<1>5. UNCHANGED <<subs, broker, receiver, losses>> BY DEF AppPublishes
<1> QED BY <1>2, <1>3, <1>4, <1>5, TypedAlong DEF MqttTyped, receiver

LEMMA ReaderTyped ==
  ASSUME MqttTyped, setup' = setup, NEW t \in Topics, ReadMessage(t)
  PROVE  TrafficTyped'
<1>1. /\ channel \in [Topics -> Seq(Messages)]
      /\ \A u \in Topics : Len(channel[u]) <= Capacity \/ Len(channel[u]) = 1
      /\ next \in 1..(Len(Script) + 1)
      /\ sending \in [Publishers -> SUBSET Messages]
      /\ outbox \in Seq([m : Messages, sent : BOOLEAN])
      /\ sent \in Seq(Messages)
  BY DEF MqttTyped, TrafficTyped
<1>2. /\ channel[t] # <<>> /\ channel' = [channel EXCEPT ![t] = Tail(@)]
      /\ UNCHANGED <<subs, next, broker, handling, errors, handed, losses>>
      /\ \/ UNCHANGED <<outbox, sent, sending>>
         \/ \E r \in ReplyTo[Head(channel[t])] : PublishAny(t, r)
  BY DEF ReadMessage
<1>3. /\ Head(channel[t]) \in Messages /\ Tail(channel[t]) \in Seq(Messages)
      /\ Len(Tail(channel[t])) = Len(channel[t]) - 1
      /\ Len(channel[t]) \in Nat
  BY <1>1, <1>2, TailRemoves, Removal
<1>4. /\ sending' \in [Publishers -> SUBSET Messages]
      /\ outbox' \in Seq([m : Messages, sent : BOOLEAN])
      /\ sent' \in Seq(Messages)
  <2>1. CASE UNCHANGED <<outbox, sent, sending>> BY <1>1, <2>1
  <2>2. CASE \E r \in ReplyTo[Head(channel[t])] : PublishAny(t, r)
    <3>1. PICK r \in ReplyTo[Head(channel[t])] : PublishAny(t, r) BY <2>2
    <3>2. r \in Messages BY <1>3, <3>1, MessageShape
    <3> QED BY <3>1, <3>2, PublishedTyped DEF MqttTyped
  <2> QED BY <1>2, <2>1, <2>2
<1>5. channel' \in [Topics -> Seq(Messages)] BY <1>1, <1>2, <1>3
<1>6. ASSUME NEW u \in Topics
      PROVE  Len(channel'[u]) <= Capacity \/ Len(channel'[u]) = 1
  <2>1. CASE u = t
    <3>1. channel'[u] = Tail(channel[t]) BY <1>1, <1>2, <2>1
    <3>2. Capacity \in Nat BY MessageShape
    <3>3. Len(channel[t]) <= Capacity \/ Len(channel[t]) = 1 BY <1>1
    <3>4. Len(channel'[u]) = Len(channel[t]) - 1 BY <1>3, <3>1
    <3> DEFINE n == Len(channel[t])
    <3>5. n \in Nat /\ (n <= Capacity \/ n = 1) BY <1>3, <3>3
    <3>6. Len(channel'[u]) = n - 1 BY <3>4
    <3> HIDE DEF n
    <3> QED BY <3>2, <3>5, <3>6
  <2>2. CASE u # t BY <1>1, <1>2, <2>2
  <2> QED BY <2>1, <2>2
<1> QED BY <1>1, <1>2, <1>4, <1>5, <1>6, TypedAlong DEF MqttTyped

LEMMA TakeTyped ==
  ASSUME MqttTyped, setup' = setup, Take
  PROVE  TrafficTyped'
<1> DEFINE Entry  == [m : Messages, sent : BOOLEAN]
           Parcel == [kind : {"message", "receipt"}, m : Messages]
<1>1. /\ outbox \in Seq(Entry) /\ stored \in [Topics -> SUBSET Messages]
      /\ \A t \in Topics : \A x, y \in stored[t] : x = y /\ TopicOf[x] = t
      /\ unacked \in Seq(Messages) /\ inbound \in Seq(Parcel)
      /\ taken \subseteq [m : Messages, served : BOOLEAN] /\ served \in BOOLEAN
  BY DEF MqttTyped, TrafficTyped
<1>0. PICK i \in DOMAIN outbox :
        /\ ~outbox[i].sent /\ \A j \in 1..(i - 1) : outbox[j].sent
        /\ LET m    == outbox[i].m
               copy == IF served THEN <<m>> ELSE <<>>
           IN /\ stored' = IF Set("Retained")
                           THEN [stored EXCEPT ![TopicOf[m]] = {m}] ELSE stored
              /\ Forward(copy)
              /\ IF Assured
                 THEN /\ outbox' = Marked(i)
                      /\ inbound' \in {inbound \o Messaged(copy) \o <<Receipt(m)>>,
                                       inbound \o <<Receipt(m)>> \o Messaged(copy)}
                 ELSE /\ outbox' = RemoveAt(outbox, i)
                      /\ inbound' = inbound \o Messaged(copy)
              /\ taken' = IF \E first \in taken : first.m = m THEN taken
                          ELSE taken \union {[m |-> m, served |-> served]}
  BY DEF Take
<1> DEFINE m == outbox[i].m
           copy == IF served THEN <<m>> ELSE <<>>
<1>2. outbox[i] \in Entry
  <2> HIDE DEF Entry
  <2> QED BY <1>1, ElementsOfSeq
<1>3. m \in Messages /\ TopicOf[m] \in Topics BY <1>2, MessageShape
<1>4. copy \in Seq(Messages) BY <1>3
<1>5. \E new \in Seq(Parcel) : inbound' = inbound \o new
  BY <1>0, <1>3, OfSending
<1>6. /\ stored' = IF Set("Retained")
                   THEN [stored EXCEPT ![TopicOf[m]] = {m}] ELSE stored
      /\ Forward(copy)
      /\ outbox' = Marked(i) \/ outbox' = RemoveAt(outbox, i)
      /\ taken' \subseteq taken \union {[m |-> m, served |-> served]}
  BY <1>0
<1> HIDE DEF m, copy
<1>7. /\ stored' \in [Topics -> SUBSET Messages]
      /\ \A t \in Topics : \A x, y \in stored'[t] : x = y /\ TopicOf[x] = t
  <2>1. stored' \in [Topics -> SUBSET Messages] BY <1>1, <1>3, <1>6
  <2>2. \A t \in Topics : stored'[t] = stored[t] \/ (stored'[t] = {m} /\ TopicOf[m] = t)
    BY <1>1, <1>3, <1>6
  <2>3. ASSUME NEW t \in Topics, NEW x \in stored'[t], NEW y \in stored'[t]
        PROVE  x = y /\ TopicOf[x] = t
    <3>1. CASE stored'[t] = stored[t] BY <1>1, <2>3, <3>1
    <3>2. CASE stored'[t] = {m} /\ TopicOf[m] = t BY <2>3, <3>2
    <3> QED BY <2>2, <3>1, <3>2
  <2> QED BY <2>1, <2>3
<1>8. taken' \subseteq [m : Messages, served : BOOLEAN]
  BY <1>1, <1>3, <1>6
<1>9. Marked(i) \in Seq(Entry)
  <2>1. [outbox[i] EXCEPT !.sent = TRUE] \in Entry BY <1>2
  <2>2. Marked(i) = [outbox EXCEPT ![i] = [outbox[i] EXCEPT !.sent = TRUE]]
    BY DEF Marked
  <2> HIDE DEF Entry
  <2> QED BY <1>1, <2>1, <2>2
<1> HIDE DEF Entry, Parcel
<1>10. outbox' \in Seq(Entry) BY <1>1, <1>6, <1>9, Removal
<1>11. inbound' \in Seq(Parcel) /\ unacked' \in Seq(Messages)
  BY <1>1, <1>4, <1>5, <1>6, Concat DEF Forward
<1>12. UNCHANGED <<subs, next, sending, sent, receiver, losses>>
  BY DEF Take
<1> QED BY <1>7, <1>8, <1>10, <1>11, <1>12
        DEF Entry, Parcel, MqttTyped, TrafficTyped, subs, receiver, Script,
            MaxLosses

LEMMA ReceiptTyped ==
  ASSUME MqttTyped, setup' = setup, NEW i, ReadReceipt(i)
  PROVE  TrafficTyped'
<1> DEFINE Entry  == [m : Messages, sent : BOOLEAN]
           Parcel == [kind : {"message", "receipt"}, m : Messages]
<1>1. /\ outbox \in Seq(Entry) /\ inbound \in Seq(Parcel)
      /\ unacked \in Seq(Messages)
      /\ subscribed \in BOOLEAN /\ served \in BOOLEAN /\ restoring \in BOOLEAN
  BY DEF MqttTyped, TrafficTyped
<1>2. /\ i \in DOMAIN inbound /\ inbound' = RemoveAt(inbound, i)
      /\ \/ UNCHANGED outbox
         \/ \E k \in DOMAIN outbox : outbox' = RemoveAt(outbox, k)
      /\ UNCHANGED <<subs, next, sending, sent, stored, unacked, taken,
                     receiver, losses>>
  BY DEF ReadReceipt
<1> HIDE DEF Entry, Parcel
<1>3. outbox' \in Seq(Entry) /\ inbound' \in Seq(Parcel)
  BY <1>1, <1>2, Removal
<1> QED BY <1>1, <1>2, <1>3, TypedAlong DEF Entry, Parcel, MqttTyped, subs

LEMMA RouteTyped ==
  ASSUME MqttTyped, setup' = setup, Route
  PROVE  TrafficTyped'
<1> DEFINE Parcel == [kind : {"message", "receipt"}, m : Messages]
<1>1. /\ inbound \in Seq(Parcel) /\ inbound # <<>>
      /\ handling' = {Head(inbound).m} /\ inbound' = Tail(inbound)
  BY DEF Route, MqttTyped, TrafficTyped
<1>2. Head(inbound) \in Parcel /\ inbound' \in Seq(Parcel)
  <2> HIDE DEF Parcel
  <2> QED BY <1>1, TailRemoves, Removal
<1>3. handling' \in SUBSET Messages /\ \A x, y \in handling' : x = y
  BY <1>1, <1>2
<1>4. UNCHANGED <<subs, publisher, stored, unacked, taken, channel, errors,
                  handed, losses>>
  BY DEF Route
<1> QED BY <1>2, <1>3, <1>4 DEF MqttTyped, TrafficTyped, subs, publisher,
                                Script, MaxLosses

LEMMA HandlerTyped ==
  ASSUME MqttTyped, setup' = setup, HandlerReturns
  PROVE  TrafficTyped'
<1>1. /\ channel \in [Topics -> Seq(Messages)]
      /\ \A u \in Topics : Len(channel[u]) <= Capacity \/ Len(channel[u]) = 1
      /\ errors \in Seq(Messages) /\ handed \in Seq(Messages)
      /\ unacked \in Seq(Messages) /\ handling \in SUBSET Messages
      /\ Capacity \in Nat
  BY MessageShape DEF MqttTyped, TrafficTyped
<1>2. PICK m \in handling : /\ HandleEnvelope(m) \/ HandleBinary(m)
                            /\ Acknowledge(m)
  BY DEF HandlerReturns
<1>3. m \in Messages /\ TopicOf[m] \in Topics BY <1>1, <1>2, MessageShape
<1>4. \/ UNCHANGED channel
      \/ /\ Room(TopicOf[m])
         /\ channel' = [channel EXCEPT ![TopicOf[m]] = Append(@, m)]
  BY <1>2 DEF HandleEnvelope, HandleBinary, Deliver
<1>5. /\ channel' \in [Topics -> Seq(Messages)]
      /\ \A u \in Topics : Len(channel'[u]) <= Capacity \/ Len(channel'[u]) = 1
  <2>1. CASE UNCHANGED channel BY <1>1, <2>1
  <2>2. CASE /\ Room(TopicOf[m])
             /\ channel' = [channel EXCEPT ![TopicOf[m]] = Append(@, m)]
    <3> DEFINE t == TopicOf[m]
               c == channel[t]
    <3>1. c \in Seq(Messages) /\ Len(c) \in Nat BY <1>1, <1>3
    <3>2. Append(c, m) \in Seq(Messages) /\ Len(Append(c, m)) = Len(c) + 1
      BY <1>3, <3>1, AppendTyped
    <3>3. Len(c) < Capacity \/ Len(c) = 0
      <4>1. c = <<>> => Len(c) = 0 OBVIOUS
      <4> QED BY <2>2, <4>1 DEF Room
    <3>4. /\ channel' \in [Topics -> Seq(Messages)]
          /\ channel'[t] = Append(c, m)
          /\ \A u \in Topics : u # t => channel'[u] = channel[u]
      BY <1>1, <1>3, <2>2, <3>2
    <3> HIDE DEF c, t
    <3>5. Len(channel'[t]) <= Capacity \/ Len(channel'[t]) = 1
      BY <1>1, <3>1, <3>2, <3>3, <3>4
    <3> QED BY <1>1, <3>4, <3>5
  <2> QED BY <1>4, <2>1, <2>2
<1>6. handed' \in Seq(Messages) /\ errors' \in Seq(Messages)
  <2>1. handed' = Append(handed, m) /\ errors' \in {errors, Append(errors, m)}
    BY <1>2 DEF HandleEnvelope, HandleBinary, Deliver
  <2> QED BY <1>1, <1>3, <2>1, AppendTyped
<1>7. unacked' \in Seq(Messages)
  <2>1. UNCHANGED unacked
        \/ \E i \in DOMAIN unacked : unacked' = RemoveAt(unacked, i)
    BY <1>2 DEF Acknowledge
  <2> QED BY <1>1, <2>1, Removal
<1>8. handling' = {} /\ UNCHANGED <<subs, publisher, stored, inbound, taken,
                                    losses>>
  BY DEF HandlerReturns
<1> QED BY <1>5, <1>6, <1>7, <1>8 DEF MqttTyped, TrafficTyped, subs, publisher,
                                      Script, MaxLosses

LEMMA ErrorTyped ==
  ASSUME MqttTyped, setup' = setup, ReadError
  PROVE  TrafficTyped'
<1>1. errors \in Seq(Messages) /\ errors # <<>> /\ errors' = Tail(errors)
  BY DEF ReadError, MqttTyped, TrafficTyped
<1>2. errors' \in Seq(Messages) BY <1>1, TailRemoves, Removal
<1>3. UNCHANGED <<subs, publisher, broker, handling, channel, handed, losses>>
  BY DEF ReadError
<1> QED BY <1>2, <1>3 DEF MqttTyped, TrafficTyped, subs, publisher, broker,
                          Script, MaxLosses

LEMMA ConnectionTyped ==
  ASSUME MqttTyped, setup' = setup, Lose \/ ComeUp \/ Leave
  PROVE  TrafficTyped'
<1> DEFINE Entry  == [m : Messages, sent : BOOLEAN]
           Parcel == [kind : {"message", "receipt"}, m : Messages]
<1>1. /\ outbox \in Seq(Entry) /\ unacked \in Seq(Messages)
      /\ inbound \in Seq(Parcel) /\ losses \in 0..MaxLosses /\ MaxLosses \in Nat
      /\ subscribed \in BOOLEAN /\ served \in BOOLEAN /\ restoring \in BOOLEAN
  BY OfScript DEF MqttTyped, TrafficTyped
<1>2. <<>> \in Seq(Parcel) /\ <<>> \in Seq(Entry) /\ <<>> \in Seq(Messages)
  BY EmptySeq
<1>3. CASE Lose
  <2>1. /\ losses < MaxLosses /\ losses' = losses + 1 /\ inbound' = <<>>
        /\ outbox' = IF Assured
                     THEN [i \in DOMAIN outbox |-> [outbox[i] EXCEPT !.sent = FALSE]]
                     ELSE <<>>
        /\ UNCHANGED <<subs, next, sending, sent, stored, unacked, taken,
                       receiver>>
    BY <1>3 DEF Lose
  <2>2. outbox' \in Seq(Entry)
    <3>1. \A e \in Entry : [e EXCEPT !.sent = FALSE] \in Entry OBVIOUS
    <3> HIDE DEF Entry
    <3>2. /\ DOMAIN outbox = 1..Len(outbox) /\ Len(outbox) \in Nat
          /\ \A i \in DOMAIN outbox : outbox[i] \in Entry
      BY <1>1
    <3>3. [i \in DOMAIN outbox |-> [outbox[i] EXCEPT !.sent = FALSE]]
            \in [1..Len(outbox) -> Entry]
      BY <3>1, <3>2
    <3> QED BY <1>2, <2>1, <3>2, <3>3, FunctionsAreSeqs
  <2>3. losses' \in 0..MaxLosses BY <1>1, <2>1
  <2> QED BY <1>2, <2>1, <2>2, <2>3 DEF MqttTyped, TrafficTyped, subs, receiver,
                                        Script, MaxLosses
<1>4. CASE ComeUp
  <2>1. /\ restoring' = subscribed
        /\ IF Lasting
           THEN inbound' = Messaged(unacked) /\ UNCHANGED <<served, unacked>>
           ELSE inbound' = <<>> /\ served' = FALSE /\ unacked' = <<>>
        /\ UNCHANGED <<subscribed, publisher, stored, taken, receiver, losses>>
    BY <1>4 DEF ComeUp
  <2>2. Messaged(unacked) \in Seq(Parcel) BY <1>1, MessagedSame
  <2> HIDE DEF Parcel, Entry
  <2>3. /\ inbound' \in Seq(Parcel) /\ unacked' \in Seq(Messages)
        /\ restoring' \in BOOLEAN /\ served' \in BOOLEAN
        /\ subscribed' \in BOOLEAN
    BY <1>1, <1>2, <2>1, <2>2
  <2> QED BY <1>1, <2>1, <2>3, TypedAlong
          DEF Parcel, Entry, MqttTyped, publisher
<1>5. CASE Leave
  <2>1. /\ inbound' = <<>>
        /\ UNCHANGED <<subs, publisher, stored, unacked, taken, receiver, losses>>
    BY <1>5 DEF Leave
  <2> QED BY <1>1, <1>2, <2>1, TypedAlong DEF MqttTyped, publisher, subs
<1> QED BY <1>3, <1>4, <1>5

LEMMA SetupFixed == [StartNext]_startVars => setup' = setup
BY DEF StartNext, Starting, Connecting, Environment, NewMessageClient, SetOption,
       Look, MakePaho, TestConnected, Dial, TokenEnds, MakeNats, Disconnect,
       ConnectionUp, ConnectionFails, ConnectionLost, startVars, before

(* No step moves the setup or leaves the types. *)
LEMMA TypedNext ==
  ASSUME StartInv, MqttTyped, [Next]_vars
  PROVE  MqttTyped' /\ setup' = setup
<1>1. [StartNext]_startVars BY StepOfStart
<1>2. StartTypeOK' /\ Stamped' BY <1>1, StartTypedNext DEF MqttTyped
<1>3. setup' = setup BY <1>1, SetupFixed
<1> SUFFICES TrafficTyped' BY <1>2, <1>3 DEF MqttTyped
<1>4. CASE Start
  BY <1>3, <1>4, TypedAlong DEF Start, MqttTyped
<1>5. CASE Lose \/ ComeUp \/ Leave BY <1>3, <1>5, ConnectionTyped
<1>6. CASE Subscribe \/ Restore BY <1>3, <1>6, RetainedTyped
<1>7. CASE AppPublishes BY <1>3, <1>7, AppTyped
<1>8. CASE \E p \in Publishers : PublishEnds(p)
  <2>1. PICK p \in Publishers : PublishEnds(p) BY <1>8
  <2>2. /\ sending' = [sending EXCEPT ![p] = {}]
        /\ UNCHANGED <<subs, next, outbox, sent, broker, receiver, losses>>
    BY <2>1 DEF PublishEnds
  <2>3. sending' \in [Publishers -> SUBSET Messages]
    BY <2>2 DEF MqttTyped, TrafficTyped
  <2> QED BY <1>3, <2>2, <2>3 DEF MqttTyped, TrafficTyped, subs, broker,
                                  receiver, Script, MaxLosses
<1>9. CASE Take BY <1>3, <1>9, TakeTyped
<1>10. CASE \E i \in 1..2 : ReadReceipt(i) BY <1>3, <1>10, ReceiptTyped
<1>11. CASE Route BY <1>3, <1>11, RouteTyped
<1>12. CASE HandlerReturns BY <1>3, <1>12, HandlerTyped
<1>13. CASE \E t \in Topics : ReadMessage(t) BY <1>3, <1>13, ReaderTyped
<1>14. CASE ReadError BY <1>3, <1>14, ErrorTyped
<1>15. CASE UNCHANGED vars
  BY <1>3, <1>15, TypedAlong DEF vars, MqttTyped
<1> QED
  BY <1>4, <1>5, <1>6, <1>7, <1>8, <1>9, <1>10, <1>11, <1>12, <1>13, <1>14,
     <1>15 DEF Next
----------------------------------------------------------------------------
(* The one client, and what it does before the connection is up. *)

LEMMA OneClientNext ==
  ASSUME StartInv, MqttTyped, OneClient, [StartNext]_startVars
  PROVE  OneClient'
<1>0. setup' = setup BY SetupFixed
<1> SUFFICES ASSUME setup.traffic PROVE OneClient'
  BY <1>0 DEF OneClient
<1>a. /\ IsMqtt /\ own = Len(conns) /\ own \in {0, 1}
      /\ \A c \in Connects : connect[c] # "idle" => c \in setup.connects
      /\ \A c \in setup.connects \cap Connects :
           /\ own = 1 => connect[c] \notin {"idle", "make"}
           /\ connect[c] \in {"test", "dial"} => own = 1 /\ Status = "new"
      /\ own = 1 => DOMAIN conns[own] = {"status", "options", "from"}
  BY DEF OneClient
<1>b. /\ connect \in [Connects -> {"idle", "make", "test", "dial", "wait", "ok",
                                   "error"}]
      /\ \A c, d \in setup.connects : c = d
  BY OfScript DEF MqttTyped, StartTypeOK
<1>c. IsMqtt' <=> IsMqtt BY <1>0 DEF IsMqtt
<1>1. ASSUME UNCHANGED <<conns, own, connect>> PROVE OneClient'
  BY <1>0, <1>1, <1>a, <1>c, StartUnmoved DEF OneClient
<1>2. ASSUME NEW c \in Connects, c \in setup.connects, NEW where,
             UNCHANGED <<conns, own>>, To(c, where), where # "idle",
             own = 1 => where # "make",
             where \in {"test", "dial"} => own = 1 /\ Status = "new"
      PROVE  OneClient'
  <2>1. /\ connect'[c] = where
        /\ \A d \in Connects : d # c => connect'[d] = connect[d]
    BY <1>2, <1>b DEF To
  <2>2. \A d \in Connects : connect'[d] # "idle" => d \in setup.connects
    BY <1>2, <1>a, <2>1
  <2>3. \A d \in setup.connects \cap Connects : d = c
    BY <1>2, <1>b
  <2>4. SameClient /\ Status' = Status BY <1>0, <1>2, StartUnmoved
  <2> QED BY <1>0, <1>2, <1>a, <1>c, <2>1, <2>2, <2>3, <2>4 DEF OneClient
<1>3. ASSUME own = 1, NEW st, Library(own, st), Status # "new",
             UNCHANGED <<before, own, connect>>
      PROVE  OneClient'
  <2>1. Active BY <1>3 DEF Active
  <2>2. /\ SameClient /\ Status' = st
        /\ DOMAIN conns'[own] = DOMAIN conns[own] /\ Len(conns') = Len(conns)
    BY <1>3, <2>1, StatusMoved
  <2> QED BY <1>0, <1>3, <1>a, <1>c, <2>2 DEF OneClient
<1>4. \A c \in Connects : connect[c] # "idle" => c \in setup.connects
  BY <1>a
<1>5. CASE NewMessageClient \/ SetOption
  BY <1>1, <1>5 DEF NewMessageClient, SetOption, calls
<1>6. ASSUME NEW c \in Connects, Connecting(c) PROVE OneClient'
  <2>1. CASE Look(c)
    <3>1. c \in setup.connects /\ connect[c] = "idle" /\ own = 0
      BY <1>a, <2>1 DEF Look
    <3>2. To(c, "make") /\ UNCHANGED <<conns, own>>
      BY <2>1, <3>1 DEF Look
    <3> QED BY <1>2, <3>1, <3>2
  <2>2. CASE MakePaho(c)
    <3>1. connect[c] = "make" /\ c \in setup.connects /\ own = 0
      BY <1>a, <2>2 DEF MakePaho
    <3>2. CASE To(c, "error") /\ UNCHANGED <<conns, own>>
      BY <1>2, <3>1, <3>2
    <3>3. CASE /\ \E o : conns' = Made(o, "new")
               /\ own' = Len(conns') /\ To(c, "test")
      <4>1. PICK o : conns' = Made(o, "new") BY <3>3
      <4>2. Len(conns') = 1 /\ own' = 1
        <5>1. Len(conns') = Len(conns) + 1
          BY <4>1, MadeIsLast DEF StartInv
        <5>2. Len(conns) = 0 BY <1>a, <3>1
        <5> QED BY <3>3, <5>1, <5>2
      <4>3. conns'[own'] = [status |-> "new", options |-> o, from |-> given]
        <5> DEFINE New == [status |-> "new", options |-> o, from |-> given]
                   All == {conns[k] : k \in DOMAIN conns} \union {New}
        <5>1. conns \in Seq(All) /\ New \in All /\ Len(conns) = 0
          BY <1>a, <3>1 DEF StartInv, ConnsInOrder
        <5>2. conns' = Append(conns, New) BY <4>1 DEF Made
        <5> HIDE DEF New, All
        <5>3. conns'[1] = New BY <5>1, <5>2
        <5> QED BY <4>2, <5>3 DEF New
      <4>4. Status' = "new" /\ DOMAIN conns'[own'] = {"status", "options", "from"}
        BY <4>3 DEF Status
      <4>5. connect'[c] = "test" /\ \A d \in Connects : d # c => connect'[d] = connect[d]
        BY <1>b, <3>3 DEF To
      <4>6. \A d \in setup.connects \cap Connects : d = c
        BY <1>b, <3>1
      <4> QED BY <1>0, <1>a, <1>c, <3>1, <4>2, <4>4, <4>5, <4>6 DEF OneClient
    <3> QED BY <2>2, <3>2, <3>3 DEF MakePaho
  <2>3. CASE TestConnected(c)
    <3>1. c \in setup.connects /\ own = 1 /\ Status = "new"
      BY <1>a, <2>3 DEF TestConnected
    <3>2. To(c, "dial") /\ UNCHANGED <<conns, own>>
      BY <2>3, <3>1 DEF TestConnected, Open, Status
    <3> QED BY <1>2, <3>1, <3>2
  <2>4. CASE Dial(c)
    <3>1. c \in setup.connects /\ own = 1 /\ Status = "new"
      BY <1>a, <2>4 DEF Dial
    <3>2. Library(own, "connecting") /\ To(c, "wait") /\ UNCHANGED <<before, own>>
      BY <2>4, <3>1 DEF Dial, Status
    <3>3. Active BY <3>1 DEF Active
    <3>4. /\ SameClient /\ DOMAIN conns'[own] = DOMAIN conns[own]
          /\ Len(conns') = Len(conns)
      BY <3>2, <3>3, StatusMoved
    <3>5. connect'[c] = "wait" /\ \A d \in Connects : d # c => connect'[d] = connect[d]
      BY <1>b, <3>2 DEF To
    <3>6. \A d \in setup.connects \cap Connects : d = c
      BY <1>b, <3>1
    <3> QED BY <1>0, <1>a, <1>c, <3>1, <3>2, <3>4, <3>5, <3>6 DEF OneClient
  <2>5. CASE TokenEnds(c)
    <3>1. c \in setup.connects BY <1>a, <2>5 DEF TokenEnds
    <3>2. (To(c, "ok") \/ To(c, "error")) /\ UNCHANGED <<conns, own>>
      BY <2>5 DEF TokenEnds
    <3> QED BY <1>2, <3>1, <3>2
  <2>6. ~MakeNats(c) BY <1>a DEF MakeNats
  <2> QED BY <1>6, <2>1, <2>2, <2>3, <2>4, <2>5, <2>6 DEF Connecting
<1>7. CASE Disconnect
  <2>1. own = 1 /\ Status # "new" /\ Library(own, "down")
        /\ UNCHANGED <<before, own, connect>>
    BY <1>7, <1>a DEF Disconnect, Status, calls
  <2> QED BY <1>3, <2>1
<1>8. ASSUME NEW i \in DOMAIN conns, Environment(i) PROVE OneClient'
  <2>1. i = own /\ own = 1
    <3>1. DOMAIN conns = 1..Len(conns) BY DEF StartInv, ConnsInOrder
    <3> QED BY <1>a, <3>1
  <2>2. /\ Status # "new" /\ \E st : Library(own, st)
        /\ UNCHANGED <<before, own, connect>>
    BY <1>8, <2>1 DEF Environment, ConnectionUp, ConnectionFails,
                      ConnectionLost, Status, calls
  <2> QED BY <1>3, <2>1, <2>2
<1>9. CASE UNCHANGED startVars
  BY <1>1, <1>9 DEF startVars, calls
<1> QED BY <1>5, <1>6, <1>7, <1>8, <1>9 DEF StartNext, Starting

(* A step of the start does not touch a client that has come up. *)
LEMMA StartQuiet ==
  ASSUME StartInv, MqttTyped, OneClient, Start
  PROVE  \/ ~Active /\ ~Active'
         \/ SameClient /\ Status' = Status
         \/ /\ Active' /\ Status' \in {"new", "connecting", "down"}
            /\ ~Active \/ Status \in {"new", "connecting"}
<1>0. setup' = setup /\ [StartNext]_startVars
  BY SetupFixed, StepOfStart DEF Next
<1>1. CASE ~setup.traffic BY <1>0, <1>1 DEF Active
<1>2. CASE setup.traffic
  <2>a. /\ IsMqtt /\ own = Len(conns) /\ own \in {0, 1}
        /\ \A c \in Connects : connect[c] # "idle" => c \in setup.connects
        /\ \A c \in setup.connects \cap Connects :
             /\ own = 1 => connect[c] \notin {"idle", "make"}
             /\ connect[c] \in {"test", "dial"} => own = 1 /\ Status = "new"
    BY <1>2 DEF OneClient
  <2>b. Active <=> own = 1 BY <1>2, <2>a DEF Active
  <2>c. OneClient' BY <1>0, OneClientNext
  <2>1. ASSUME UNCHANGED <<conns, own>> PROVE SameClient /\ Status' = Status
    BY <1>0, <2>1, StartUnmoved
  <2>2. CASE NewMessageClient \/ SetOption
    BY <2>1, <2>2 DEF NewMessageClient, SetOption
  <2>3. ASSUME NEW c \in Connects,
               Look(c) \/ TestConnected(c) \/ TokenEnds(c)
        PROVE  SameClient /\ Status' = Status
    BY <2>1, <2>3 DEF Look, TestConnected, TokenEnds
  <2>4. ASSUME NEW c \in Connects, MakePaho(c)
        PROVE  \/ SameClient /\ Status' = Status
               \/ Active' /\ Status' = "new" /\ ~Active
    <3>1. c \in setup.connects /\ own = 0 /\ connect[c] = "make"
      BY <2>a, <2>4 DEF MakePaho
    <3>2. CASE UNCHANGED <<conns, own>> BY <2>1, <3>2
    <3>3. CASE To(c, "test") /\ own' = Len(conns') /\ \E o : conns' = Made(o, "new")
      <4>1. connect'[c] = "test"
        BY <3>3 DEF To, MqttTyped, StartTypeOK
      <4>2. own' = 1 /\ Status' = "new"
        BY <1>0, <1>2, <2>c, <3>1, <4>1 DEF OneClient
      <4> QED BY <1>0, <1>2, <2>b, <3>1, <4>2 DEF Active
    <3> QED BY <2>4, <3>2, <3>3 DEF MakePaho
  <2>5. ASSUME NEW c \in Connects, Dial(c)
        PROVE  Active' /\ Status' = "connecting" /\ Status = "new"
    <3>1. c \in setup.connects /\ own = 1 /\ Status = "new"
      BY <2>a, <2>5 DEF Dial
    <3>2. Library(own, "connecting") /\ UNCHANGED <<before, own>>
      BY <2>5, <3>1 DEF Dial, Status
    <3> QED BY <2>b, <3>1, <3>2, StatusMoved DEF SameClient
  <2>6. ASSUME NEW i \in DOMAIN conns,
               \/ ConnectionFails(i)
               \/ ~Active /\ (ConnectionUp(i) \/ ConnectionLost(i))
        PROVE  Active' /\ Status' = "down" /\ Status = "connecting"
    <3>1. i = own /\ own = 1
      <4>1. DOMAIN conns = 1..Len(conns) BY DEF StartInv, ConnsInOrder
      <4> QED BY <2>a, <4>1
    <3>2. ConnectionFails(own) BY <2>6, <2>b, <3>1
    <3>3. /\ Status = "connecting" /\ Library(own, "down")
          /\ UNCHANGED <<before, own>>
      BY <2>a, <3>2 DEF ConnectionFails, Status
    <3> QED BY <2>b, <3>1, <3>3, StatusMoved DEF SameClient
  <2>7. \A c \in Connects : ~MakeNats(c) BY <2>a DEF MakeNats
  <2> QED BY <2>2, <2>3, <2>4, <2>5, <2>6, <2>7 DEF Start, Starting, Connecting
<1> QED BY <1>1, <1>2, OfScript

(* What was sent stays as it is, or one message comes to it that was not    *)
(* published before.                                                        *)
LEMMA SentOnce ==
  ASSUME MqttTyped, PublishedOnce, setup' = setup, NEW m \in Messages,
         UNCHANGED sent \/ (sent' = Append(sent, m) /\ ~Has(sent, m)),
         \/ next' = next /\ \E x \in Messages : m \in ReplyTo[x]
         \/ next' = next + 1 /\ m = Script[next]
         \/ next' = next /\ UNCHANGED sent
  PROVE  PublishedOnce'
<1>a. /\ sent \in Seq(Messages) /\ next \in Nat /\ Script' = Script
      /\ \A i, j \in DOMAIN sent : sent[i] = sent[j] => i = j
      /\ \A i \in DOMAIN sent : \/ \E k \in 1..(next - 1) : sent[i] = Script[k]
                                \/ \E x \in Messages : sent[i] \in ReplyTo[x]
  BY DEF MqttTyped, TrafficTyped, PublishedOnce, Script
<1>b. /\ \A k \in 1..(next - 1) : k \in 1..(next' - 1)
      /\ next' = next + 1 => next \in 1..(next' - 1)
  BY <1>a DEF MqttTyped, TrafficTyped
<1>1. CASE UNCHANGED sent BY <1>1, <1>a, <1>b DEF PublishedOnce
<1>2. CASE sent' = Append(sent, m) /\ ~Has(sent, m) /\ sent' # sent
  <2>1. /\ DOMAIN sent' = 1..(Len(sent) + 1) /\ DOMAIN sent = 1..Len(sent)
        /\ Len(sent) \in Nat /\ sent'[Len(sent) + 1] = m
        /\ \A i \in 1..Len(sent) : sent'[i] = sent[i]
    BY <1>2, <1>a
  <2>2. \A i, j \in DOMAIN sent' : sent'[i] = sent'[j] => i = j
    <3> SUFFICES ASSUME NEW i \in DOMAIN sent', NEW j \in DOMAIN sent',
                        sent'[i] = sent'[j]
                 PROVE  i = j
      OBVIOUS
    <3>1. \A k \in DOMAIN sent : sent[k] # m BY <1>2 DEF Has
    <3>2. \A k \in DOMAIN sent' : k = Len(sent) + 1 \/ k \in DOMAIN sent
      BY <2>1
    <3> QED BY <1>a, <2>1, <3>1, <3>2
  <2>3. \A i \in DOMAIN sent' : \/ \E k \in 1..(next' - 1) : sent'[i] = Script[k]
                                \/ \E x \in Messages : sent'[i] \in ReplyTo[x]
    <3> SUFFICES ASSUME NEW i \in DOMAIN sent'
                 PROVE  \/ \E k \in 1..(next' - 1) : sent'[i] = Script[k]
                        \/ \E x \in Messages : sent'[i] \in ReplyTo[x]
      OBVIOUS
    <3>1. CASE i \in DOMAIN sent BY <1>a, <1>b, <2>1, <3>1
    <3>2. CASE i = Len(sent) + 1 BY <1>2, <1>b, <2>1, <3>2
    <3> QED BY <2>1, <3>1, <3>2
  <2> QED BY <1>a, <2>2, <2>3 DEF PublishedOnce
<1> QED BY <1>1, <1>2
----------------------------------------------------------------------------
LEMMA MqttInvInit == Init => MqttInv
<1> SUFFICES ASSUME Init PROVE MqttInv OBVIOUS
<1>1. StartTypeOK /\ Stamped BY StartTypedInit DEF Init
<1>2. TrafficTyped
  <2>1. Len(Script) \in Nat /\ MaxLosses \in Nat
    <3>1. Script \in Seq(Messages) /\ MaxLosses \in Nat
      BY <1>1, TrafficShape DEF StartTypeOK, Script, MaxLosses
    <3> QED BY <3>1
  <2>2. next \in 1..(Len(Script) + 1) /\ losses \in 0..MaxLosses
    BY <2>1 DEF Init
  <2>3. \A t \in Topics : Len(channel[t]) <= Capacity \/ Len(channel[t]) = 1
    <3>1. \A t \in Topics : channel[t] = <<>> BY DEF Init
    <3>2. Len(<<>>) = 0 /\ Capacity \in Nat BY MessageShape
    <3> QED BY <3>1, <3>2
  <2>4. /\ subscribed \in BOOLEAN /\ served \in BOOLEAN /\ restoring \in BOOLEAN
        /\ sending \in [Publishers -> SUBSET Messages]
        /\ stored \in [Topics -> SUBSET Messages]
        /\ \A t \in Topics : stored[t] = {}
        /\ handling = {} /\ taken = {}
    BY DEF Init
  <2>5. /\ <<>> \in Seq([m : Messages, sent : BOOLEAN])
        /\ <<>> \in Seq([kind : {"message", "receipt"}, m : Messages])
        /\ <<>> \in Seq(Messages)
    BY EmptySeq
  <2>6. /\ outbox = <<>> /\ inbound = <<>> /\ unacked = <<>> /\ errors = <<>>
        /\ sent = <<>> /\ handed = <<>> /\ channel = [t \in Topics |-> <<>>]
    BY DEF Init
  <2> QED BY <2>2, <2>3, <2>4, <2>5, <2>6 DEF TrafficTyped
<1>3. MqttTyped BY <1>1, <1>2 DEF MqttTyped
<1>4. conns = <<>> /\ own = 0 /\ \A c \in Connects : connect[c] = "idle"
  BY DEF Init, StartInit
<1>5. OneClient
  <2>1. own = Len(conns) BY <1>4
  <2> QED BY <1>3, <1>4, <2>1, OfScript DEF OneClient
<1>6. Silent /\ ~Active
  BY <1>4 DEF Init, Silent, Active
<1>7. UpFirst BY <1>6 DEF UpFirst
<1>8. PublishedOnce
  <2>1. DOMAIN sent = {} BY DEF Init
  <2> QED BY <2>1 DEF PublishedOnce
<1> QED BY <1>3, <1>5, <1>6, <1>7, <1>8 DEF MqttInv

(* Steps with messages and a connection that stays as it is: each is one of *)
(* the steps above, and none is possible before the connection is up.       *)
LEMMA MessagesNext ==
  ASSUME MqttInv, UNCHANGED startVars,
         \/ Subscribe \/ Restore \/ AppPublishes
         \/ \E p \in Publishers : PublishEnds(p)
         \/ Take \/ \E i \in 1..2 : ReadReceipt(i)
         \/ Route \/ HandlerReturns
         \/ \E t \in Topics : ReadMessage(t)
         \/ ReadError
  PROVE  UpFirst' /\ PublishedOnce' /\ (Active' => Traffic')
<1>a. MqttTyped /\ UpFirst /\ PublishedOnce /\ (Active => Traffic)
  BY DEF MqttInv
<1>b. SameClient /\ Status' = Status /\ setup' = setup
  BY StartUnmoved DEF startVars, before
<1>c. Active
  BY DEF Subscribe, Restore, AppPublishes, PublishEnds, Take, ReadReceipt,
         Route, HandlerReturns, ReadMessage, ReadError
<1>d. Traffic BY <1>a, <1>c
<1>e. UNCHANGED <<next, sent>> => PublishedOnce'
  BY <1>a, <1>b DEF PublishedOnce, SameClient, Script
<1>f. ASSUME Status \notin {"new", "connecting"}, Status # "up" => inbound' = <<>>,
             losses' = losses
      PROVE  UpFirst'
  BY <1>a, <1>b, <1>c, <1>f DEF UpFirst, SameClient
<1>g. ASSUME UNCHANGED <<sent, outbox, inbound, unacked, handed, handling, taken,
                         stored, losses>>,
             Silent => \A t \in Topics : channel'[t] = <<>>
      PROVE  UpFirst' /\ Traffic'
  <2>1. Silent => Silent' BY <1>g DEF Silent
  <2>2. UpFirst' BY <1>a, <1>b, <1>g, <2>1 DEF UpFirst, SameClient
  <2> QED BY <1>b, <1>d, <1>g, <2>2, TrafficUnmoved
<1>h. Status \in {"new", "connecting"} => Silent
  BY <1>a DEF UpFirst
<1>i. Status # "up" => inbound = <<>>
  BY <1>a, <1>c DEF UpFirst
<1>1. CASE Subscribe \/ Restore
  <2>1. /\ Status = "up" /\ inbound' = inbound \o Messaged(Retained)
        /\ Forward(Retained)
        /\ UNCHANGED <<publisher, stored, taken, receiver, losses>>
    BY <1>1 DEF Subscribe, Restore
  <2>2. UNCHANGED <<next, sent, outbox, handed, handling, taken, stored, losses>>
    BY <2>1 DEF publisher, receiver
  <2> QED BY <1>a, <1>b, <1>d, <1>e, <1>f, <2>1, <2>2, RetainedComes
<1>2. ASSUME NEW p, NEW m \in Messages, PublishAny(p, m), ~Has(sent, m),
             UNCHANGED <<broker, handling, handed, losses>>,
             Silent => \A t \in Topics : channel'[t] = <<>>
      PROVE  UpFirst' /\ Traffic' /\ (UNCHANGED sent \/ sent' = Append(sent, m))
  <2>0. UNCHANGED <<stored, unacked, inbound, taken>> BY <1>2 DEF broker
  <2>1. CASE UNCHANGED <<outbox, sent, sending>>
    BY <1>2, <1>g, <2>0, <2>1
  <2>2. CASE /\ outbox' = Append(outbox, [m |-> m, sent |-> FALSE])
             /\ sent' = Append(sent, m)
             /\ Status = "up" \/ Status = "reconnecting"
    <3>1. Traffic' BY <1>2, <1>a, <1>b, <1>d, <2>0, <2>2, Published
    <3>2. UpFirst' BY <1>2, <1>f, <1>i, <2>0, <2>2
    <3> QED BY <2>2, <3>1, <3>2
  <2> QED BY <1>2, <2>1, <2>2, AnySends
<1>3. CASE AppPublishes
  <2>1. /\ next <= Len(Script) /\ next' = next + 1
        /\ PublishAny("app", Script[next])
        /\ UNCHANGED <<startVars, subs, broker, receiver, losses>>
    BY <1>3 DEF AppPublishes
  <2>2. next \in 1..Len(Script)
    <3>1. next \in 1..(Len(Script) + 1) BY <1>a DEF MqttTyped, TrafficTyped
    <3> QED BY <1>a, <2>1, <3>1, OfScript
  <2>3. /\ Script[next] \in Messages
        /\ \A m \in Messages : Script[next] \notin ReplyTo[m]
        /\ \A k \in 1..Len(Script) : Script[k] = Script[next] => k = next
    BY <1>a, <2>2, OfScript
  <2>4. ~Has(sent, Script[next])
    <3> SUFFICES ASSUME NEW i \in DOMAIN sent, sent[i] = Script[next]
                 PROVE  FALSE
      BY DEF Has
    <3>1. PICK k \in 1..(next - 1) : sent[i] = Script[k]
      BY <1>a, <2>3 DEF PublishedOnce
    <3>2. k \in 1..Len(Script) /\ k # next BY <1>a, <2>2, <3>1, OfScript
    <3> QED BY <2>3, <3>1, <3>2
  <2>5. /\ UNCHANGED <<handling, handed>>
        /\ Silent => \A t \in Topics : channel'[t] = <<>>
    BY <2>1 DEF receiver, Silent
  <2>6. /\ UpFirst' /\ Traffic'
        /\ UNCHANGED sent \/ sent' = Append(sent, Script[next])
    BY <1>2, <2>1, <2>3, <2>4, <2>5
  <2>7. PublishedOnce'
    BY <1>a, <1>b, <2>1, <2>3, <2>4, <2>6, SentOnce
  <2> QED BY <2>6, <2>7
<1>4. CASE \E t \in Topics : ReadMessage(t)
  <2>1. PICK t \in Topics : ReadMessage(t) BY <1>4
  <2>2. /\ channel[t] # <<>>
        /\ UNCHANGED <<startVars, subs, next, broker, handling, errors,
                       handed, losses>>
        /\ \/ UNCHANGED <<outbox, sent, sending>>
           \/ \E r \in ReplyTo[Head(channel[t])] :
                (\A i \in DOMAIN sent : sent[i] # r) /\ PublishAny(t, r)
    BY <2>1 DEF ReadMessage
  <2>3. ~Silent BY <2>2 DEF Silent
  <2>4. Head(channel[t]) \in Messages
    BY <1>a, <2>2, TailRemoves DEF MqttTyped, TrafficTyped
  <2>5. CASE UNCHANGED <<outbox, sent, sending>>
    <3>1. UNCHANGED <<stored, unacked, inbound, taken>> BY <2>2 DEF broker
    <3> QED BY <1>e, <1>g, <2>2, <2>3, <2>5, <3>1
  <2>6. CASE \E r \in ReplyTo[Head(channel[t])] :
               (\A i \in DOMAIN sent : sent[i] # r) /\ PublishAny(t, r)
    <3>1. PICK r \in ReplyTo[Head(channel[t])] :
            (\A i \in DOMAIN sent : sent[i] # r) /\ PublishAny(t, r)
      BY <2>6
    <3>2. r \in Messages /\ ~Has(sent, r)
      BY <2>4, <3>1, MessageShape DEF Has
    <3>3. UpFirst' /\ Traffic' /\ (UNCHANGED sent \/ sent' = Append(sent, r))
      BY <1>2, <2>2, <2>3, <3>1, <3>2
    <3>4. next' = next /\ \E x \in Messages : r \in ReplyTo[x]
      BY <2>2, <2>4, <3>1
    <3>5. PublishedOnce' BY <1>a, <1>b, <3>2, <3>3, <3>4, SentOnce
    <3> QED BY <3>3, <3>5
  <2> QED BY <2>2, <2>5, <2>6
<1>5. CASE \E p \in Publishers : PublishEnds(p)
  <2>1. /\ UNCHANGED <<subs, next, outbox, sent, broker, receiver, losses>>
    BY <1>5 DEF PublishEnds
  <2>2. UNCHANGED <<next, sent, outbox, inbound, unacked, handed, handling, taken,
                    stored, losses, channel>>
    BY <2>1 DEF broker, receiver
  <2>3. Silent => \A t \in Topics : channel'[t] = <<>> BY <2>2 DEF Silent
  <2> QED BY <1>e, <1>g, <2>2, <2>3
<1>6. CASE ReadError
  <2>1. UNCHANGED <<subs, publisher, broker, handling, channel, handed, losses>>
    BY <1>6 DEF ReadError
  <2>2. UNCHANGED <<next, sent, outbox, inbound, unacked, handed, handling, taken,
                    stored, losses, channel>>
    BY <2>1 DEF broker, publisher
  <2>3. Silent => \A t \in Topics : channel'[t] = <<>> BY <2>2 DEF Silent
  <2> QED BY <1>e, <1>g, <2>2, <2>3
<1>7. CASE Take
  <2>1. Status = "up" /\ UNCHANGED <<next, sent, losses>> BY <1>7 DEF Take
  <2> QED BY <1>7, <1>a, <1>b, <1>d, <1>e, <1>f, <2>1, BrokerTakes
<1>8. CASE \E i \in 1..2 : ReadReceipt(i)
  <2>1. PICK i : ReadReceipt(i) BY <1>8
  <2>2. i \in DOMAIN inbound /\ UNCHANGED <<next, sent, losses>>
    BY <2>1 DEF ReadReceipt
  <2>3. Status = "up" BY <1>i, <2>2
  <2> QED BY <1>a, <1>b, <1>d, <1>e, <1>f, <2>1, <2>2, <2>3, ReceiptRead
<1>9. CASE Route
  <2>1. inbound # <<>> /\ UNCHANGED <<publisher, losses>> BY <1>9 DEF Route
  <2>2. Status = "up" /\ UNCHANGED <<next, sent, losses>>
    BY <1>i, <2>1 DEF publisher
  <2> QED BY <1>9, <1>a, <1>b, <1>d, <1>e, <1>f, <2>2, Routed
<1>10. CASE HandlerReturns
  <2>1. /\ handling # {} /\ UNCHANGED <<publisher, inbound, losses>>
    BY <1>10 DEF HandlerReturns
  <2>2. ~Silent /\ UNCHANGED <<next, sent, losses, inbound>>
    BY <2>1 DEF publisher, Silent
  <2>3. UpFirst' BY <1>f, <1>h, <1>i, <2>2
  <2> QED BY <1>10, <1>a, <1>b, <1>d, <1>e, <2>2, <2>3, Returned
<1> QED BY <1>1, <1>3, <1>4, <1>5, <1>6, <1>7, <1>8, <1>9, <1>10

LEMMA MqttInvNext == StartInv /\ MqttInv /\ [Next]_vars => MqttInv'
<1> SUFFICES ASSUME StartInv, MqttInv, [Next]_vars PROVE MqttInv'
  OBVIOUS
<1>a. /\ MqttTyped /\ OneClient /\ UpFirst /\ PublishedOnce
      /\ Active => Traffic
  BY DEF MqttInv
<1>b. MqttTyped' /\ setup' = setup BY <1>a, TypedNext
<1>c. OneClient' BY <1>a, StepOfStart, OneClientNext
<1>d. losses \in Nat BY <1>a, OfScript DEF MqttTyped, TrafficTyped
<1>e. UNCHANGED <<next, sent>> => PublishedOnce'
  BY <1>a, <1>b DEF PublishedOnce, Script
<1>f. Silent' => Traffic' BY SilentIsFine, PTL
<1> SUFFICES UpFirst' /\ PublishedOnce' /\ (Active' => Traffic')
  BY <1>b, <1>c DEF MqttInv
<1>g. ASSUME UNCHANGED <<subs, publisher, broker, receiver, losses>>
      PROVE  /\ UNCHANGED <<next, sent, outbox, inbound, unacked, handed, handling,
                            taken, stored, losses>>
             /\ Silent' <=> Silent
  BY <1>g DEF subs, publisher, broker, receiver, Silent
<1>1. CASE Start
  <2>1. UNCHANGED <<subs, publisher, broker, receiver, losses>> BY <1>1 DEF Start
  <2>2. UNCHANGED <<next, sent, outbox, inbound, unacked, handed, handling,
                    taken, stored, losses>>
    BY <1>g, <2>1
  <2>3. Silent' <=> Silent BY <1>g, <2>1
  <2>4. PublishedOnce' BY <1>e, <2>2
  <2>5. CASE ~Active /\ ~Active'
    <3>1. Silent' BY <1>a, <2>3, <2>5 DEF UpFirst
    <3>2. UpFirst' BY <2>5, <3>1 DEF UpFirst
    <3> QED BY <2>4, <2>5, <3>2
  <2>6. CASE SameClient /\ Status' = Status
    <3>1. UpFirst' BY <1>a, <2>2, <2>3, <2>6 DEF UpFirst, SameClient
    <3>2. Active' => Traffic'
      BY <1>a, <2>2, <2>6, TrafficUnmoved DEF SameClient
    <3> QED BY <2>4, <3>1, <3>2
  <2>7. CASE /\ Active' /\ Status' \in {"new", "connecting", "down"}
             /\ ~Active \/ Status \in {"new", "connecting"}
    <3>1. Silent' BY <1>a, <2>3, <2>7 DEF UpFirst
    <3>2. inbound' = <<>> BY <3>1 DEF Silent
    <3>3. UpFirst' BY <2>7, <3>1, <3>2 DEF UpFirst
    <3> QED BY <1>f, <2>4, <3>1, <3>3
  <2> QED BY <1>1, <1>a, <2>5, <2>6, <2>7, StartQuiet
<1>2. CASE Lose
  <2>1. /\ Active /\ ConnectionLost(own) /\ losses' = losses + 1
        /\ inbound' = <<>>
        /\ outbox' = IF Assured
                     THEN [i \in DOMAIN outbox |-> [outbox[i] EXCEPT !.sent = FALSE]]
                     ELSE <<>>
        /\ UNCHANGED <<subs, next, sending, sent, stored, unacked, taken,
                       receiver>>
    BY <1>2 DEF Lose
  <2>2. PICK st \in {"down", "reconnecting"} :
          Library(own, st) /\ UNCHANGED <<before, own>>
    BY <2>1 DEF ConnectionLost
  <2>3. SameClient /\ Status' = st BY <1>a, <2>1, <2>2, StatusMoved
  <2>4. UNCHANGED <<handed, handling>> BY <2>1 DEF receiver
  <2>5. losses' # 0 /\ losses' > 0 BY <1>d, <2>1
  <2>6. Traffic' BY <1>a, <2>1, <2>3, <2>4, <2>5, LostOrLeft
  <2>7. UpFirst' BY <2>1, <2>3, <2>5 DEF UpFirst, SameClient
  <2> QED BY <1>e, <2>1, <2>6, <2>7
<1>3. CASE ComeUp
  <2>1. /\ Active /\ handling = {} /\ ConnectionUp(own)
        /\ IF Lasting
           THEN inbound' = Messaged(unacked) /\ UNCHANGED <<served, unacked>>
           ELSE inbound' = <<>> /\ served' = FALSE /\ unacked' = <<>>
        /\ UNCHANGED <<subscribed, publisher, stored, taken, receiver, losses>>
    BY <1>3 DEF ComeUp
  <2>2. /\ Library(own, "up") /\ UNCHANGED <<before, own>>
        /\ Status \in {"connecting", "reconnecting"}
    BY <2>1 DEF ConnectionUp, Status
  <2>3. SameClient /\ Status' = "up" BY <1>a, <2>1, <2>2, StatusMoved
  <2>4. UNCHANGED <<next, sent, outbox, handed, handling, channel, stored, taken,
                    losses>>
    BY <2>1 DEF publisher, receiver
  <2>5. UpFirst' BY <2>1, <2>3 DEF UpFirst, SameClient
  <2>6. CASE Status = "connecting"
    <3>1. Silent BY <1>a, <2>6 DEF UpFirst
    <3>2. unacked = <<>> BY <3>1 DEF Silent
    <3>3. Messaged(unacked) = <<>>
      <4>1. Messaged(unacked) \in Seq([kind : {"message", "receipt"}, m : Messages])
        BY <3>2, EmptySeq, MessagedSame
      <4>2. DOMAIN Messaged(unacked) = {} BY <3>2 DEF Messaged
      <4> HIDE DEF Messaged
      <4> QED BY <4>1, <4>2
    <3>4. inbound' = <<>> /\ unacked' = <<>> BY <2>1, <3>2, <3>3
    <3>5. Silent' BY <2>4, <3>1, <3>4 DEF Silent
    <3> QED BY <1>e, <1>f, <2>4, <2>5, <3>5
  <2>7. CASE Status = "reconnecting"
    <3>1. inbound = <<>> /\ losses > 0 BY <1>a, <2>1, <2>7 DEF UpFirst
    <3>2. losses # 0 BY <1>d, <3>1
    <3>3. Traffic' BY <1>a, <2>1, <2>3, <2>4, <2>7, <3>1, <3>2, CameBack
    <3> QED BY <1>e, <2>4, <2>5, <3>3
  <2> QED BY <2>2, <2>6, <2>7
<1>4. CASE Leave
  <2>1. /\ Disconnect /\ inbound' = <<>>
        /\ UNCHANGED <<subs, publisher, stored, unacked, taken, receiver, losses>>
    BY <1>4 DEF Leave
  <2>2. UNCHANGED <<next, sent, outbox, handed, handling, channel, stored, taken,
                    unacked, losses>>
    BY <2>1 DEF publisher, receiver
  <2>3. Silent => Silent' BY <2>1, <2>2 DEF Silent
  <2>4. /\ Library(own, "down") /\ UNCHANGED <<before, own>>
        /\ Status \in {"connecting", "up", "reconnecting"}
    BY <2>1 DEF Disconnect, Status
  <2>5. CASE ~Active
    <3>1. Silent' /\ ~Active'
      BY <1>a, <1>b, <2>3, <2>4, <2>5 DEF UpFirst, Active
    <3> QED BY <1>e, <2>2, <3>1 DEF UpFirst
  <2>6. CASE Active
    <3>1. SameClient /\ Status' = "down" BY <1>a, <2>4, <2>6, StatusMoved
    <3>2. Traffic' BY <1>a, <2>1, <2>2, <2>6, <3>1, LostOrLeft
    <3>3. UpFirst' BY <2>1, <2>6, <3>1 DEF UpFirst, SameClient
    <3> QED BY <1>e, <2>2, <3>2, <3>3
  <2> QED BY <2>5, <2>6
<1>5. CASE \/ Subscribe \/ Restore \/ AppPublishes
           \/ \E p \in Publishers : PublishEnds(p)
           \/ Take \/ \E i \in 1..2 : ReadReceipt(i)
           \/ Route \/ HandlerReturns
           \/ \E t \in Topics : ReadMessage(t)
           \/ ReadError
  <2>1. UNCHANGED startVars
    BY <1>5 DEF Subscribe, Restore, AppPublishes, PublishEnds, Take, ReadReceipt,
                Route, HandlerReturns, ReadMessage, ReadError
  <2> QED BY <1>5, <2>1, MessagesNext
<1>6. CASE UNCHANGED vars
  <2>1. /\ UNCHANGED startVars
        /\ UNCHANGED <<subs, publisher, broker, receiver, losses>>
    BY <1>6 DEF vars
  <2>2. SameClient /\ Status' = Status
    BY <2>1, StartUnmoved DEF startVars, before
  <2>3. UNCHANGED <<next, sent, outbox, inbound, unacked, handed, handling,
                    taken, stored, losses>>
    BY <1>g, <2>1
  <2>4. Silent' <=> Silent BY <1>g, <2>1
  <2>5. UpFirst' BY <1>a, <2>2, <2>3, <2>4 DEF UpFirst, SameClient
  <2>6. Active' => Traffic'
    BY <1>a, <2>2, <2>3, TrafficUnmoved DEF SameClient
  <2> QED BY <1>e, <2>3, <2>5, <2>6
<1> QED BY <1>1, <1>2, <1>3, <1>4, <1>5, <1>6 DEF Next

LEMMA MqttInvHolds == Spec => []MqttInv
<1>1. Init => MqttInv BY MqttInvInit
<1>2. StartInv /\ MqttInv /\ [Next]_vars => MqttInv' BY MqttInvNext
<1> QED BY <1>1, <1>2, StartInvHolds, PTL DEF Spec

(* Publish*, the message handlers and what the library and the broker have  *)
(* of it: every variable keeps its type, and a channel of the application   *)
(* never holds more than its capacity.                                      *)
THEOREM TypeCorrect == Spec => []TypeOK
<1>1. MqttInv => TypeOK
  BY DEF MqttInv, MqttTyped, TrafficTyped, TypeOK
<1> QED BY <1>1, MqttInvHolds, PTL

(* Publish* and the message handlers, for any number of messages, topics,   *)
(* readers that publish and lost connections: the messages of a topic reach *)
(* the application in the order in which they were published, and once, but *)
(* for one that was retained or is sent again.                              *)
THEOREM DeliveredOnceInOrder == Spec => []OnceInOrder
<1>1. ASSUME MqttInv PROVE OnceInOrder
  <2> SUFFICES ASSUME NEW i \in DOMAIN handed, NEW j \in DOMAIN handed, i < j,
                      TopicOf[handed[i]] = TopicOf[handed[j]]
               PROVE  \/ Place(handed[i]) < Place(handed[j])
                      \/ /\ Set("Retained") \/ (losses > 0 /\ Assured)
                         /\ \E k \in 1..(j - 1) : handed[k] = handed[j]
                      \/ /\ losses > 0 /\ Assured
                         /\ \/ [m |-> handed[j], served |-> FALSE] \in taken
                            \/ Set("Retained") /\ ~Lasting
    BY DEF OnceInOrder
  <2> DEFINE x == handed[i]
             y == handed[j]
  <2>a. MqttTyped /\ UpFirst /\ PublishedOnce /\ (Active => Traffic)
    BY <1>1 DEF MqttInv
  <2>b. /\ handed \in Seq(Messages) /\ sent \in Seq(Messages) /\ losses \in Nat
        /\ i \in Nat /\ j \in Nat /\ i \in 1..(j - 1)
    <3>1. handed \in Seq(Messages) /\ sent \in Seq(Messages) /\ losses \in Nat
      BY <2>a, OfScript DEF MqttTyped, TrafficTyped
    <3>2. i \in 1..Len(handed) /\ j \in 1..Len(handed) /\ Len(handed) \in Nat
      BY <3>1
    <3> QED BY <3>1, <3>2
  <2>1. Active
    <3>1. handed # <<>> OBVIOUS
    <3> QED BY <2>a, <3>1 DEF UpFirst, Silent
  <2>c. OutboxInOrder /\ FromBroker /\ InOrder /\ HandedInOrder
    BY <2>a, <2>1 DEF Traffic
  <2>2. x \in Messages /\ y \in Messages
    BY <2>b, ElementsOfSeq
  <2>3. Has(sent, x) /\ Has(sent, y)
    <3>1. Handed(x) /\ Handed(y) BY DEF Handed, Has
    <3> QED BY <2>2, <2>c, <3>1 DEF FromBroker, OutboxInOrder
  <2>4. /\ \A z : Has(sent, z) => Place(z) \in DOMAIN sent /\ sent[Place(z)] = z
        /\ \A z \in DOMAIN sent : z \in Nat
    BY <2>b DEF Place, Has
  <2>5. \/ Place(x) < Place(y) \/ Place(x) = Place(y) \/ Place(y) < Place(x)
    BY <2>3, <2>4
  <2>6. Retaining <=> Set("Retained") BY DEF Retaining
  <2>7. \A u, v : Before(u, v) => ~Before(v, u) /\ u # v BY <2>a, OfBefore
  <2> HIDE DEF x, y
  <2>8. CASE Place(x) = Place(y)
    <3>1. x = y BY <2>3, <2>4, <2>8
    <3>2. ~Never(handed, x, y) BY DEF Never, x, y
    <3>3. ~Assured \/ losses = 0 => Ordered(x, y)
      BY <2>2, <2>c, <3>1, <3>2 DEF InOrder
    <3>4. Retaining \/ (Assured /\ losses > 0)
      BY <2>7, <2>b, <3>1, <3>3 DEF Ordered
    <3> QED BY <2>6, <2>b, <3>1, <3>4 DEF x, y
  <2>9. CASE Place(y) < Place(x)
    <3>1. Before(y, x) BY <2>3, <2>4, <2>9 DEF Before
    <3>2. ~Never(handed, x, y) BY DEF Never, x, y
    <3>3. TopicOf[x] = TopicOf[y] BY DEF x, y
    <3>4. ~Ordered(x, y) BY <2>7, <3>1 DEF Ordered
    <3>5. Assured /\ losses > 0
      BY <2>2, <2>b, <2>c, <3>2, <3>3, <3>4 DEF InOrder
    <3>6. CASE Lasting \/ ~Retaining
      <4>1. handed[i] = x /\ handed[j] = y BY DEF x, y
      <4>2. \/ \E k \in 1..(j - 1) : handed[k] = y
            \/ [m |-> y, served |-> FALSE] \in taken
        BY <2>2, <2>c, <3>1, <3>5, <3>6, <4>1 DEF HandedInOrder
      <4> QED BY <3>5, <4>1, <4>2
    <3>7. CASE ~Lasting /\ Retaining BY <2>6, <3>5, <3>7
    <3> QED BY <3>6, <3>7
  <2> QED BY <2>5, <2>8, <2>9 DEF x, y
<1> QED BY <1>1, MqttInvHolds, PTL
=============================================================================
