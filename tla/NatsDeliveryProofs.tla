------------------------- MODULE NatsDeliveryProofs -------------------------
(* The safety of NatsDelivery for every set of messages, every choice of    *)
(* correlations and malformed ones, and any capacity and bounds.            *)
EXTENDS NatsDelivery, SequenceTheorems, TLAPS

(* TypeOK with the pushes as a sequence, which Publish appends to. *)
Typed == TypeOK /\ pushes \in Seq(0..MaxPush) /\ Len(pushes) = Len(stream)

(* What the handler acknowledges it has handed over. *)
HandedBeforeAck == step \in {"ack", "report"} => at \in ToSet(handed)

(* With ExactlyOnce JetStream stores a message again only after it has      *)
(* forgotten its id.                                                        *)
StoredOnce ==
  transport = "jetstream" /\ exactlyOnce =>
    \A i, j \in DOMAIN stream : stream[i] = stream[j] /\ i < j => j \in late

(* The handler has a position that it has not handed over. *)
Carried == step = "hand over"

(* A position that is on its way, with the handler or handed over has been  *)
(* pushed, and one that is so twice has been pushed twice.                  *)
PushedIfSeen ==
  /\ \A k \in DOMAIN pending : pushes[pending[k]] > 0
  /\ \A j \in DOMAIN handed  : pushes[handed[j]] > 0
  /\ Carried => at # 0 /\ pushes[at] > 0

PushedAgainIfSeenTwice ==
  /\ \A j, k \in DOMAIN pending :
       j # k /\ pending[j] = pending[k] => pushes[pending[k]] > 1
  /\ \A j, k \in DOMAIN handed :
       j # k /\ handed[j] = handed[k] => pushes[handed[k]] > 1
  /\ \A j \in DOMAIN handed, k \in DOMAIN pending :
       handed[j] = pending[k] => pushes[pending[k]] > 1
  /\ Carried => /\ \A k \in DOMAIN pending : pending[k] = at => pushes[at] > 1
                /\ \A j \in DOMAIN handed : handed[j] = at => pushes[at] > 1

IInv == /\ Typed /\ AckedWasHandedOver /\ HandedBeforeAck
        /\ StoredOnce /\ PushedIfSeen /\ PushedAgainIfSeenTwice
----------------------------------------------------------------------------
LEMMA AppendFacts ==
  ASSUME NEW S, NEW s \in Seq(S), NEW e \in S
  PROVE  /\ Append(s, e) \in Seq(S) /\ Len(Append(s, e)) = Len(s) + 1
         /\ Len(s) \in Nat /\ DOMAIN s = 1..Len(s)
         /\ DOMAIN Append(s, e) = 1..(Len(s) + 1)
         /\ \A i \in 1..Len(s) : Append(s, e)[i] = s[i]
         /\ Append(s, e)[Len(s) + 1] = e
  OBVIOUS

LEMMA OneMore ==
  ASSUME NEW n \in Nat
  PROVE  /\ 1..n \subseteq 1..(n + 1) /\ n + 1 \in 1..(n + 1)
         /\ \A k \in 1..(n + 1) : k \in 1..n \/ k = n + 1
  OBVIOUS

(* t is s with p appended, element by element. *)
Extends(t, s, p) ==
  /\ \A k \in DOMAIN s : k \in DOMAIN t /\ t[k] = s[k]
  /\ Len(s) + 1 \in DOMAIN t /\ t[Len(s) + 1] = p
  /\ \A k \in DOMAIN t : \/ k \in DOMAIN s /\ t[k] = s[k]
                         \/ k = Len(s) + 1 /\ t[k] = p

LEMMA PositionAppended ==
  ASSUME NEW n \in Nat, NEW s \in Seq(1..n), NEW p \in 1..n,
         NEW t, t = Append(s, p)
  PROVE  t \in Seq(1..n) /\ Extends(t, s, p)
<1> DEFINE l == Len(s)
<1>1. /\ t \in Seq(1..n) /\ l \in Nat /\ DOMAIN s = 1..l
      /\ DOMAIN t = 1..(l + 1)
      /\ \A i \in 1..l : t[i] = s[i]
      /\ t[l + 1] = p
  BY AppendFacts
<1> HIDE DEF l
<1>2. /\ \A k \in 1..l : k \in 1..(l + 1)
      /\ l + 1 \in 1..(l + 1)
      /\ \A k \in 1..(l + 1) : k \in 1..l \/ k = l + 1
  BY <1>1, OneMore
<1>3. \A k \in DOMAIN s : k \in DOMAIN t /\ t[k] = s[k] BY <1>1, <1>2
<1>4. l + 1 \in DOMAIN t /\ t[l + 1] = p BY <1>1, <1>2
<1>5. \A k \in DOMAIN t : \/ k \in DOMAIN s /\ t[k] = s[k]
                          \/ k = l + 1 /\ t[k] = p
  BY <1>1, <1>2, <1>4
<1> QED BY <1>1, <1>3, <1>4, <1>5 DEF Extends, l

LEMMA TailFacts ==
  ASSUME NEW S, NEW s \in Seq(S), s # <<>>
  PROVE  /\ Tail(s) \in Seq(S) /\ Len(Tail(s)) = Len(s) - 1
         /\ Len(s) \in Nat \ {0} /\ DOMAIN s = 1..Len(s)
         /\ DOMAIN Tail(s) = 1..(Len(s) - 1)
         /\ \A i \in 1..(Len(s) - 1) : Tail(s)[i] = s[i + 1]
         /\ Head(s) = s[1] /\ s[1] \in S
  OBVIOUS

(* The positions that a state refers to, as Typed gives them. *)
LEMMA Shape ==
  ASSUME Typed
  PROVE  /\ Len(stream) \in Nat /\ DOMAIN stream = 1..Len(stream)
         /\ DOMAIN pushes = 1..Len(stream)
         /\ \A p \in 1..Len(stream) : pushes[p] \in Nat /\ pushes[p] <= MaxPush
         /\ pending \in Seq(1..Len(stream)) /\ handed \in Seq(1..Len(stream))
         /\ messages \in Seq(1..Len(stream)) /\ errors \in Seq(1..Len(stream))
         /\ DOMAIN pending = 1..Len(pending) /\ DOMAIN handed = 1..Len(handed)
         /\ Len(pending) \in Nat /\ Len(handed) \in Nat
         /\ \A k \in DOMAIN pending : pending[k] \in 1..Len(stream)
         /\ \A k \in DOMAIN handed : handed[k] \in 1..Len(stream)
         /\ at \in {0} \union 1..Len(stream)
<1>0. stream \in Seq(Messages) BY DEF Typed, TypeOK
<1>1. Len(stream) \in Nat /\ DOMAIN stream = 1..Len(stream) BY <1>0
<1>2. \A p \in 1..Len(stream) : pushes[p] \in 0..MaxPush
  BY <1>1 DEF Typed, TypeOK
<1>3. Positions = Seq(1..Len(stream)) BY <1>1 DEF Positions
<1>4. /\ pending \in Positions /\ handed \in Positions
      /\ messages \in Positions /\ errors \in Positions
      /\ at \in {0} \union DOMAIN stream
      /\ DOMAIN pushes = DOMAIN stream
  BY DEF Typed, TypeOK
<1>5. \A s \in Seq(1..Len(stream)) :
        /\ Len(s) \in Nat /\ DOMAIN s = 1..Len(s)
        /\ \A k \in DOMAIN s : s[k] \in 1..Len(stream)
  OBVIOUS
<1> QED BY <1>1, <1>2, <1>3, <1>4, <1>5, Limits

LEMMA InitInv == Init => IInv
BY Limits DEF Init, IInv, Typed, TypeOK, Positions, AckedWasHandedOver,
              HandedBeforeAck, StoredOnce, PushedIfSeen,
              PushedAgainIfSeenTwice, Carried, ToSet, Fits

(* What a step leaves alone. *)
LEMMA IdleStep ==
  ASSUME IInv, UNCHANGED <<transport, exactlyOnce, stream, pushes, acked, late,
                           pending, at, step, handed>>,
         Typed'
  PROVE  IInv'
<1>1. AckedWasHandedOver' BY DEF IInv, AckedWasHandedOver
<1>2. HandedBeforeAck' BY DEF IInv, HandedBeforeAck
<1>3. StoredOnce' BY DEF IInv, StoredOnce
<1>4. PushedIfSeen' BY DEF IInv, PushedIfSeen, Carried
<1>5. PushedAgainIfSeenTwice' BY DEF IInv, PushedAgainIfSeenTwice, Carried
<1> QED BY <1>1, <1>2, <1>3, <1>4, <1>5 DEF IInv

(* The application's channels: a send that found room, and a receive. *)
LEMMA SendFacts ==
  ASSUME NEW s \in Positions, NEW p \in DOMAIN stream, Room(s)
  PROVE  Append(s, p) \in Positions /\ Fits(Append(s, p))
<1>1. /\ Append(s, p) \in Positions /\ Len(s) \in Nat
      /\ Len(Append(s, p)) = Len(s) + 1
  BY AppendFacts DEF Positions
<1>2. CASE Len(s) < Capacity BY <1>1, <1>2, Limits DEF Fits
<1>3. CASE s = <<>>
  <2>1. Len(s) = 0 BY <1>3
  <2> QED BY <1>1, <2>1 DEF Fits
<1> QED BY <1>2, <1>3 DEF Room

LEMMA ReceiveFacts ==
  ASSUME NEW s \in Positions, s # <<>>, Fits(s)
  PROVE  Tail(s) \in Positions /\ Fits(Tail(s))
<1>1. /\ Tail(s) \in Positions /\ Len(s) \in Nat
      /\ Len(Tail(s)) = Len(s) - 1
  BY TailFacts DEF Positions
<1> QED BY <1>1, Limits DEF Fits

(* Typed after a step that neither publishes nor pushes. *)
LEMMA StaysTyped ==
  ASSUME Typed,
         UNCHANGED <<transport, exactlyOnce, published, accepted, stream,
                     pushes, forgotten, late>>,
         acked' \subseteq DOMAIN stream, at' \in {0} \union DOMAIN stream,
         step' \in {"idle", "hand over", "ack", "report"},
         pending' \in Positions, handed' \in Positions,
         messages' \in Positions, Fits(messages'),
         errors' \in Positions, Fits(errors')
  PROVE  Typed'
<1>1. Positions' = Positions BY DEF Positions
<1>2. Fits(messages)' = Fits(messages') /\ Fits(errors)' = Fits(errors')
  BY DEF Fits
<1> QED BY <1>1, <1>2 DEF Typed, TypeOK
----------------------------------------------------------------------------
(* The handler. *)
LEMMA TakeKeeps == ASSUME IInv, Take PROVE IInv'
<1> USE DEF IInv
<1>1. /\ UNCHANGED <<transport, exactlyOnce, published, accepted, stream,
                     pushes, acked, forgotten, late, messages, errors, handed>>
      /\ pending # <<>> /\ at' = Head(pending) /\ pending' = Tail(pending)
      /\ step' = "hand over"
  BY DEF Take, config, publisher, broker, window, channels
<1>2. /\ Tail(pending) \in Seq(1..Len(stream))
      /\ DOMAIN pending = 1..Len(pending) /\ Len(pending) \in Nat \ {0}
      /\ DOMAIN pending' = 1..(Len(pending) - 1)
      /\ \A k \in DOMAIN pending' : pending'[k] = pending[k + 1]
      /\ at' = pending[1] /\ pending[1] \in 1..Len(stream)
  BY <1>1, Shape, TailFacts
<1>3. pending' \in Positions /\ at' \in DOMAIN stream
  BY <1>1, <1>2, Shape DEF Positions
<1>4. Typed'
  <2>1. /\ acked \subseteq DOMAIN stream /\ handed \in Positions
        /\ messages \in Positions /\ Fits(messages)
        /\ errors \in Positions /\ Fits(errors)
    BY DEF Typed, TypeOK
  <2> QED BY <1>1, <1>3, <2>1, StaysTyped
<1>5. AckedWasHandedOver' BY <1>1 DEF AckedWasHandedOver
<1>6. HandedBeforeAck' BY <1>1 DEF HandedBeforeAck
<1>7. StoredOnce' BY <1>1 DEF StoredOnce
<1>8. /\ 1 \in DOMAIN pending
      /\ \A k \in DOMAIN pending' :
           /\ k + 1 \in DOMAIN pending /\ k + 1 # 1
           /\ pending'[k] = pending[k + 1]
      /\ \A j, k \in DOMAIN pending' : j # k => j + 1 # k + 1
  BY <1>2
<1>9. PushedIfSeen'
  <2>1. \A k \in DOMAIN pending' : pushes[pending'[k]] > 0
    BY <1>8 DEF PushedIfSeen
  <2>2. at' # 0 /\ pushes[at'] > 0
    BY <1>2, <1>8 DEF PushedIfSeen
  <2> QED BY <1>1, <2>1, <2>2 DEF PushedIfSeen
<1>10. PushedAgainIfSeenTwice'
  <2>1. ASSUME NEW j \in DOMAIN pending', NEW k \in DOMAIN pending',
               j # k, pending'[j] = pending'[k]
        PROVE  pushes[pending'[k]] > 1
    BY <1>8, <2>1 DEF PushedAgainIfSeenTwice
  <2>2. ASSUME NEW j \in DOMAIN handed, NEW k \in DOMAIN pending',
               handed[j] = pending'[k]
        PROVE  pushes[pending'[k]] > 1
    BY <1>8, <2>2 DEF PushedAgainIfSeenTwice
  <2>3. ASSUME NEW k \in DOMAIN pending', pending'[k] = at'
        PROVE  pushes[at'] > 1
    BY <1>2, <1>8, <2>3 DEF PushedAgainIfSeenTwice
  <2>4. ASSUME NEW j \in DOMAIN handed, handed[j] = at' PROVE pushes[at'] > 1
    BY <1>2, <1>8, <2>4 DEF PushedAgainIfSeenTwice
  <2>5. \A j, k \in DOMAIN handed :
          j # k /\ handed[j] = handed[k] => pushes[handed[k]] > 1
    BY DEF PushedAgainIfSeenTwice
  <2> QED BY <1>1, <2>1, <2>2, <2>3, <2>4, <2>5 DEF PushedAgainIfSeenTwice
<1> QED BY <1>4, <1>5, <1>6, <1>7, <1>9, <1>10

(* Both sends of the handler hand over its position. *)
LEMMA HandOverKeeps ==
  ASSUME IInv, step = "hand over", step' = AfterHandOver,
         handed' = Append(handed, at),
         UNCHANGED <<config, publisher, broker, pending, at>>,
         messages' \in Positions, Fits(messages'),
         errors' \in Positions, Fits(errors')
  PROVE  IInv'
<1> USE DEF IInv
<1>1. UNCHANGED <<transport, exactlyOnce, published, accepted, stream, pushes,
                  acked, forgotten, late, pending, at>>
  BY DEF config, publisher, broker, window
<1>2. step' \in {"ack", "idle"} BY DEF AfterHandOver
<1>3. at \in 1..Len(stream) /\ pushes[at] > 0
  BY Shape DEF PushedIfSeen, Carried
<1>4. /\ handed \in Seq(1..Len(stream)) /\ Len(stream) \in Nat BY Shape
<1>5. handed' \in Seq(1..Len(stream)) /\ Extends(handed', handed, at)
  BY <1>3, <1>4, PositionAppended
<1>6. Typed'
  <2>1. handed' \in Positions BY <1>5, Shape DEF Positions
  <2>2. /\ acked \subseteq DOMAIN stream /\ pending \in Positions
        /\ at \in {0} \union DOMAIN stream
    BY DEF Typed, TypeOK
  <2> QED BY <1>1, <1>2, <2>1, <2>2, StaysTyped
<1>7. ToSet(handed) \subseteq ToSet(handed') /\ at \in ToSet(handed')
  BY <1>5 DEF Extends, ToSet
<1>8. AckedWasHandedOver' BY <1>1, <1>7 DEF AckedWasHandedOver
<1>9. HandedBeforeAck' BY <1>1, <1>7 DEF HandedBeforeAck
<1>10. StoredOnce' BY <1>1 DEF StoredOnce
<1>11. PushedIfSeen'
  BY <1>1, <1>2, <1>3, <1>5 DEF Extends, PushedIfSeen, Carried
<1>12. PushedAgainIfSeenTwice'
  <2>1. /\ \A k \in DOMAIN pending : pending[k] = at => pushes[at] > 1
        /\ \A j \in DOMAIN handed : handed[j] = at => pushes[at] > 1
    BY DEF PushedAgainIfSeenTwice, Carried
  <2>2. ASSUME NEW j \in DOMAIN handed', NEW k \in DOMAIN handed',
               j # k, handed'[j] = handed'[k]
        PROVE  pushes[handed'[k]] > 1
    BY <1>5, <2>1, <2>2 DEF Extends, PushedAgainIfSeenTwice
  <2>3. ASSUME NEW j \in DOMAIN handed', NEW k \in DOMAIN pending,
               handed'[j] = pending[k]
        PROVE  pushes[pending[k]] > 1
    BY <1>5, <2>1, <2>3 DEF Extends, PushedAgainIfSeenTwice
  <2>4. \A j, k \in DOMAIN pending :
          j # k /\ pending[j] = pending[k] => pushes[pending[k]] > 1
    BY DEF PushedAgainIfSeenTwice
  <2> QED BY <1>1, <1>2, <2>2, <2>3, <2>4 DEF PushedAgainIfSeenTwice, Carried
<1> QED BY <1>6, <1>8, <1>9, <1>10, <1>11, <1>12

LEMMA SendKeeps == ASSUME IInv, SendMessage \/ SendError PROVE IInv'
<1> USE DEF IInv
<1>1. step = "hand over" BY DEF SendMessage, SendError
<1>2. at \in DOMAIN stream BY <1>1, Shape DEF PushedIfSeen, Carried
<1>3. /\ messages \in Positions /\ Fits(messages)
      /\ errors \in Positions /\ Fits(errors)
  BY DEF Typed, TypeOK
<1>4. CASE SendMessage
  <2>1. messages' \in Positions /\ Fits(messages')
    BY <1>2, <1>3, <1>4, SendFacts DEF SendMessage
  <2> QED BY <1>3, <1>4, <2>1, HandOverKeeps DEF SendMessage
<1>5. CASE SendError
  <2>1. errors' \in Positions /\ Fits(errors')
    BY <1>2, <1>3, <1>5, SendFacts DEF SendError
  <2> QED BY <1>3, <1>5, <2>1, HandOverKeeps DEF SendError
<1> QED BY <1>4, <1>5

LEMMA AckKeeps == ASSUME IInv, Ack \/ ReportAck PROVE IInv'
<1> USE DEF IInv
<1>1. /\ UNCHANGED <<transport, exactlyOnce, published, accepted, stream,
                     pushes, forgotten, late, pending, at, messages, handed>>
      /\ step \in {"ack", "report"} /\ step' \in {"idle", "report"}
      /\ acked' \subseteq acked \union {at}
  BY DEF Ack, ReportAck, config, publisher, broker, window, channels
<1>2. \/ errors' = errors
      \/ errors' = Append(errors, at) /\ Room(errors)
  BY DEF Ack, ReportAck, channels
<1>3. at \in ToSet(handed) BY <1>1 DEF HandedBeforeAck
<1>4. at \in 1..Len(stream) BY <1>3, Shape DEF ToSet
<1>5. Typed'
  <2>1. /\ acked \subseteq DOMAIN stream /\ pending \in Positions
        /\ handed \in Positions /\ messages \in Positions
        /\ Fits(messages)
        /\ errors \in Positions /\ Fits(errors)
    BY DEF Typed, TypeOK
  <2>2. errors' \in Positions /\ Fits(errors')
    BY <1>2, <1>4, <2>1, Shape, SendFacts
  <2>3. acked' \subseteq DOMAIN stream /\ at' \in {0} \union DOMAIN stream
    BY <1>1, <1>4, <2>1, Shape
  <2> QED BY <1>1, <2>1, <2>2, <2>3, StaysTyped
<1>6. AckedWasHandedOver' BY <1>1, <1>3 DEF AckedWasHandedOver
<1>7. HandedBeforeAck' BY <1>1, <1>3 DEF HandedBeforeAck
<1>8. StoredOnce' BY <1>1 DEF StoredOnce
<1>9. PushedIfSeen' BY <1>1 DEF PushedIfSeen, Carried
<1>10. PushedAgainIfSeenTwice' BY <1>1 DEF PushedAgainIfSeenTwice, Carried
<1> QED BY <1>5, <1>6, <1>7, <1>8, <1>9, <1>10

(* The application. *)
LEMMA ReaderKeeps == ASSUME IInv, Reader PROVE IInv'
<1> USE DEF IInv
<1>1. /\ UNCHANGED <<transport, exactlyOnce, published, accepted, stream,
                     pushes, acked, forgotten, late, pending, at, step, handed>>
      /\ \/ messages # <<>> /\ messages' = Tail(messages) /\ errors' = errors
         \/ errors # <<>> /\ errors' = Tail(errors) /\ messages' = messages
  BY DEF Reader, Receive, ReceiveError, config, publisher, broker, window
<1>2. /\ acked \subseteq DOMAIN stream /\ pending \in Positions
      /\ handed \in Positions /\ at \in {0} \union DOMAIN stream
      /\ step \in {"idle", "hand over", "ack", "report"}
      /\ messages \in Positions /\ Fits(messages)
      /\ errors \in Positions /\ Fits(errors)
  BY DEF Typed, TypeOK
<1>3. /\ messages' \in Positions /\ Fits(messages')
      /\ errors' \in Positions /\ Fits(errors')
  BY <1>1, <1>2, ReceiveFacts
<1>4. Typed' BY <1>1, <1>2, <1>3, StaysTyped
<1> QED BY <1>1, <1>4, IdleStep
----------------------------------------------------------------------------
(* A Publish that the broker takes appends to the stream; any other leaves  *)
(* it alone.                                                                *)
LEMMA PublishKeeps ==
  ASSUME IInv, NEW m \in Messages, Publish(m) PROVE IInv'
<1> USE DEF IInv
<1>1. /\ UNCHANGED <<transport, exactlyOnce, acked, forgotten, pending, at,
                     step, messages, errors, handed>>
      /\ published < MaxPublish /\ published' = published + 1
      /\ accepted' \subseteq accepted \union {m}
      /\ \/ UNCHANGED <<stream, pushes, late>>
         \/ /\ ~Known(m)
            /\ stream' = Append(stream, m) /\ pushes' = Append(pushes, 0)
            /\ late' = IF Taken(m, 1, forgotten)
                       THEN late \union {Len(stream) + 1} ELSE late
  BY DEF Publish, config, channels
<1>2. published' \in 0..MaxPublish /\ accepted' \subseteq Messages
  <2>1. published \in 0..MaxPublish /\ accepted \subseteq Messages
    BY DEF Typed, TypeOK
  <2> QED BY <1>1, <2>1, Limits
<1>3. CASE UNCHANGED <<stream, pushes, late>>
  <2>1. Positions' = Positions BY <1>3 DEF Positions
  <2>2. Typed' BY <1>1, <1>2, <1>3, <2>1 DEF Typed, TypeOK, Fits
  <2> QED BY <1>1, <1>3, <2>2, IdleStep
<1>4. CASE /\ ~Known(m)
           /\ stream' = Append(stream, m) /\ pushes' = Append(pushes, 0)
           /\ late' = IF Taken(m, 1, forgotten)
                      THEN late \union {Len(stream) + 1} ELSE late
  <2> DEFINE n == Len(stream)
  <2>1. /\ stream \in Seq(Messages) /\ pushes \in Seq(0..MaxPush)
        /\ Len(pushes) = n
    BY DEF Typed, TypeOK
  <2>0. 0 \in 0..MaxPush BY Limits
  <2>2. /\ n \in Nat /\ DOMAIN stream = 1..n /\ DOMAIN stream' = 1..(n + 1)
        /\ stream' \in Seq(Messages) /\ Len(stream') = n + 1
        /\ \A i \in 1..n : stream'[i] = stream[i]
        /\ stream'[n + 1] = m
    BY <1>4, <2>1, AppendFacts
  <2>3. /\ pushes' \in Seq(0..MaxPush) /\ Len(pushes') = n + 1
        /\ DOMAIN pushes' = 1..(n + 1)
        /\ \A i \in 1..n : pushes'[i] = pushes[i]
    BY <1>4, <2>0, <2>1, AppendFacts
  <2> HIDE DEF n
  <2>4. /\ 1..n \subseteq 1..(n + 1)
        /\ \A k \in 1..(n + 1) : k \in 1..n \/ k = n + 1
    BY <2>2
  <2>5. Typed'
    <3>1. \A s \in Positions : s \in Positions'
      BY <2>2, <2>4, SeqMonotonic DEF Positions
    <3>2. pushes' \in [DOMAIN stream' -> 0..MaxPush]
      BY <2>2, <2>3, LenProperties
    <3>3. /\ transport \in {"core", "jetstream"} /\ exactlyOnce \in BOOLEAN
          /\ acked \subseteq DOMAIN stream /\ at \in {0} \union DOMAIN stream
          /\ step \in {"idle", "hand over", "ack", "report"}
          /\ pending \in Positions /\ handed \in Positions
          /\ messages \in Positions /\ Fits(messages)
          /\ errors \in Positions /\ Fits(errors)
          /\ forgotten \in 0..n /\ late \subseteq 1..n
      BY <2>2 DEF Typed, TypeOK, n
    <3>6. forgotten' \in 0..(n + 1) /\ late' \subseteq 1..(n + 1)
      <4>1. late' \subseteq late \union {n + 1} BY <1>4 DEF n
      <4>2. n + 1 \in 1..(n + 1) /\ \A f \in 0..n : f \in 0..(n + 1)
        BY <2>2
      <4> QED BY <1>1, <2>4, <3>3, <4>1, <4>2
    <3>7. Fits(messages)' /\ Fits(errors)' BY <1>1, <3>3 DEF Fits
    <3>4. acked' \subseteq DOMAIN stream' /\ at' \in {0} \union DOMAIN stream'
      BY <1>1, <2>2, <2>4, <3>3
    <3>5. /\ pending' \in Positions' /\ handed' \in Positions'
          /\ messages' \in Positions' /\ errors' \in Positions'
      BY <1>1, <3>1, <3>3
    <3> QED BY <1>1, <1>2, <2>2, <2>3, <3>2, <3>3, <3>4, <3>5, <3>6, <3>7
            DEF Typed, TypeOK
  <2>6. AckedWasHandedOver' BY <1>1 DEF AckedWasHandedOver
  <2>7. HandedBeforeAck' BY <1>1 DEF HandedBeforeAck
  <2>8. StoredOnce'
    <3> SUFFICES ASSUME transport = "jetstream", exactlyOnce,
                        NEW i \in 1..(n + 1), NEW j \in 1..(n + 1),
                        stream'[i] = stream'[j], i < j
                 PROVE  j \in late'
      BY <1>1, <2>2 DEF StoredOnce
    <3>1. m \in SameMsgId(m) BY DEF SameMsgId
    <3>2. i \in 1..n /\ (j \in 1..n \/ j = n + 1) BY <2>2, <2>4
    <3>3. CASE j \in 1..n
      <4>1. stream[i] = stream[j] BY <2>2, <3>2, <3>3
      <4>2. j \in late BY <2>2, <3>2, <3>3, <4>1 DEF StoredOnce
      <4> QED BY <1>4, <4>2
    <3>4. CASE j = n + 1
      <4>1. stream[i] \in SameMsgId(m) BY <2>2, <3>1, <3>2, <3>4
      <4>2. i \notin (forgotten + 1)..n
        BY <1>4, <4>1 DEF Known, Taken, n
      <4>3. forgotten \in 0..n BY DEF Typed, TypeOK, n
      <4>4. i \in 1..forgotten BY <2>2, <3>2, <4>2, <4>3
      <4>5. Taken(m, 1, forgotten) BY <4>1, <4>4 DEF Taken
      <4> QED BY <1>4, <3>4, <4>5 DEF n
    <3> QED BY <3>2, <3>3, <3>4
  <2>9. /\ \A k \in DOMAIN pending : pending[k] \in 1..n
        /\ \A j \in DOMAIN handed : handed[j] \in 1..n
        /\ at # 0 => at \in 1..n
    BY Shape DEF n
  <2>10. PushedIfSeen'
    BY <1>1, <2>3, <2>9 DEF PushedIfSeen, Carried
  <2>11. PushedAgainIfSeenTwice'
    <3>1. /\ \A k \in DOMAIN pending : pushes'[pending[k]] = pushes[pending[k]]
          /\ \A j \in DOMAIN handed : pushes'[handed[j]] = pushes[handed[j]]
          /\ at # 0 => pushes'[at] = pushes[at]
      BY <2>3, <2>9
    <3>2. Carried => at # 0 BY DEF PushedIfSeen
    <3>3. /\ \A j, k \in DOMAIN pending :
               j # k /\ pending[j] = pending[k] => pushes'[pending[k]] > 1
          /\ \A j, k \in DOMAIN handed :
               j # k /\ handed[j] = handed[k] => pushes'[handed[k]] > 1
          /\ \A j \in DOMAIN handed, k \in DOMAIN pending :
               handed[j] = pending[k] => pushes'[pending[k]] > 1
      BY <3>1 DEF PushedAgainIfSeenTwice
    <3>4. Carried =>
            /\ \A k \in DOMAIN pending : pending[k] = at => pushes'[at] > 1
            /\ \A j \in DOMAIN handed : handed[j] = at => pushes'[at] > 1
      BY <3>1, <3>2 DEF PushedAgainIfSeenTwice
    <3> QED BY <1>1, <3>3, <3>4 DEF PushedAgainIfSeenTwice, Carried
  <2> QED BY <2>5, <2>6, <2>7, <2>8, <2>10, <2>11
<1> QED BY <1>1, <1>3, <1>4

LEMMA ForgetKeeps == ASSUME IInv, Forget PROVE IInv'
<1> USE DEF IInv
<1>1. /\ UNCHANGED <<transport, exactlyOnce, published, accepted, stream, pushes,
                     acked, late, pending, at, step, messages, errors, handed>>
      /\ forgotten < Len(stream) /\ forgotten' = forgotten + 1
  BY DEF Forget, config, publisher, channels
<1>2. forgotten' \in 0..Len(stream)
  <2>1. forgotten \in 0..Len(stream) /\ Len(stream) \in Nat
    BY Shape DEF Typed, TypeOK
  <2> QED BY <1>1, <2>1
<1>3. Positions' = Positions BY <1>1 DEF Positions
<1>4. Typed' BY <1>1, <1>2, <1>3 DEF Typed, TypeOK, Fits
<1> QED BY <1>1, <1>4, IdleStep

(* A push counts whether it arrives or not, so that a position that comes   *)
(* to be on its way twice has been pushed twice.                            *)
LEMMA PushKeeps ==
  ASSUME IInv, NEW i \in DOMAIN stream, Push(i) PROVE IInv'
<1> USE DEF IInv
<1> DEFINE n == Len(stream)
<1>1. /\ UNCHANGED <<transport, exactlyOnce, published, accepted, stream,
                     acked, forgotten, late, at, step, messages, errors,
                     handed>>
      /\ pushes' = [pushes EXCEPT ![i] = @ + 1]
      /\ pending' = Append(pending, i) \/ pending' = pending
      /\ pushes[i] = 0 \/ pushes[i] < MaxPush
  BY DEF Push, config, publisher, window, channels
<1>2. /\ n \in Nat /\ DOMAIN stream = 1..n /\ DOMAIN pushes = 1..n
      /\ i \in 1..n /\ pending \in Seq(1..n)
      /\ \A p \in 1..n : pushes[p] \in Nat /\ pushes[p] <= MaxPush
      /\ \A k \in DOMAIN pending : pending[k] \in 1..n
      /\ \A k \in DOMAIN handed : handed[k] \in 1..n
      /\ at \in {0} \union 1..n
  BY Shape
<1> HIDE DEF n
<1>3. /\ \A p \in 1..n : p # i => pushes'[p] = pushes[p]
      /\ pushes'[i] = pushes[i] + 1
      /\ DOMAIN pushes' = 1..n
      /\ pushes[i] + 1 \in 0..MaxPush
  BY <1>1, <1>2, Limits
<1>4. \A p \in 1..n : /\ pushes'[p] \in 0..MaxPush
                      /\ pushes[p] > 0 => pushes'[p] > 0
                      /\ pushes[p] > 1 => pushes'[p] > 1
                      /\ p = i /\ pushes[p] > 0 => pushes'[p] > 1
                      /\ p = i => pushes'[p] > 0
  BY <1>2, <1>3, Limits
<1>5. /\ pending' \in Seq(1..n)
      /\ pending' = pending \/ Extends(pending', pending, i)
  <2>1. CASE pending' = pending BY <1>2, <2>1
  <2>2. CASE pending' = Append(pending, i) BY <1>2, <2>2, PositionAppended
  <2> QED BY <1>1, <2>1, <2>2
<1>6. Typed'
  <2>1. Positions' = Positions /\ Positions = Seq(1..n)
    BY <1>1, <1>2 DEF Positions
  <2>2. pushes \in Seq(0..MaxPush) /\ Len(pushes) = n
    BY DEF Typed, n
  <2>3. pushes' \in Seq(0..MaxPush) /\ Len(pushes') = n
    <3>1. pushes' = [pushes EXCEPT ![i] = pushes[i] + 1] BY <1>1
    <3>2. i \in 1..Len(pushes) BY <1>2, <2>2
    <3> DEFINE e == pushes[i] + 1
               S == 0..MaxPush
    <3>3. e \in S /\ pushes \in Seq(S) BY <1>3, <2>2
    <3> HIDE DEF e, S
    <3>4. /\ [pushes EXCEPT ![i] = e] \in Seq(S)
          /\ Len([pushes EXCEPT ![i] = e]) = Len(pushes)
      BY <3>2, <3>3, ExceptSeq
    <3>5. pushes' = [pushes EXCEPT ![i] = e] BY <3>1 DEF e
    <3>6. Len(pushes) = n BY <2>2
    <3>7. pushes' \in Seq(S) /\ Len(pushes') = n BY <3>4, <3>5, <3>6
    <3> QED BY <3>7 DEF S
  <2>4. pushes' \in [1..n -> 0..MaxPush] BY <2>3, LenProperties
  <2> QED BY <1>1, <1>2, <1>5, <2>1, <2>3, <2>4 DEF Typed, TypeOK, Fits, n
<1>7. AckedWasHandedOver' BY <1>1 DEF AckedWasHandedOver
<1>8. HandedBeforeAck' BY <1>1 DEF HandedBeforeAck
<1>9. StoredOnce' BY <1>1 DEF StoredOnce
<1>10. PushedIfSeen'
  <2>1. \A k \in DOMAIN pending' : pushes'[pending'[k]] > 0
    BY <1>2, <1>4, <1>5 DEF Extends, PushedIfSeen
  <2>2. \A j \in DOMAIN handed : pushes'[handed[j]] > 0
    BY <1>2, <1>4 DEF PushedIfSeen
  <2>3. Carried => at # 0 /\ pushes'[at] > 0
    BY <1>2, <1>4 DEF PushedIfSeen
  <2> QED BY <1>1, <2>1, <2>2, <2>3 DEF PushedIfSeen, Carried
<1>11. PushedAgainIfSeenTwice'
  <2>1. ASSUME NEW j \in DOMAIN pending', NEW k \in DOMAIN pending',
               j # k, pending'[j] = pending'[k]
        PROVE  pushes'[pending'[k]] > 1
    <3>1. CASE pending' = pending
      BY <1>2, <1>4, <2>1, <3>1 DEF PushedAgainIfSeenTwice
    <3>2. CASE Extends(pending', pending, i)
      <4>1. /\ \/ j \in DOMAIN pending /\ pending'[j] = pending[j]
               \/ j = Len(pending) + 1 /\ pending'[j] = i
            /\ \/ k \in DOMAIN pending /\ pending'[k] = pending[k]
               \/ k = Len(pending) + 1 /\ pending'[k] = i
        BY <3>2 DEF Extends
      <4>2. CASE j \in DOMAIN pending /\ k \in DOMAIN pending
                 /\ pending'[j] = pending[j] /\ pending'[k] = pending[k]
        BY <1>2, <1>4, <2>1, <4>2 DEF PushedAgainIfSeenTwice
      <4>3. CASE j \in DOMAIN pending /\ pending'[j] = pending[j]
                 /\ pending'[k] = i
        BY <1>2, <1>4, <2>1, <4>3 DEF PushedIfSeen
      <4>4. CASE k \in DOMAIN pending /\ pending'[k] = pending[k]
                 /\ pending'[j] = i
        BY <1>2, <1>4, <2>1, <4>4 DEF PushedIfSeen
      <4> QED BY <2>1, <4>1, <4>2, <4>3, <4>4
    <3> QED BY <1>5, <3>1, <3>2
  <2>2. \A j, k \in DOMAIN handed :
          j # k /\ handed[j] = handed[k] => pushes'[handed[k]] > 1
    BY <1>2, <1>4 DEF PushedAgainIfSeenTwice
  <2>3. ASSUME NEW j \in DOMAIN handed, NEW k \in DOMAIN pending',
               handed[j] = pending'[k]
        PROVE  pushes'[pending'[k]] > 1
    BY <1>2, <1>4, <1>5, <2>3 DEF Extends, PushedAgainIfSeenTwice, PushedIfSeen
  <2>4. ASSUME Carried, NEW k \in DOMAIN pending', pending'[k] = at
        PROVE  pushes'[at] > 1
    BY <1>2, <1>4, <1>5, <2>4 DEF Extends, PushedAgainIfSeenTwice, PushedIfSeen
  <2>5. Carried => \A j \in DOMAIN handed : handed[j] = at => pushes'[at] > 1
    BY <1>2, <1>4 DEF PushedAgainIfSeenTwice
  <2> QED BY <1>1, <2>1, <2>2, <2>3, <2>4, <2>5
          DEF PushedAgainIfSeenTwice, Carried
<1> QED BY <1>6, <1>7, <1>8, <1>9, <1>10, <1>11
----------------------------------------------------------------------------
LEMMA NextInv == IInv /\ [Next]_vars => IInv'
<1> SUFFICES ASSUME IInv, [Next]_vars PROVE IInv' OBVIOUS
<1>1. ASSUME NEW m \in Messages, Publish(m) PROVE IInv' BY <1>1, PublishKeeps
<1>2. CASE Broker BY <1>2, PushKeeps DEF Broker
<1>3. CASE HandlerStep
  BY <1>3, TakeKeeps, SendKeeps, AckKeeps DEF HandlerStep
<1>4. CASE Reader BY <1>4, ReaderKeeps
<1>5. CASE Forget BY <1>5, ForgetKeeps
<1>6. CASE UNCHANGED vars
  <2>1. UNCHANGED <<transport, exactlyOnce, published, accepted, stream, pushes,
                    acked, forgotten, late, pending, at, step, messages, errors,
                    handed>>
    BY <1>6 DEF vars, config, publisher, broker, window, channels
  <2>2. Typed' BY <2>1 DEF IInv, Typed, TypeOK, Positions, Fits
  <2> QED BY <2>1, <2>2, IdleStep
<1> QED BY <1>1, <1>2, <1>3, <1>4, <1>5, <1>6 DEF Extends, Next

LEMMA InvHolds == Spec => []IInv
BY InitInv, NextInv, PTL DEF Spec

(* The values keep their types, and neither channel holds more than its     *)
(* capacity, or the one value in hand when it is unbuffered.                *)
THEOREM TypeCorrect == Spec => []TypeOK
<1>1. IInv => TypeOK BY DEF IInv, Typed
<1> QED BY <1>1, InvHolds, PTL

(* The handler of Subscribe acknowledges a message only after its send to   *)
(* the messages or the errors channel (client.go:173-197).                  *)
THEOREM NoAckBeforeHandOver == Spec => []AckedWasHandedOver
<1>1. IInv => AckedWasHandedOver BY DEF IInv
<1> QED BY <1>1, InvHolds, PTL

(* With ExactlyOnce a message published again does not reach the            *)
(* application again: only a push that is repeated, or a broker that has    *)
(* forgotten the message's id, does that.                                   *)
THEOREM PublishedAgainArrivesOnce == Spec => []TwiceOnlyIfPushedAgain
<1>1. IInv => TwiceOnlyIfPushedAgain
  <2> SUFFICES ASSUME IInv, transport = "jetstream", exactlyOnce,
                      NEW j \in DOMAIN handed, NEW k \in DOMAIN handed,
                      j # k, stream[handed[j]] = stream[handed[k]]
               PROVE  \/ handed[j] = handed[k] /\ pushes[handed[k]] > 1
                      \/ handed[j] < handed[k] /\ handed[k] \in late
                      \/ handed[k] < handed[j] /\ handed[j] \in late
    BY DEF TwiceOnlyIfPushedAgain
  <2>1. /\ handed[j] \in DOMAIN stream /\ handed[k] \in DOMAIN stream
        /\ handed[j] \in Int /\ handed[k] \in Int
    BY Shape DEF IInv
  <2>2. CASE handed[j] = handed[k]
    BY <2>2 DEF IInv, PushedAgainIfSeenTwice
  <2>3. CASE handed[j] < handed[k] BY <2>1, <2>3 DEF IInv, StoredOnce
  <2>4. CASE handed[k] < handed[j] BY <2>1, <2>4 DEF IInv, StoredOnce
  <2> QED BY <2>1, <2>2, <2>3, <2>4
<1> QED BY <1>1, InvHolds, PTL
=============================================================================
