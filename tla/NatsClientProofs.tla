--------------------------- MODULE NatsClientProofs ---------------------------
(* Proofs about NatsClient for every set of topics and calls and any bound  *)
(* on the attempts to connect.                                              *)
EXTENDS NatsClient, TLAPS

RecordedUnderItsTopic == \A t \in Topics : \A s \in record[t] : s.topic = t

NoRecordBeforeConnect == conn = "none" => \A t \in Topics : record[t] = {}

(* An Unsubscribe without an error so far has silenced the topics it is     *)
(* done with.                                                               *)
Silenced ==
  \A c \in mutex : Kind[c] = "unsubscribe" /\ ~errs =>
     \A s \in live : s.topic \in Args[c] \ todo => s \in hidden

IInv == /\ TypeOK /\ RecordedUnderItsTopic
        /\ NoRecordBeforeConnect /\ LiveIsReachable /\ RecordIsLive /\ Silenced

CallStates == {"idle", "locking", "working", "ok", "error"}

(* What a step does to the call at work: it returns, or goes on with one    *)
(* topic less.                                                              *)
Goes(c, t, failed) ==
  \/ mutex' = {} /\ call'[c] # "working"
  \/ /\ mutex' = mutex /\ call' = call
     /\ todo' = todo \ {t} /\ errs' = failed

USE DEF link, work

LEMMA ReturnStep ==
  ASSUME TypeOK, NEW c \in Calls, mutex = {c},
         NEW result \in {"ok", "error"}, Return(c, result)
  PROVE  /\ call' \in [Calls -> CallStates]
         /\ mutex' = {} /\ todo' = {} /\ errs' = FALSE
         /\ call'[c] = result
         /\ HolderWorks'
  BY DEF TypeOK, HolderWorks, Return, CallStates

LEMMA ProceedStep ==
  ASSUME TypeOK, NEW c \in Calls, mutex = {c},
         NEW t \in todo, NEW failed \in BOOLEAN, Proceed(c, t, failed)
  PROVE  /\ call' \in [Calls -> CallStates]
         /\ mutex' \subseteq Calls /\ todo' \subseteq Topics
         /\ errs' \in BOOLEAN
         /\ Goes(c, t, failed)
         /\ call'[c] = "ok" => ~failed /\ todo = {t}
         /\ HolderWorks'
<1>1. CASE todo = {t}
  <2> DEFINE result == IF failed THEN "error" ELSE "ok"
  <2>1. result \in {"ok", "error"} OBVIOUS
  <2>2. Return(c, result) BY <1>1 DEF Proceed
  <2>3. /\ call' \in [Calls -> CallStates]
        /\ mutex' = {} /\ todo' = {} /\ errs' = FALSE
        /\ call'[c] = result
        /\ HolderWorks'
    <3> HIDE DEF result
    <3> QED BY <2>1, <2>2, ReturnStep
  <2> QED BY <1>1, <2>3 DEF Goes
<1>2. CASE todo # {t}
  <2>1. /\ todo' = todo \ {t} /\ errs' = failed
        /\ call' = call /\ mutex' = mutex
    BY <1>2 DEF Proceed
  <2>2. call[c] = "working" BY DEF TypeOK, HolderWorks
  <2> QED BY <2>1, <2>2 DEF TypeOK, HolderWorks, Goes, CallStates
<1> QED BY <1>1, <1>2

LEMMA TypeStep ==
  ASSUME TypeOK, [Next]_vars
  PROVE  TypeOK'
<1> USE CallShape, DialBound
<1> SUFFICES ASSUME ~UNCHANGED vars PROVE TypeOK'
  BY DEF vars, TypeOK, HolderWorks
<1>1. CASE Connect
  BY <1>1 DEF Connect, NewConnection, TypeOK, HolderWorks
<1>2. CASE Disconnect BY <1>2 DEF Disconnect, TypeOK, HolderWorks
<1>3. CASE Closed BY <1>3 DEF Closed, TypeOK, HolderWorks
<1>4. ASSUME NEW c \in Calls, StartCall(c) PROVE TypeOK'
  BY <1>4 DEF StartCall, TypeOK, HolderWorks
<1>5. ASSUME NEW c \in Calls, Lock(c) PROVE TypeOK'
  BY <1>5 DEF Lock, TypeOK, HolderWorks
<1>6. ASSUME NEW c \in Calls, SubscribeTopic(c) PROVE TypeOK'
  <2>1. PICK t \in todo :
          LET s == [call |-> c, topic |-> t] IN
          /\ live' = live \union {s}
          /\ record' = [record EXCEPT ![t] = {s}]
          /\ hidden' = hidden \union record[t]
          /\ Proceed(c, t, FALSE)
    BY <1>6 DEF SubscribeTopic
  <2>2. mutex = {c} /\ UNCHANGED link BY <1>6 DEF SubscribeTopic
  <2>3. t \in Topics /\ [call |-> c, topic |-> t] \in Subscriptions
    BY DEF TypeOK, Subscriptions
  <2>4. /\ live' \subseteq Subscriptions /\ hidden' \subseteq Subscriptions
        /\ record' \in [Topics -> SUBSET Subscriptions]
    BY <2>1, <2>3 DEF TypeOK
  <2> QED BY <2>1, <2>2, <2>4, ProceedStep DEF TypeOK, CallStates
<1>7. ASSUME NEW c \in Calls, SubscribeFails(c) PROVE TypeOK'
  BY <1>7, ReturnStep DEF SubscribeFails, TypeOK, CallStates
<1>8. ASSUME NEW c \in Calls, UnsubscribeTopic(c)
      PROVE  TypeOK'
  <2>1. PICK t \in todo : /\ live' = live \ record[t]
                          /\ record' = [record EXCEPT ![t] = {}]
                          /\ Proceed(c, t, errs)
    BY <1>8 DEF UnsubscribeTopic
  <2>2. mutex = {c} /\ UNCHANGED <<link, hidden>>
    BY <1>8 DEF UnsubscribeTopic
  <2>3. live' \subseteq Subscriptions
        /\ record' \in [Topics -> SUBSET Subscriptions]
    BY <2>1 DEF TypeOK
  <2>4. errs \in BOOLEAN BY DEF TypeOK
  <2> QED BY <2>1, <2>2, <2>3, <2>4, ProceedStep DEF TypeOK, CallStates
<1>9. ASSUME NEW c \in Calls, UnsubscribeFails(c) \/ ConsumerStays(c)
      PROVE  TypeOK'
  <2>1. PICK t \in todo : /\ live' \subseteq live
                          /\ Proceed(c, t, TRUE)
    BY <1>9 DEF UnsubscribeFails, ConsumerStays
  <2>2. mutex = {c} /\ UNCHANGED <<link, record, hidden>>
    BY <1>9 DEF UnsubscribeFails, ConsumerStays
  <2> QED BY <2>1, <2>2, ProceedStep DEF TypeOK, CallStates
<1> QED
  BY <1>1, <1>2, <1>3, <1>4, <1>5, <1>6, <1>7, <1>8, <1>9 DEF Next, Work

(* The steps outside the loops do not touch the records or the history, and *)
(* start no subscription.                                                   *)
LEMMA OuterSteps ==
  ASSUME [Next]_vars,
         ~ \E c \in Calls : \/ SubscribeTopic(c) \/ UnsubscribeTopic(c)
                            \/ UnsubscribeFails(c) \/ ConsumerStays(c)
  PROVE  /\ UNCHANGED <<transport, record, hidden>>
         /\ live' = live \/ (live' = {} /\ conn' = "closed")
         /\ conn' = "none" => conn = "none"
         /\ conn' = "open" => conn \in {"open", "none"} /\ live' = live
  BY DEF Next, vars, Work, Connect, NewConnection, Disconnect, Closed,
         StartCall, Lock, SubscribeFails

(* An Unsubscribe that fails keeps the records. *)
LEMMA FailedUnsubscribe ==
  ASSUME NEW c \in Calls, UnsubscribeFails(c) \/ ConsumerStays(c)
  PROVE  /\ UNCHANGED <<link, record, hidden>>
         /\ live' \subseteq live
         /\ transport = "jetstream" \/ live' = live
  BY DEF UnsubscribeFails, ConsumerStays

LEMMA RecordStep ==
  ASSUME TypeOK, RecordedUnderItsTopic, NoRecordBeforeConnect, [Next]_vars
  PROVE  RecordedUnderItsTopic' /\ NoRecordBeforeConnect'
<1> USE DEF RecordedUnderItsTopic, NoRecordBeforeConnect
<1>1. ASSUME NEW c \in Calls, SubscribeTopic(c)
      PROVE  RecordedUnderItsTopic' /\ NoRecordBeforeConnect'
  <2>1. PICK t \in todo :
          record' = [record EXCEPT ![t] = {[call |-> c, topic |-> t]}]
    BY <1>1 DEF SubscribeTopic
  <2>2. conn' = "open" BY <1>1 DEF SubscribeTopic
  <2> QED BY <2>1, <2>2 DEF TypeOK
<1>2. ASSUME NEW c \in Calls, UnsubscribeTopic(c)
      PROVE  RecordedUnderItsTopic' /\ NoRecordBeforeConnect'
  <2>1. PICK t \in todo : record' = [record EXCEPT ![t] = {}]
    BY <1>2 DEF UnsubscribeTopic
  <2>2. UNCHANGED conn BY <1>2 DEF UnsubscribeTopic
  <2> QED BY <2>1, <2>2 DEF TypeOK
<1>3. ASSUME NEW c \in Calls, UnsubscribeFails(c) \/ ConsumerStays(c)
      PROVE  RecordedUnderItsTopic' /\ NoRecordBeforeConnect'
  BY <1>3, FailedUnsubscribe
<1> QED BY <1>1, <1>2, <1>3, OuterSteps

LEMMA LiveStep ==
  ASSUME TypeOK, RecordedUnderItsTopic, LiveIsReachable, [Next]_vars
  PROVE  LiveIsReachable'
<1> USE DEF LiveIsReachable, Recorded
<1>1. ASSUME NEW c \in Calls, SubscribeTopic(c) PROVE LiveIsReachable'
  <2>1. PICK t \in todo :
          /\ live' = live \union {[call |-> c, topic |-> t]}
          /\ record' = [record EXCEPT ![t] = {[call |-> c, topic |-> t]}]
          /\ hidden' = hidden \union record[t]
    BY <1>1 DEF SubscribeTopic
  <2>2. ASSUME NEW s \in live'
        PROVE  s \in hidden' \/ \E u \in Topics : s \in record'[u]
    BY <2>1, <2>2 DEF TypeOK
  <2> QED BY <2>2
<1>2. ASSUME NEW c \in Calls, UnsubscribeTopic(c) PROVE LiveIsReachable'
  <2>1. PICK t \in todo : /\ live' = live \ record[t]
                          /\ record' = [record EXCEPT ![t] = {}]
    BY <1>2 DEF UnsubscribeTopic
  <2>2. UNCHANGED hidden BY <1>2 DEF UnsubscribeTopic
  <2>3. ASSUME NEW s \in live'
        PROVE  s \in hidden' \/ \E u \in Topics : s \in record'[u]
    BY <2>1, <2>2, <2>3 DEF TypeOK
  <2> QED BY <2>3
<1>3. ASSUME NEW c \in Calls, UnsubscribeFails(c) \/ ConsumerStays(c)
      PROVE  LiveIsReachable'
  BY <1>3, FailedUnsubscribe
<1> QED BY <1>1, <1>2, <1>3, OuterSteps

LEMMA RecordLiveStep ==
  ASSUME TypeOK, RecordedUnderItsTopic, NoRecordBeforeConnect, RecordIsLive,
         [Next]_vars
  PROVE  RecordIsLive'
<1> USE DEF RecordIsLive, Recorded
<1>1. ASSUME NEW c \in Calls, SubscribeTopic(c) PROVE RecordIsLive'
  <2>1. PICK t \in todo :
          /\ live' = live \union {[call |-> c, topic |-> t]}
          /\ record' = [record EXCEPT ![t] = {[call |-> c, topic |-> t]}]
    BY <1>1 DEF SubscribeTopic
  <2>2. UNCHANGED link BY <1>1 DEF SubscribeTopic
  <2> QED BY <2>1, <2>2 DEF TypeOK
<1>2. ASSUME NEW c \in Calls, UnsubscribeTopic(c) PROVE RecordIsLive'
  <2>1. PICK t \in todo : /\ live' = live \ record[t]
                          /\ record' = [record EXCEPT ![t] = {}]
    BY <1>2 DEF UnsubscribeTopic
  <2>2. UNCHANGED link BY <1>2 DEF UnsubscribeTopic
  <2>3. ASSUME NEW u \in Topics, NEW s \in record'[u]
        PROVE  s \in record[u] /\ s \notin record[t]
    BY <2>1 DEF TypeOK, RecordedUnderItsTopic
  <2> QED BY <2>1, <2>2, <2>3
<1>3. ASSUME NEW c \in Calls, UnsubscribeFails(c) \/ ConsumerStays(c)
      PROVE  RecordIsLive'
  BY <1>3, FailedUnsubscribe
<1> QED
  <2>1. CASE conn' = "open" /\ conn = "none"
             /\ UNCHANGED <<transport, record, live>>
    BY <2>1 DEF NoRecordBeforeConnect
  <2> QED BY <1>1, <1>2, <1>3, <2>1, OuterSteps

(* What an Unsubscribe has silenced stays so: the mutex keeps a Subscribe   *)
(* of the same topic away until it has returned.                            *)
LEMMA SilencedStep ==
  ASSUME TypeOK, RecordedUnderItsTopic, LiveIsReachable, Silenced,
         [Next]_vars
  PROVE  Silenced'
<1> USE DEF Silenced
<1>1. ASSUME NEW c \in Calls, Lock(c) PROVE Silenced'
  BY <1>1 DEF Lock
<1>2. ASSUME NEW c \in Calls, SubscribeTopic(c) PROVE Silenced'
  <2>1. mutex = {c} /\ Kind[c] = "subscribe" BY <1>2 DEF SubscribeTopic
  <2>2. \E t \in todo : Proceed(c, t, FALSE) BY <1>2 DEF SubscribeTopic
  <2>3. mutex' \subseteq {c} BY <2>1, <2>2 DEF Proceed, Return
  <2> QED BY <2>1, <2>3
<1>3. ASSUME NEW c \in Calls, SubscribeFails(c) PROVE Silenced'
  BY <1>3 DEF SubscribeFails, Return
<1>4. ASSUME NEW c \in Calls, UnsubscribeTopic(c) PROVE Silenced'
  <2>1. PICK t \in todo : /\ live' = live \ record[t]
                          /\ Proceed(c, t, errs)
    BY <1>4 DEF UnsubscribeTopic
  <2>2. mutex = {c} /\ UNCHANGED hidden BY <1>4 DEF UnsubscribeTopic
  <2>3. Goes(c, t, errs) BY <2>1, <2>2, ProceedStep DEF TypeOK
  <2>4. ASSUME NEW s \in live', s.topic = t PROVE s \in hidden
    BY <2>1, <2>4 DEF LiveIsReachable, Recorded, RecordedUnderItsTopic
  <2> QED BY <2>1, <2>2, <2>3, <2>4 DEF Goes
<1>5. ASSUME NEW c \in Calls, UnsubscribeFails(c) \/ ConsumerStays(c)
      PROVE  Silenced'
  <2>1. PICK t \in todo : Proceed(c, t, TRUE)
    BY <1>5 DEF UnsubscribeFails, ConsumerStays
  <2>2. mutex = {c} BY <1>5 DEF UnsubscribeFails, ConsumerStays
  <2>3. Goes(c, t, TRUE) BY <2>1, <2>2, ProceedStep
  <2> QED BY <2>3 DEF Goes
<1>6. ASSUME NEW c \in Calls, StartCall(c) PROVE Silenced'
  BY <1>6 DEF StartCall
<1>7. CASE Connect \/ Disconnect \/ Closed \/ UNCHANGED vars
  BY <1>7 DEF Connect, Disconnect, Closed, vars
<1> QED
  BY <1>1, <1>2, <1>3, <1>4, <1>5, <1>6, <1>7 DEF Next, Work

LEMMA Invariance == Spec => []IInv
<1>1. Init => IInv
  <2> SUFFICES ASSUME Init PROVE IInv OBVIOUS
  <2> USE DEF Init
  <2>1. TypeOK
    <3>1. dials \in 0..MaxDials /\ stray \in 0..dials BY DialBound
    <3>2. record \in [Topics -> SUBSET Subscriptions] OBVIOUS
    <3>3. HolderWorks BY DEF HolderWorks
    <3> QED BY <3>1, <3>2, <3>3 DEF TypeOK
  <2>2. Silenced BY DEF Silenced
  <2>3. /\ RecordedUnderItsTopic /\ NoRecordBeforeConnect
        /\ LiveIsReachable /\ RecordIsLive
    BY DEF RecordedUnderItsTopic, NoRecordBeforeConnect, LiveIsReachable,
           RecordIsLive
  <2> QED BY <2>1, <2>2, <2>3 DEF IInv
<1>2. IInv /\ [Next]_vars => IInv'
  BY TypeStep, RecordStep, LiveStep, RecordLiveStep, SilencedStep DEF IInv
<1> QED BY <1>1, <1>2, PTL DEF Spec

(* Every variable keeps its type, no more than one call is at work, and no  *)
(* more connections are left open than attempts were made.                  *)
THEOREM TypeCorrect == Spec => []TypeOK
<1>1. IInv => TypeOK BY DEF IInv
<1> QED BY <1>1, Invariance, PTL

(* No subscription of Subscribe is lost, whatever failed half way: it is    *)
(* recorded or was hidden by a later one of its topic.                      *)
THEOREM NoneLost == Spec => []LiveIsReachable
<1>1. IInv => LiveIsReachable BY DEF IInv
<1> QED BY <1>1, Invariance, PTL

(* existingSubscriptions has no leftovers while core NATS is connected.     *)
THEOREM NoLeftovers == Spec => []RecordIsLive
<1>1. IInv => RecordIsLive BY DEF IInv
<1> QED BY <1>1, Invariance, PTL

(* An Unsubscribe that returns nil has silenced its topics.                 *)
THEOREM UnsubscribeIsHonest == Spec => UnsubscribeHonest
<1> DEFINE Honest ==
      \A c \in Calls :
        Kind[c] = "unsubscribe" /\ call[c] = "working" /\ call'[c] = "ok"
          => \A s \in live' : s.topic \in Args[c] => s \in hidden
<1>1. IInv /\ [Next]_vars => [Honest]_vars
  <2> SUFFICES ASSUME IInv, [Next]_vars,
                      NEW c \in Calls, Kind[c] = "unsubscribe",
                      call[c] = "working", call'[c] = "ok",
                      NEW s \in live', s.topic \in Args[c]
               PROVE  s \in hidden
    OBVIOUS
  <2> USE DEF IInv
  <2>1. mutex = {c} BY DEF TypeOK, HolderWorks
  <2>2. PICK d \in Calls : UnsubscribeTopic(d) \/ UnsubscribeFails(d)
                           \/ ConsumerStays(d)
    BY <2>1 DEF Next, Work, vars, Connect, Disconnect, Closed, StartCall, Lock,
       SubscribeTopic, SubscribeFails, TypeOK
  <2>3. d = c
    BY <2>1, <2>2 DEF UnsubscribeTopic, UnsubscribeFails, ConsumerStays
  <2>4. CASE UnsubscribeFails(c) \/ ConsumerStays(c)
    <3>1. PICK t \in todo : Proceed(c, t, TRUE)
      BY <2>4 DEF UnsubscribeFails, ConsumerStays
    <3>2. call'[c] # "ok" BY <2>1, <3>1, ProceedStep
    <3> QED BY <3>2
  <2>5. CASE UnsubscribeTopic(c)
    <3>1. PICK t \in todo : live' = live \ record[t] /\ Proceed(c, t, errs)
      BY <2>5 DEF UnsubscribeTopic
    <3>2. ~errs /\ todo = {t} BY <2>1, <3>1, ProceedStep DEF TypeOK
    <3>3. CASE s.topic = t
      BY <3>1, <3>3 DEF LiveIsReachable, Recorded, RecordedUnderItsTopic
    <3>4. CASE s.topic # t BY <2>1, <3>1, <3>2, <3>4 DEF Silenced
    <3> QED BY <3>3, <3>4
  <2> QED BY <2>2, <2>3, <2>4, <2>5
<1> QED BY <1>1, Invariance, PTL DEF Spec, UnsubscribeHonest
=============================================================================
