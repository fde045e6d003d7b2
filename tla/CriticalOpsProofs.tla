-------------------------- MODULE CriticalOpsProofs --------------------------
(* Proofs about CriticalOps for every set of registrations, channels and    *)
(* waits.  Each part of the inductive invariant has a lemma of its own; the *)
(* theorems combine them.                                                   *)
EXTENDS CriticalOps, FiniteSetTheorems, TLAPS

(* The last Done is alone: nobody else is counted, and its waiters are      *)
(* still there to be released.                                              *)
WakingAlone ==
  \A o \in Ops : op[o] = "waking" =>
     /\ counter = 0 /\ waiters > 0
     /\ \A p \in Ops : op[p] = "waking" => p = o

(* Call and helper of a wait go together, and TRUE needs a finished helper. *)
WaitsPaired ==
  \A w \in Waits : /\ wait[w] = "idle" <=> helper[w] = "none"
                   /\ wait[w] = "true" => helper[w] = "done"

(* What a wait is owed is still receiving; nothing once its helper is done. *)
OwedRunning ==
  \A w \in Waits : /\ owed[w] \subseteq Receiving
                   /\ helper[w] = "done" => owed[w] = {}

(* Without an overlap a token outstanding means an idle WaitGroup.          *)
QuietWithoutOverlap ==
  ~overlapped /\ sema > 0 => counter = 0 /\ waiters = 0

IInv == /\ TypeOK /\ CounterExact /\ NoLostWakeup /\ WakingAlone
        /\ WaitsPaired /\ OwedRunning /\ QuietWithoutOverlap
        /\ PanicOnlyOnOverlap /\ MapMatchesOperations

USE DEF signals, group, history

LEMMA SubsetsFinite ==
  /\ \A S \in SUBSET Ops : IsFiniteSet(S) /\ Cardinality(S) \in Nat
  /\ \A S \in SUBSET Waits : IsFiniteSet(S) /\ Cardinality(S) \in Nat
  BY OpsFinite, WaitsFinite, FS_Subset, FS_CardinalityType

(* A counter of zero means that no registration is still counted. *)
LEMMA ZeroCounter ==
  ASSUME TypeOK, CounterExact
  PROVE  counter = 0 <=> Counted = {}
<1>1. Counted \in SUBSET Ops BY DEF Counted
<1> QED BY <1>1, SubsetsFinite, FS_EmptySet DEF CounterExact

LEMMA TypeStep ==
  ASSUME TypeOK, CounterExact, [Next]_vars
  PROVE  TypeOK'
<1> USE DEF TypeOK, OpStates, WaitStates, HelperStates
<1>1. CASE UNCHANGED vars BY <1>1 DEF vars
<1>2. ASSUME NEW s \in Signals, Send(s) PROVE TypeOK'
  BY <1>2 DEF Send
<1>3. ASSUME NEW s \in Signals, Close(s) PROVE TypeOK'
  BY <1>3 DEF Close
<1>4. ASSUME NEW o \in Ops, Register(o) PROVE TypeOK'
  <2>1. overlapped' \in BOOLEAN BY <1>4 DEF Register
  <2>2. CASE Panic BY <2>1, <2>2 DEF Panic
  <2>3. CASE ~Panic BY <1>4, <2>1, <2>3 DEF Register
  <2> QED BY <2>2, <2>3
<1>5. ASSUME NEW o \in Ops, Receive(o) PROVE TypeOK'
  BY <1>5 DEF Receive
<1>6. ASSUME NEW o \in Ops, Done(o) PROVE TypeOK'
  <2>1. counter - 1 \in Nat
    <3>1. o \in Counted BY <1>6 DEF Done, Counted
    <3> QED BY <3>1, ZeroCounter
  <2> QED BY <1>6, <2>1 DEF Done
<1>7. ASSUME NEW o \in Ops, Wake(o) PROVE TypeOK'
  BY <1>7 DEF Wake
<1>8. ASSUME NEW o \in Ops, Delete(o) PROVE TypeOK'
  BY <1>8 DEF Delete
<1>9. ASSUME NEW w \in Waits, Call(w) PROVE TypeOK'
  BY <1>9 DEF Call, Receiving
<1>10. ASSUME NEW w \in Waits, Enter(w) PROVE TypeOK'
  BY <1>10 DEF Enter
<1>11. ASSUME NEW w \in Waits, Awake(w) PROVE TypeOK'
  <2>1. CASE Panic BY <1>11, <2>1 DEF Awake, Panic
  <2>2. CASE ~Panic BY <1>11, <2>2 DEF Awake
  <2> QED BY <2>1, <2>2
<1>12. ASSUME NEW w \in Waits, ReturnTrue(w) PROVE TypeOK'
  BY <1>12 DEF ReturnTrue
<1>13. ASSUME NEW w \in Waits, ReturnFalse(w) PROVE TypeOK'
  BY <1>13 DEF ReturnFalse
<1> QED
  BY <1>1, <1>2, <1>3, <1>4, <1>5, <1>6, <1>7, <1>8, <1>9, <1>10, <1>11,
     <1>12, <1>13 DEF Next, OpNext, WaitNext

(* The steps that are no goroutine's of a registration. *)
LEMMA OtherSteps ==
  ASSUME [Next]_vars,
         ~ \E o \in Ops : OpNext(o)
  PROVE  UNCHANGED <<op, signalOf, criticalOperations, counter>>
<1>1. CASE UNCHANGED vars BY <1>1 DEF vars
<1>2. ASSUME NEW s \in Signals, Send(s) \/ Close(s)
      PROVE  UNCHANGED <<op, signalOf, criticalOperations, counter>>
  BY <1>2 DEF Send, Close
<1>3. ASSUME NEW w \in Waits, WaitNext(w)
      PROVE  UNCHANGED <<op, signalOf, criticalOperations, counter>>
  BY <1>3 DEF WaitNext, Call, Enter, Awake, Panic, ReturnTrue, ReturnFalse
<1> QED BY <1>1, <1>2, <1>3 DEF Next

(* Registering adds to the counted registrations the one that is counted,   *)
(* Done takes it away again, and no other step moves either.                *)
LEMMA CounterStep ==
  ASSUME TypeOK, CounterExact, [Next]_vars
  PROVE  CounterExact'
<1> USE DEF CounterExact
<1>0. IsFiniteSet(Counted) /\ Cardinality(Counted) \in Nat
  <2>1. Counted \in SUBSET Ops BY DEF Counted
  <2> QED BY <2>1, SubsetsFinite
<1>1. ASSUME NEW o \in Ops, Register(o) PROVE CounterExact'
  <2>1. CASE Panic
    <3>1. Counted' = Counted BY <2>1 DEF Panic, Counted
    <3> QED BY <2>1, <3>1 DEF Panic
  <2>2. CASE ~Panic
    <3>1. Counted' = Counted \union {o}
      BY <1>1, <2>2 DEF Register, Counted, TypeOK
    <3>2. o \notin Counted BY <1>1 DEF Register, Counted
    <3> QED BY <1>0, <1>1, <2>2, <3>1, <3>2, FS_AddElement DEF Register
  <2> QED BY <2>1, <2>2
<1>2. ASSUME NEW o \in Ops, Receive(o) \/ Wake(o) \/ Delete(o)
      PROVE  CounterExact'
  <2>1. Counted' = Counted
    BY <1>2 DEF Receive, Wake, Delete, Counted, TypeOK
  <2> QED BY <1>2, <2>1 DEF Receive, Wake, Delete
<1>3. ASSUME NEW o \in Ops, Done(o) PROVE CounterExact'
  <2>1. Counted' = Counted \ {o} BY <1>3 DEF Done, Counted, TypeOK
  <2>2. o \in Counted BY <1>3 DEF Done, Counted
  <2> QED BY <1>0, <1>3, <2>1, <2>2, FS_RemoveElement DEF Done
<1>4. CASE ~ \E o \in Ops : OpNext(o)
  <2>1. Counted' = Counted BY <1>4, OtherSteps DEF Counted
  <2> QED BY <1>4, <2>1, OtherSteps
<1> QED BY <1>1, <1>2, <1>3, <1>4 DEF OpNext

LEMMA WakingStep ==
  ASSUME TypeOK, CounterExact, WakingAlone, [Next]_vars
  PROVE  WakingAlone'
<1> USE DEF WakingAlone
<1>1. CASE UNCHANGED vars BY <1>1 DEF vars
<1>2. ASSUME NEW s \in Signals, Send(s) \/ Close(s) PROVE WakingAlone'
  BY <1>2 DEF Send, Close
<1>3. ASSUME NEW o \in Ops, Register(o) PROVE WakingAlone'
  <2>1. CASE Panic BY <2>1 DEF Panic
  <2>2. CASE ~Panic BY <1>3, <2>2 DEF Register, TypeOK
  <2> QED BY <2>1, <2>2
<1>4. ASSUME NEW o \in Ops, Receive(o) PROVE WakingAlone'
  BY <1>4 DEF Receive, TypeOK
<1>5. ASSUME NEW o \in Ops, Done(o) PROVE WakingAlone'
  <2>1. counter # 0
    <3>1. o \in Counted BY <1>5 DEF Done, Counted
    <3> QED BY <3>1, ZeroCounter
  <2>2. \A p \in Ops : op[p] # "waking" BY <2>1
  <2> QED BY <1>5, <2>2 DEF Done, TypeOK
<1>6. ASSUME NEW o \in Ops, Wake(o) \/ Delete(o) PROVE WakingAlone'
  BY <1>6 DEF Wake, Delete, TypeOK
<1>7. ASSUME NEW w \in Waits, Enter(w) PROVE WakingAlone'
  BY <1>7 DEF Enter, TypeOK
<1>8. ASSUME NEW w \in Waits, Awake(w) PROVE WakingAlone'
  BY <1>8 DEF Awake, Panic
<1>9. ASSUME NEW w \in Waits, Call(w) \/ ReturnTrue(w) \/ ReturnFalse(w)
      PROVE  WakingAlone'
  BY <1>9 DEF Call, ReturnTrue, ReturnFalse
<1> QED
  BY <1>1, <1>2, <1>3, <1>4, <1>5, <1>6, <1>7, <1>8, <1>9
     DEF Next, OpNext, WaitNext

LEMMA SleepersStep ==
  ASSUME TypeOK, WakingAlone, WaitsPaired, NoLostWakeup, [Next]_vars
  PROVE  NoLostWakeup'
<1> USE DEF NoLostWakeup
<1>0. IsFiniteSet(Asleep) /\ Cardinality(Asleep) \in Nat
  <2>1. Asleep \in SUBSET Waits BY DEF Asleep
  <2> QED BY <2>1, SubsetsFinite
<1>1. CASE UNCHANGED <<helper, group>> /\ UNCHANGED op
  <2>1. Asleep' = Asleep BY <1>1 DEF Asleep
  <2> QED BY <1>1, <2>1
<1>2. ASSUME NEW o \in Ops, OpNext(o) PROVE NoLostWakeup'
  <2>1. Asleep' = Asleep
    BY <1>2 DEF OpNext, Register, Panic, Receive, Done, Wake, Delete, Asleep
  <2>2. CASE Register(o)
    <3>1. CASE Panic BY <1>1, <3>1 DEF Panic
    <3>2. CASE ~Panic
      <4>1. /\ counter' = counter + 1
            /\ UNCHANGED <<waiters, sema>>
        BY <2>2, <3>2 DEF Register
      <4>2. counter' > 0 BY <4>1 DEF TypeOK
      <4> QED BY <2>1, <4>1, <4>2
    <3> QED BY <3>1, <3>2
  <2>5. CASE Receive(o) \/ Delete(o)
    <3>1. ASSUME NEW p \in Ops, op[p] = "waking" PROVE op'[p] = "waking"
      BY <2>5, <3>1 DEF Receive, Delete, TypeOK
    <3> QED BY <2>1, <2>5, <3>1 DEF Receive, Delete, TypeOK
  <2>3. CASE Done(o) BY <2>1, <2>3 DEF Done, TypeOK
  <2>4. CASE Wake(o) BY <2>1, <2>4 DEF Wake, TypeOK
  <2> QED BY <1>2, <2>2, <2>3, <2>4, <2>5 DEF OpNext
<1>3. ASSUME NEW w \in Waits, Enter(w) PROVE NoLostWakeup'
  <2>1. CASE counter = 0
    <3>1. Asleep' = Asleep BY <1>3, <2>1 DEF Enter, Asleep, TypeOK
    <3> QED BY <1>3, <2>1, <3>1 DEF Enter
  <2>2. CASE counter # 0
    <3>1. Asleep' = Asleep \union {w}
      BY <1>3, <2>2 DEF Enter, Asleep, TypeOK
    <3>2. w \notin Asleep BY <1>3 DEF Enter, Asleep
    <3>3. Cardinality(Asleep') = Cardinality(Asleep) + 1
      BY <1>0, <3>1, <3>2, FS_AddElement
    <3> QED BY <1>3, <2>2, <3>3 DEF Enter, TypeOK
  <2> QED BY <2>1, <2>2
<1>4. ASSUME NEW w \in Waits, Awake(w) PROVE NoLostWakeup'
  <2>1. CASE Panic BY <1>1, <2>1 DEF Panic
  <2>2. CASE ~Panic
    <3>1. Asleep' = Asleep \ {w} BY <1>4, <2>2 DEF Awake, Asleep, TypeOK
    <3>2. w \in Asleep BY <1>4 DEF Awake, Asleep
    <3>3. Cardinality(Asleep') = Cardinality(Asleep) - 1
      BY <1>0, <3>1, <3>2, FS_RemoveElement
    <3> QED BY <1>4, <2>2, <3>3 DEF Awake, TypeOK
  <2> QED BY <2>1, <2>2
<1>5. ASSUME NEW w \in Waits, Call(w) PROVE NoLostWakeup'
  <2>1. helper[w] = "none" BY <1>5 DEF Call, WaitsPaired
  <2>2. Asleep' = Asleep BY <1>5, <2>1 DEF Call, Asleep, TypeOK
  <2> QED BY <1>5, <2>2 DEF Call
<1>6. ASSUME NEW w \in Waits, ReturnTrue(w) \/ ReturnFalse(w)
      PROVE  NoLostWakeup'
  BY <1>1, <1>6 DEF ReturnTrue, ReturnFalse
<1>7. ASSUME NEW s \in Signals, Send(s) \/ Close(s) PROVE NoLostWakeup'
  BY <1>1, <1>7 DEF Send, Close
<1> QED BY <1>1, <1>2, <1>3, <1>4, <1>5, <1>6, <1>7 DEF Next, WaitNext, vars

LEMMA WaitsStep ==
  ASSUME TypeOK, WaitsPaired, [Next]_vars
  PROVE  WaitsPaired'
<1> USE DEF WaitsPaired, TypeOK, WaitStates, HelperStates
<1>1. CASE UNCHANGED <<wait, helper>> BY <1>1
<1>2. ASSUME NEW w \in Waits, WaitNext(w) PROVE WaitsPaired'
  <2>1. CASE Awake(w)
    <3>1. CASE Panic BY <1>1, <3>1 DEF Panic
    <3>2. CASE ~Panic BY <2>1, <3>2 DEF Awake
    <3> QED BY <3>1, <3>2
  <2>2. CASE Call(w) \/ Enter(w) BY <2>2 DEF Call, Enter
  <2>3. CASE ReturnTrue(w) BY <2>3 DEF ReturnTrue
  <2>4. CASE ReturnFalse(w) BY <2>4 DEF ReturnFalse
  <2> QED BY <1>2, <2>1, <2>2, <2>3, <2>4 DEF WaitNext
<1>3. ASSUME NEW o \in Ops, OpNext(o) PROVE WaitsPaired'
  BY <1>1, <1>3
     DEF OpNext, Register, Panic, Receive, Done, Wake, Delete
<1>4. ASSUME NEW s \in Signals, Send(s) \/ Close(s) PROVE WaitsPaired'
  BY <1>1, <1>4 DEF Send, Close
<1> QED BY <1>1, <1>2, <1>3, <1>4 DEF Next, vars

(* A helper gets past WaitGroup.Wait only at a counter of zero, when no     *)
(* registration is receiving any more.                                      *)
LEMMA OwedStep ==
  ASSUME TypeOK, CounterExact, OwedRunning, [Next]_vars
  PROVE  OwedRunning'
<1> USE DEF OwedRunning, Receiving
<1>0. counter = 0 => \A w \in Waits : owed[w] = {}
  BY ZeroCounter DEF Counted
<1>1. CASE UNCHANGED <<op, helper, owed>> BY <1>1
<1>2. ASSUME NEW o \in Ops, OpNext(o) PROVE OwedRunning'
  <2>1. CASE Register(o)
    <3>1. CASE Panic BY <1>1, <3>1 DEF Panic
    <3>2. CASE ~Panic BY <2>1, <3>2 DEF Register, TypeOK
    <3> QED BY <3>1, <3>2
  <2>2. CASE Receive(o) BY <2>2 DEF Receive, TypeOK
  <2>3. CASE Done(o) \/ Wake(o) \/ Delete(o)
    <3>1. /\ \A p \in Ops : op[p] = "receiving" => op'[p] = "receiving"
          /\ UNCHANGED <<helper, owed>>
      BY <2>3 DEF Done, Wake, Delete, TypeOK
    <3> QED BY <3>1
  <2> QED BY <1>2, <2>1, <2>2, <2>3 DEF OpNext
<1>3. ASSUME NEW w \in Waits, Call(w) PROVE OwedRunning'
  BY <1>3 DEF Call, TypeOK
<1>4. ASSUME NEW w \in Waits, Enter(w) PROVE OwedRunning'
  BY <1>0, <1>4 DEF Enter, TypeOK
<1>5. ASSUME NEW w \in Waits, Awake(w) PROVE OwedRunning'
  <2>1. CASE Panic BY <1>1, <2>1 DEF Panic
  <2>2. CASE ~Panic BY <1>0, <1>5, <2>2 DEF Awake, TypeOK
  <2> QED BY <2>1, <2>2
<1>6. ASSUME NEW w \in Waits, ReturnTrue(w) \/ ReturnFalse(w)
      PROVE  OwedRunning'
  BY <1>1, <1>6 DEF ReturnTrue, ReturnFalse
<1>7. ASSUME NEW s \in Signals, Send(s) \/ Close(s) PROVE OwedRunning'
  BY <1>1, <1>7 DEF Send, Close
<1> QED BY <1>1, <1>2, <1>3, <1>4, <1>5, <1>6, <1>7 DEF Next, WaitNext, vars

(* A token or a counted waiter means a helper asleep, so that a             *)
(* registration in its presence is an overlap.                              *)
LEMMA OverlapStep ==
  ASSUME TypeOK, CounterExact, NoLostWakeup, WakingAlone,
         QuietWithoutOverlap, PanicOnlyOnOverlap, [Next]_vars
  PROVE  QuietWithoutOverlap' /\ PanicOnlyOnOverlap'
<1> USE DEF QuietWithoutOverlap, PanicOnlyOnOverlap
<1> DEFINE Goal == QuietWithoutOverlap' /\ PanicOnlyOnOverlap'
<1>0. waiters + sema > 0 => Asleep # {}
  BY FS_EmptySet DEF NoLostWakeup
<1>1. CASE UNCHANGED <<group, panicked, overlapped>> BY <1>1
<1>2. ASSUME NEW o \in Ops, Register(o) PROVE Goal
  <2>0. /\ overlapped' <=> (overlapped \/ Asleep # {})
        /\ Panic => waiters > 0 \/ (counter' = counter + 1 /\ panicked' = panicked)
    BY <1>2 DEF Register
  <2>1. CASE Panic
    <3>1. UNCHANGED group BY <2>1 DEF Panic
    <3>2. CASE waiters > 0
      <4>1. waiters + sema > 0 BY <3>2 DEF TypeOK
      <4>2. overlapped' BY <1>0, <2>0, <4>1
      <4> QED BY <4>2
    <3>3. CASE ~(waiters > 0)
      <4>1. counter' = counter + 1 BY <2>0, <2>1, <3>3
      <4> QED BY <3>1, <4>1 DEF TypeOK
    <3> QED BY <3>2, <3>3
  <2>2. CASE ~Panic
    <3>1. UNCHANGED <<waiters, sema, panicked>> BY <1>2, <2>2 DEF Register
    <3>2. overlapped => overlapped' BY <2>0
    <3>3. CASE sema > 0
      <4>1. waiters + sema > 0 BY <3>3 DEF TypeOK
      <4>2. overlapped' BY <1>0, <2>0, <4>1
      <4> QED BY <4>2
    <3> QED BY <3>1, <3>2, <3>3
  <2> QED BY <2>1, <2>2
<1>3. ASSUME NEW o \in Ops, Receive(o) \/ Delete(o) PROVE Goal
  BY <1>1, <1>3 DEF Receive, Delete
<1>4. ASSUME NEW o \in Ops, Done(o) PROVE Goal
  <2>1. counter # 0
    <3>1. o \in Counted BY <1>4 DEF Done, Counted
    <3> QED BY <3>1, ZeroCounter
  <2> QED BY <1>4, <2>1 DEF Done, TypeOK
<1>5. ASSUME NEW o \in Ops, Wake(o) PROVE Goal
  BY <1>5 DEF Wake, WakingAlone, TypeOK
<1>6. ASSUME NEW w \in Waits, Enter(w) PROVE Goal
  BY <1>6 DEF Enter, TypeOK
<1>7. ASSUME NEW w \in Waits, Awake(w) PROVE Goal
  <2>1. CASE Panic
    <3>1. sema > 0 /\ UNCHANGED <<group, overlapped>>
      BY <1>7, <2>1 DEF Awake, Panic
    <3>2. CASE counter # 0 \/ waiters # 0 BY <3>1, <3>2
    <3>3. CASE ~(counter # 0 \/ waiters # 0)
      BY <1>7, <3>1, <3>3 DEF Awake, TypeOK
    <3> QED BY <3>2, <3>3
  <2>2. CASE ~Panic BY <1>7, <2>2 DEF Awake, TypeOK
  <2> QED BY <2>1, <2>2
<1>8. ASSUME NEW w \in Waits, Call(w) \/ ReturnTrue(w) \/ ReturnFalse(w)
      PROVE  Goal
  BY <1>1, <1>8 DEF Call, ReturnTrue, ReturnFalse
<1>9. ASSUME NEW s \in Signals, Send(s) \/ Close(s) PROVE Goal
  BY <1>1, <1>9 DEF Send, Close
<1> QED
  BY <1>1, <1>2, <1>3, <1>4, <1>5, <1>6, <1>7, <1>8, <1>9
     DEF Next, OpNext, WaitNext, vars

LEMMA MapStep ==
  ASSUME TypeOK, MapMatchesOperations, [Next]_vars
  PROVE  MapMatchesOperations'
<1> USE DEF MapMatchesOperations, Alive
<1>1. CASE UNCHANGED <<op, signalOf, criticalOperations>> BY <1>1
<1>2. ASSUME NEW o \in Ops, Register(o) PROVE MapMatchesOperations'
  <2>1. CASE Panic BY <1>1, <2>1 DEF Panic
  <2>2. CASE ~Panic BY <1>2, <2>2 DEF Register, TypeOK
  <2> QED BY <2>1, <2>2
<1>3. ASSUME NEW o \in Ops, Receive(o) \/ Done(o) \/ Wake(o)
      PROVE  MapMatchesOperations'
  <2>1. /\ Alive' = Alive
        /\ UNCHANGED <<signalOf, criticalOperations>>
    BY <1>3 DEF Receive, Done, Wake, TypeOK
  <2> QED BY <2>1
<1>4. ASSUME NEW o \in Ops, Delete(o) PROVE MapMatchesOperations'
  <2>1. /\ Alive' = Alive \ {o} /\ o \in Alive
        /\ criticalOperations' = criticalOperations \ {signalOf[o]}
        /\ UNCHANGED signalOf
    BY <1>4 DEF Delete, TypeOK
  <2>2. \A s \in criticalOperations' : \E p \in Alive' : signalOf'[p] = s
    BY <2>1
  <2>3. ASSUME NEW p \in Alive',
               \A q \in Ops \ {p} : signalOf'[q] # signalOf'[p]
        PROVE  signalOf'[p] \in criticalOperations'
    BY <2>1, <2>3
  <2> QED BY <2>2, <2>3
<1>5. CASE ~ \E o \in Ops : OpNext(o) BY <1>1, <1>5, OtherSteps
<1> QED BY <1>1, <1>2, <1>3, <1>4, <1>5 DEF OpNext
-----------------------------------------------------------------------------
LEMMA InitIInv == Init => IInv
<1> SUFFICES ASSUME Init PROVE IInv OBVIOUS
<1> USE DEF Init
<1>1. TypeOK BY DEF TypeOK, OpStates, WaitStates, HelperStates
<1>2. Counted = {} /\ Asleep = {} /\ Alive = {}
  BY DEF Counted, Asleep, Alive
<1>3. CounterExact /\ NoLostWakeup /\ MapMatchesOperations
  BY <1>2, FS_EmptySet DEF CounterExact, NoLostWakeup, MapMatchesOperations
<1>4. WakingAlone /\ WaitsPaired /\ OwedRunning
  BY DEF WakingAlone, WaitsPaired, OwedRunning
<1>5. QuietWithoutOverlap /\ PanicOnlyOnOverlap
  BY DEF QuietWithoutOverlap, PanicOnlyOnOverlap
<1> QED BY <1>1, <1>3, <1>4, <1>5 DEF IInv

LEMMA NextIInv == IInv /\ [Next]_vars => IInv'
  BY TypeStep, CounterStep, WakingStep, SleepersStep, WaitsStep, OwedStep,
     OverlapStep, MapStep DEF IInv

(* The inductive invariant holds of every behaviour of the manager. *)
THEOREM Invariance == Spec => []IInv
  BY InitIInv, NextIInv, PTL DEF Spec

(* Every variable keeps its type; the WaitGroup counter is never negative,  *)
(* so that Done never panics.                                               *)
THEOREM TypeCorrect == Spec => []TypeOK
<1>1. IInv => TypeOK BY DEF IInv
<1> QED BY <1>1, Invariance, PTL

(* The WaitGroup counts the unfinished registrations, whatever channels     *)
(* they share.                                                              *)
THEOREM CounterCorrect == Spec => []CounterExact
<1>1. IInv => CounterExact BY DEF IInv
<1> QED BY <1>1, Invariance, PTL

(* No helper of WaitForCriticalOperations is stranded: while one is counted *)
(* as waiting, a Done that will release it is still to come or under way.   *)
THEOREM WakeupsKept == Spec => []NoLostWakeup
<1>1. IInv => NoLostWakeup BY DEF IInv
<1> QED BY <1>1, Invariance, PTL

(* The map of critical operations has no entry of a finished operation and  *)
(* misses none whose channel is its own.                                    *)
THEOREM MapCorrect == Spec => []MapMatchesOperations
<1>1. IInv => MapMatchesOperations BY DEF IInv
<1> QED BY <1>1, Invariance, PTL

(* A manager whose registrations never overlap a sleeping helper never      *)
(* panics.                                                                  *)
THEOREM DisciplinedUseIsSafe == Spec => []PanicOnlyOnOverlap
<1>1. IInv => PanicOnlyOnOverlap BY DEF IInv
<1> QED BY <1>1, Invariance, PTL
-----------------------------------------------------------------------------
LEMMA BarrierStep ==
  ASSUME IInv, [Next]_vars
  PROVE  [Barrier!Next]_(Barrier!vars)
<1> DEFINE AbsState == [o \in Ops |-> IF op[o] = "new" THEN "new"
                                      ELSE IF op[o] = "receiving"
                                      THEN "running" ELSE "finished"]
<1> USE DEF Barrier!vars
<1>0. TypeOK /\ WaitsPaired /\ OwedRunning BY DEF IInv
<1>1. CASE UNCHANGED <<op, wait, owed>> BY <1>1
<1>2. ASSUME NEW o \in Ops, Register(o)
      PROVE  [Barrier!Next]_(Barrier!vars)
  <2>1. CASE Panic BY <1>1, <2>1 DEF Panic
  <2>2. CASE ~Panic
    <3>1. /\ op[o] = "new" /\ op' = [op EXCEPT ![o] = "receiving"]
          /\ UNCHANGED <<wait, owed>>
      BY <1>2, <2>2 DEF Register
    <3>2. /\ AbsState[o] = "new"
          /\ AbsState' = [AbsState EXCEPT ![o] = "running"]
      BY <1>0, <3>1 DEF TypeOK
    <3>3. Barrier!Start(o) BY <3>1, <3>2 DEF Barrier!Start
    <3> QED BY <3>3 DEF Barrier!Next
  <2> QED BY <2>1, <2>2
<1>3. ASSUME NEW o \in Ops, Receive(o)
      PROVE  [Barrier!Next]_(Barrier!vars)
  <2>1. /\ op[o] = "receiving" /\ op' = [op EXCEPT ![o] = "received"]
        /\ owed' = [w \in Waits |-> owed[w] \ {o}]
        /\ UNCHANGED wait
    BY <1>3 DEF Receive
  <2>2. /\ AbsState[o] = "running"
        /\ AbsState' = [AbsState EXCEPT ![o] = "finished"]
    BY <1>0, <2>1 DEF TypeOK
  <2>3. Barrier!Finish(o) BY <2>1, <2>2 DEF Barrier!Finish
  <2> QED BY <2>3 DEF Barrier!Next
<1>4. ASSUME NEW o \in Ops, Done(o) \/ Wake(o) \/ Delete(o)
      PROVE  [Barrier!Next]_(Barrier!vars)
  <2>1. AbsState' = AbsState
    BY <1>0, <1>4 DEF Done, Wake, Delete, TypeOK
  <2>2. UNCHANGED <<wait, owed>> BY <1>4 DEF Done, Wake, Delete
  <2> QED BY <2>1, <2>2
<1>5. ASSUME NEW w \in Waits, Call(w)
      PROVE  [Barrier!Next]_(Barrier!vars)
  <2>1. Barrier!Running = Receiving BY DEF Barrier!Running, Receiving
  <2>2. Barrier!Call(w) BY <1>5, <2>1 DEF Call, Barrier!Call
  <2> QED BY <2>2 DEF Barrier!Next
<1>6. ASSUME NEW w \in Waits, Enter(w) \/ Awake(w)
      PROVE  [Barrier!Next]_(Barrier!vars)
  BY <1>1, <1>6 DEF Enter, Awake, Panic
<1>7. ASSUME NEW w \in Waits, ReturnTrue(w)
      PROVE  [Barrier!Next]_(Barrier!vars)
  <2>1. owed[w] = {} BY <1>0, <1>7 DEF ReturnTrue, OwedRunning
  <2>2. Barrier!AnswerTrue(w)
    BY <1>7, <2>1 DEF ReturnTrue, Barrier!AnswerTrue
  <2> QED BY <2>2 DEF Barrier!Next
<1>8. ASSUME NEW w \in Waits, ReturnFalse(w)
      PROVE  [Barrier!Next]_(Barrier!vars)
  <2>1. Barrier!AnswerFalse(w)
    BY <1>8 DEF ReturnFalse, Barrier!AnswerFalse
  <2> QED BY <2>1 DEF Barrier!Next
<1>9. ASSUME NEW s \in Signals, Send(s) \/ Close(s)
      PROVE  [Barrier!Next]_(Barrier!vars)
  BY <1>1, <1>9 DEF Send, Close
<1> QED
  BY <1>1, <1>2, <1>3, <1>4, <1>5, <1>6, <1>7, <1>8, <1>9
     DEF Next, OpNext, WaitNext, vars

(* WaitForCriticalOperations is a barrier: it answers TRUE only when every  *)
(* operation registered before the call has received its finish signal.     *)
THEOREM BarrierImplemented == Spec => ImplementsBarrier
<1>1. Init => Barrier!Init BY DEF Init, Barrier!Init
<1>2. IInv /\ [Next]_vars => [Barrier!Next]_(Barrier!vars) BY BarrierStep
<1> QED BY <1>1, <1>2, Invariance, PTL DEF Spec, Barrier!Spec, ImplementsBarrier
=============================================================================
