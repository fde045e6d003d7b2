---------------------------- MODULE CriticalOps ----------------------------
(* internal/pkg/criticalops.go: CriticalOperationManager, with the          *)
(* goroutines it spawns and Go's sync.WaitGroup at the grain of its atomic  *)
(* steps (its state word <<counter, waiters>> and its semaphore).           *)
(*                                                                          *)
(* An element of Ops is one call of RegisterCriticalOperation and the       *)
(* goroutine it spawns; an element of Waits is one call of                  *)
(* WaitForCriticalOperations and the goroutine it spawns.  The same channel *)
(* may be registered several times.  A panic in any goroutine ends the      *)
(* process: nothing moves once panicked is TRUE.                            *)
EXTENDS Integers, FiniteSets

CONSTANTS Ops, Signals, Waits,
          MaxSends   \* bound: values a signal channel may hold unreceived

ASSUME OpsFinite   == IsFiniteSet(Ops)
ASSUME WaitsFinite == IsFiniteSet(Waits)
ASSUME SendsBound  == MaxSends \in Nat

VARIABLES
  op,         \* goroutine of each registration
  signalOf,   \* the channel each registration was called with
  sent,       \* values sent on a channel and not yet received
  closed,     \* channels closed by the application
  criticalOperations,        \* the manager's map (its key set)
  counter, waiters, sema,    \* the WaitGroup
  wait,       \* the caller of each WaitForCriticalOperations
  helper,     \* the goroutine that call spawned
  panicked,
  owed,       \* history: registered before the call, signal not received yet
  overlapped  \* history: some registration found a helper asleep

signals == <<sent, closed>>
group   == <<counter, waiters, sema>>
history == <<owed, overlapped>>
vars == <<op, signalOf, signals, criticalOperations, group, wait, helper,
          panicked, history>>

OpStates     == {"new", "receiving", "received", "waking", "deleting", "ended"}
WaitStates   == {"idle", "called", "true", "false"}
HelperStates == {"none", "starting", "asleep", "done"}

Receiving == {o \in Ops : op[o] = "receiving"}
Counted   == {o \in Ops : op[o] \in {"receiving", "received"}}
Alive     == {o \in Ops : op[o] \notin {"new", "ended"}}
Asleep    == {w \in Waits : helper[w] = "asleep"}

Init ==
  /\ op = [o \in Ops |-> "new"]
  /\ signalOf \in [Ops -> Signals]
  /\ sent = [s \in Signals |-> 0]
  /\ closed = {}
  /\ criticalOperations = {}
  /\ counter = 0 /\ waiters = 0 /\ sema = 0
  /\ wait = [w \in Waits |-> "idle"]
  /\ helper = [w \in Waits |-> "none"]
  /\ panicked = FALSE
  /\ owed = [w \in Waits |-> {}]
  /\ overlapped = FALSE

Panic == /\ panicked' = TRUE
         /\ UNCHANGED <<op, signalOf, signals, criticalOperations, group,
                        wait, helper, owed>>
----------------------------------------------------------------------------
(* Seeded faults: what each action would be with a plausible slip in the    *)
(* code.  They are used only to show that the properties can fail.          *)
RegisterOncePerChannel(o) ==   \* Add(1) only for a channel not in the map
  /\ op[o] = "new"
  /\ counter' = counter + IF signalOf[o] \in criticalOperations THEN 0 ELSE 1
  /\ criticalOperations' = criticalOperations \union {signalOf[o]}
  /\ op' = [op EXCEPT ![o] = "receiving"]
  /\ UNCHANGED <<signalOf, signals, waiters, sema, wait, helper, panicked,
                 history>>

DoneWithoutRelease(o) ==       \* nobody is released at zero
  /\ op[o] = "received"
  /\ counter' = counter - 1
  /\ op' = [op EXCEPT ![o] = "deleting"]
  /\ UNCHANGED <<signalOf, signals, criticalOperations, waiters, sema, wait,
                 helper, panicked, history>>

WakeWithoutReset(o) ==         \* the waiter count survives the release
  /\ op[o] = "waking"
  /\ sema' = sema + waiters
  /\ op' = [op EXCEPT ![o] = "deleting"]
  /\ UNCHANGED <<signalOf, signals, criticalOperations, counter, waiters,
                 wait, helper, panicked, history>>

DeleteNothing(o) ==            \* the delete(...) is missing
  /\ op[o] = "deleting"
  /\ op' = [op EXCEPT ![o] = "ended"]
  /\ UNCHANGED <<signalOf, signals, criticalOperations, group, wait, helper,
                 panicked, history>>

ReturnTrueOnTimeout(w) ==      \* the timeout branch returns true as well
  /\ wait[w] = "called"
  /\ wait' = [wait EXCEPT ![w] = "true"]
  /\ UNCHANGED <<op, signalOf, signals, criticalOperations, group, helper,
                 panicked, history>>
----------------------------------------------------------------------------
(* The application: it ends an operation by sending on its signal or by     *)
(* closing it.                                                              *)
Send(s) == /\ s \notin closed /\ sent[s] < MaxSends
           /\ sent' = [sent EXCEPT ![s] = @ + 1]
           /\ UNCHANGED <<op, signalOf, closed, criticalOperations, group,
                          wait, helper, panicked, history>>

Close(s) == /\ s \notin closed
            /\ closed' = closed \union {s}
            /\ UNCHANGED <<op, signalOf, sent, criticalOperations, group,
                           wait, helper, panicked, history>>
----------------------------------------------------------------------------
(* RegisterCriticalOperation.  Its caller holds criticalOpsMutex            *)
(* throughout, which only Delete also takes: the body is one step.          *)
(* WaitGroup.Add(1) panics when it takes the counter from zero while a      *)
(* waiter is still counted.                                                 *)
Register(o) ==
  /\ op[o] = "new"
  /\ overlapped' = (overlapped \/ Asleep # {})
  /\ \/ /\ counter = 0 /\ waiters > 0
        /\ Panic
     \/ /\ ~(counter = 0 /\ waiters > 0)
        /\ criticalOperations' = criticalOperations \union {signalOf[o]}
        /\ counter' = counter + 1
        /\ op' = [op EXCEPT ![o] = "receiving"]
        /\ UNCHANGED <<signalOf, signals, waiters, sema, wait, helper,
                       panicked, owed>>

(* <-finishSignal: a buffered or blocked value, or the closed channel. *)
Receive(o) ==
  LET s == signalOf[o] IN
  /\ op[o] = "receiving"
  /\ sent[s] > 0 \/ s \in closed
  /\ sent' = [sent EXCEPT ![s] = IF @ > 0 THEN @ - 1 ELSE @]
  /\ op' = [op EXCEPT ![o] = "received"]
  /\ owed' = [w \in Waits |-> owed[w] \ {o}]
  /\ UNCHANGED <<signalOf, closed, criticalOperations, group, wait, helper,
                 panicked, overlapped>>

(* waitGroup.Done(): the atomic decrement.  The goroutine that takes the    *)
(* counter to zero with waiters counted still has to release them.          *)
Done(o) ==
  /\ op[o] = "received"
  /\ counter' = counter - 1
  /\ op' = [op EXCEPT ![o] = IF counter' = 0 /\ waiters > 0
                             THEN "waking" ELSE "deleting"]
  /\ UNCHANGED <<signalOf, signals, criticalOperations, waiters, sema, wait,
                 helper, panicked, history>>

(* ... and does: the state word is reset, one token per waiter released.    *)
(* (Add's own check that the word has not moved cannot fail here: an Add    *)
(* in between has already panicked.)                                        *)
Wake(o) ==
  /\ op[o] = "waking"
  /\ sema' = sema + waiters
  /\ waiters' = 0
  /\ op' = [op EXCEPT ![o] = "deleting"]
  /\ UNCHANGED <<signalOf, signals, criticalOperations, counter, wait, helper,
                 panicked, history>>

Delete(o) ==
  /\ op[o] = "deleting"
  /\ criticalOperations' = criticalOperations \ {signalOf[o]}
  /\ op' = [op EXCEPT ![o] = "ended"]
  /\ UNCHANGED <<signalOf, signals, group, wait, helper, panicked, history>>
----------------------------------------------------------------------------
(* WaitForCriticalOperations: the caller spawns the helper and selects.     *)
Call(w) ==
  /\ wait[w] = "idle"
  /\ wait' = [wait EXCEPT ![w] = "called"]
  /\ helper' = [helper EXCEPT ![w] = "starting"]
  /\ owed' = [owed EXCEPT ![w] = Receiving]
  /\ UNCHANGED <<op, signalOf, signals, criticalOperations, group, panicked,
                 overlapped>>

(* waitGroup.Wait(), up to its sleep; a zero counter returns at once, and   *)
(* the helper then closes done.                                             *)
Enter(w) ==
  /\ helper[w] = "starting"
  /\ \/ /\ counter = 0
        /\ helper' = [helper EXCEPT ![w] = "done"]
        /\ UNCHANGED waiters
     \/ /\ counter > 0
        /\ helper' = [helper EXCEPT ![w] = "asleep"]
        /\ waiters' = waiters + 1
  /\ UNCHANGED <<op, signalOf, signals, criticalOperations, counter, sema,
                 wait, panicked, history>>

(* Wait's return from its semaphore: it panics when the WaitGroup is        *)
(* already in use again.  The helper runs on after its caller timed out.    *)
Awake(w) ==
  /\ helper[w] = "asleep" /\ sema > 0
  /\ \/ /\ counter # 0 \/ waiters # 0
        /\ Panic
        /\ UNCHANGED overlapped
     \/ /\ counter = 0 /\ waiters = 0
        /\ sema' = sema - 1
        /\ helper' = [helper EXCEPT ![w] = "done"]
        /\ UNCHANGED <<op, signalOf, signals, criticalOperations, counter,
                       waiters, wait, panicked, history>>

(* The select: done closed, or the timeout; either when both are ready.     *)
ReturnTrue(w) ==
  /\ wait[w] = "called" /\ helper[w] = "done"
  /\ wait' = [wait EXCEPT ![w] = "true"]
  /\ UNCHANGED <<op, signalOf, signals, criticalOperations, group, helper,
                 panicked, history>>

ReturnFalse(w) ==
  /\ wait[w] = "called"
  /\ wait' = [wait EXCEPT ![w] = "false"]
  /\ UNCHANGED <<op, signalOf, signals, criticalOperations, group, helper,
                 panicked, history>>
----------------------------------------------------------------------------
OpNext(o)   == Register(o) \/ Receive(o) \/ Done(o) \/ Wake(o) \/ Delete(o)
WaitNext(w) == \/ Call(w) \/ Enter(w) \/ Awake(w)
               \/ ReturnTrue(w) \/ ReturnFalse(w)

Next == /\ ~panicked
        /\ \/ \E s \in Signals : Send(s) \/ Close(s)
           \/ \E o \in Ops : OpNext(o)
           \/ \E w \in Waits : WaitNext(w)

(* The Go scheduler runs every goroutine that can run; the application owes *)
(* neither a signal nor a call.                                             *)
Fairness ==
  /\ \A o \in Ops : WF_vars(~panicked /\ (Receive(o) \/ Done(o) \/ Wake(o)
                                          \/ Delete(o)))
  /\ \A w \in Waits : WF_vars(~panicked /\ (Enter(w) \/ Awake(w)))

Spec     == Init /\ [][Next]_vars
FairSpec == Spec /\ Fairness
----------------------------------------------------------------------------
TypeOK ==
  /\ op \in [Ops -> OpStates]
  /\ signalOf \in [Ops -> Signals]
  /\ sent \in [Signals -> Nat]
  /\ closed \subseteq Signals
  /\ criticalOperations \subseteq Signals
  /\ counter \in Nat /\ waiters \in Nat /\ sema \in Nat
  /\ wait \in [Waits -> WaitStates]
  /\ helper \in [Waits -> HelperStates]
  /\ panicked \in BOOLEAN
  /\ owed \in [Waits -> SUBSET Ops]
  /\ overlapped \in BOOLEAN

(* The WaitGroup counts exactly the registrations whose goroutine has not   *)
(* called Done: no registration is counted twice, forgotten, or released    *)
(* twice when one channel serves several of them.                           *)
CounterExact == counter = Cardinality(Counted)

(* No lost wakeup: while a helper is counted as waiting, either something   *)
(* is left to finish or the last Done is still on its way to release it;    *)
(* and a helper that is no longer counted has its token.                    *)
NoLostWakeup ==
  /\ waiters > 0 => counter > 0 \/ \E o \in Ops : op[o] = "waking"
  /\ Cardinality(Asleep) = waiters + sema

(* criticalOperations holds no entry of a finished operation, and the entry *)
(* of every unfinished one whose channel no other registration shares.      *)
MapMatchesOperations ==
  /\ \A s \in criticalOperations : \E o \in Alive : signalOf[o] = s
  /\ \A o \in Alive :
       (\A p \in Ops \ {o} : signalOf[p] # signalOf[o])
          => signalOf[o] \in criticalOperations

(* Used with registrations and waits kept apart (no registration while a    *)
(* helper, also one left behind by a timeout, sleeps), the manager never    *)
(* panics, whatever the order of the goroutines.                            *)
PanicOnlyOnOverlap == panicked => overlapped

(* WaitForCriticalOperations "returns true if all operations completed,     *)
(* false if timeout occurred" (criticalops.go:53): it always returns.       *)
WaitNeverPanics == ~panicked

Barrier == INSTANCE CompletionBarrier WITH
             state <- [o \in Ops |-> IF op[o] = "new" THEN "new"
                                      ELSE IF op[o] = "receiving"
                                      THEN "running" ELSE "finished"],
             call <- wait

(* The manager implements the barrier: TRUE is answered only when every     *)
(* operation registered before the call has been signalled since.           *)
ImplementsBarrier == Barrier!Spec

(* A helper does not sleep for ever once every registered operation has its *)
(* signal: the goroutines the timeouts leave behind do not accumulate.      *)
WaitersWake ==
  <>[](\A o \in Receiving : sent[signalOf[o]] > 0 \/ signalOf[o] \in closed)
    => <>[](panicked \/ \A w \in Waits : helper[w] \in {"none", "done"})
=============================================================================
