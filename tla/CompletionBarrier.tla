------------------------- MODULE CompletionBarrier -------------------------
(* What the critical-operation manager promises, free of goroutines and     *)
(* locks: a wait may answer TRUE only when every operation that was running *)
(* when the wait was called has since finished; it may answer FALSE at any  *)
(* time (its timeout).  CriticalOps is shown to implement this module.      *)
CONSTANTS Ops, Waits

VARIABLES state,  \* [Ops -> {"new", "running", "finished"}]
          call,   \* [Waits -> {"idle", "called", "true", "false"}]
          owed    \* owed[w]: running at w's call and not finished since

vars == <<state, call, owed>>

Running == {o \in Ops : state[o] = "running"}

Init == /\ state = [o \in Ops |-> "new"]
        /\ call = [w \in Waits |-> "idle"]
        /\ owed = [w \in Waits |-> {}]

Start(o) == /\ state[o] = "new"
            /\ state' = [state EXCEPT ![o] = "running"]
            /\ UNCHANGED <<call, owed>>

Finish(o) == /\ state[o] = "running"
             /\ state' = [state EXCEPT ![o] = "finished"]
             /\ owed' = [w \in Waits |-> owed[w] \ {o}]
             /\ UNCHANGED call

Call(w) == /\ call[w] = "idle"
           /\ call' = [call EXCEPT ![w] = "called"]
           /\ owed' = [owed EXCEPT ![w] = Running]
           /\ UNCHANGED state

AnswerTrue(w) == /\ call[w] = "called"
                 /\ owed[w] = {}
                 /\ call' = [call EXCEPT ![w] = "true"]
                 /\ UNCHANGED <<state, owed>>

AnswerFalse(w) == /\ call[w] = "called"
                  /\ call' = [call EXCEPT ![w] = "false"]
                  /\ UNCHANGED <<state, owed>>

Next == \/ \E o \in Ops : Start(o) \/ Finish(o)
        \/ \E w \in Waits : Call(w) \/ AnswerTrue(w) \/ AnswerFalse(w)

Spec == Init /\ [][Next]_vars
=============================================================================
