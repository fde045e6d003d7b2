---------------------------- MODULE RequestReply ----------------------------
(* What Request promises, free of topics, channels and timers: a request    *)
(* ends once, with a failure or with a well-formed answer that a responder  *)
(* produced for a request of the same RequestID, after it was asked.        *)
(* DoRequest is shown to implement this module.                             *)
CONSTANTS Requests, Ids,
          Messages   \* records with fields for (a request) and kind

VARIABLES phase,    \* [Requests -> {"idle", "open", "done"}]
          id,       \* [Requests -> Ids], meaningful once open
          asked,    \* the requests the responders have seen
          answers,  \* the answers they have produced
          reply     \* [Requests -> SUBSET Messages]: {} or {the answer}

vars == <<phase, id, asked, answers, reply>>

Init == /\ phase = [r \in Requests |-> "idle"]
        /\ id \in [Requests -> Ids]
        /\ asked = {} /\ answers = {}
        /\ reply = [r \in Requests |-> {}]

Open(r) == /\ phase[r] = "idle"
           /\ phase' = [phase EXCEPT ![r] = "open"]
           /\ \E i \in Ids : id' = [id EXCEPT ![r] = i]
           /\ UNCHANGED <<asked, answers, reply>>

(* A request that cannot even be set up fails as it opens. *)
Refuse(r) == /\ phase[r] = "idle"
             /\ phase' = [phase EXCEPT ![r] = "done"]
             /\ \E i \in Ids : id' = [id EXCEPT ![r] = i]
             /\ UNCHANGED <<asked, answers, reply>>

Ask(r) == /\ phase[r] = "open"
          /\ asked' = asked \union {r}
          /\ UNCHANGED <<phase, id, answers, reply>>

Produce(m) == /\ m.for \in asked
              /\ answers' = answers \union {m}
              /\ UNCHANGED <<phase, id, asked, reply>>

(* A failing publish may have reached the responders all the same. *)
Fail(r) == /\ phase[r] = "open"
           /\ phase' = [phase EXCEPT ![r] = "done"]
           /\ asked' \in {asked, asked \union {r}}
           /\ UNCHANGED <<id, answers, reply>>

Answer(r) == /\ phase[r] = "open" /\ r \in asked
             /\ \E m \in answers : /\ m.kind = "good"
                                   /\ id[m.for] = id[r]
                                   /\ reply' = [reply EXCEPT ![r] = {m}]
             /\ phase' = [phase EXCEPT ![r] = "done"]
             /\ UNCHANGED <<id, asked, answers>>

Next == \/ \E r \in Requests : \/ Open(r) \/ Refuse(r) \/ Ask(r)
                               \/ Fail(r) \/ Answer(r)
        \/ \E m \in Messages : Produce(m)

Spec == Init /\ [][Next]_vars
=============================================================================
