----------------------------- MODULE MCDoRequest -----------------------------
(* Two requests that each bring one of two RequestIDs, hence the same one   *)
(* or different ones; or one request alone, with a blank RequestID.         *)
EXTENDS DoRequest, TLC

CONSTANTS r1, r2, a, b

MCRequests == {r1, r2}
MCIds      == {a, b}
MCGiven    == [r \in MCRequests |-> MCIds]
MCOne      == {r1}
MCBlank    == [r \in MCOne |-> {}]

(* Requests and RequestIDs are interchangeable.  No liveness is checked     *)
(* where this is used.                                                      *)
MCSymmetry == {p @@ q : p \in Permutations(MCRequests),
                        q \in Permutations(MCIds)}
=============================================================================
