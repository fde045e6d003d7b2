--------------------------- MODULE MCNatsDelivery ---------------------------
(* Two envelopes of one correlation, one of which does not unmarshal.       *)
EXTENDS NatsDelivery

CONSTANTS good, bad, c1

MCMessages    == {good, bad}
MCCorrelation == [m \in MCMessages |-> c1]
MCMalformed   == {bad}
=============================================================================
