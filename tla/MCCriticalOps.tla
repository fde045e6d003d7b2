--------------------------- MODULE MCCriticalOps ---------------------------
(* Two registrations, each on a channel of its own or both on one, and two  *)
(* waits: enough for a wait of one generation to overlap the next.          *)
EXTENDS CriticalOps
=============================================================================
