---------------------------- MODULE MCNatsClient ----------------------------
(* Two topics and four calls: a Subscribe of both, a second Subscribe of    *)
(* the first, an Unsubscribe of both and one of the first.                  *)
EXTENDS NatsClient

CONSTANTS t1, t2, s1, s2, u1, u2

MCTopics == {t1, t2}
MCCalls  == {s1, s2, u1, u2}
MCKind   == [c \in MCCalls |-> IF c \in {s1, s2} THEN "subscribe"
                                                 ELSE "unsubscribe"]
MCArgs   == [c \in MCCalls |-> IF c \in {s1, u1} THEN {t1, t2} ELSE {t1}]
=============================================================================
