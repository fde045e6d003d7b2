---------------------------- MODULE MCMqttClient ----------------------------
(* Two topics and three calls: a Subscribe of both, a Subscribe of the      *)
(* first that replaces it, and an Unsubscribe of the first.                 *)
EXTENDS MqttClient

CONSTANTS t1, t2, s1, s2, u1, e1

MCTopics == {t1, t2}
MCCalls  == {s1, s2, u1}
MCErrs   == {e1}
MCKind   == [c \in MCCalls |-> IF c = u1 THEN "unsubscribe" ELSE "subscribe"]
MCArgs   == [c \in MCCalls |-> IF c = s1 THEN {t1, t2} ELSE {t1}]
MCErrsOf == [c \in MCCalls |-> e1]
MCReact  == {e1}
MCForbid == {t1}
=============================================================================
