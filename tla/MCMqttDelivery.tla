--------------------------- MODULE MCMqttDelivery ---------------------------
EXTENDS MqttDelivery

CONSTANTS a, b, p1, p2, p3, big, bin, r, c1, c2

MCTexts == {"", "random", "nats", "new", "0", "1", "3", "true", "false",
            "x", "file", "pem", "broken"}
MCIntOf == [t \in MCTexts |-> CASE t = "0" -> {0} [] t = "1" -> {1} [] t = "3" -> {3}
                                [] OTHER -> {}]
MCBoolOf == [t \in MCTexts |-> CASE t \in {"true", "1"} -> {TRUE}
                                 [] t \in {"false", "0"} -> {FALSE}
                                 [] OTHER -> {}]
MCUnusable == {"broken"}

MCTopics   == {a, b}
MCMessages == {p1, p2, p3, big, bin, r}
MCTopicOf  == [m \in MCMessages |-> IF m \in {r, bin} THEN b ELSE a]
MCKindOf   == [m \in MCMessages |-> CASE m \in {p1, p3} -> "envelope"
                                      [] m \in {p2, big} -> "limited"
                                      [] OTHER -> "binary"]
MCReplyTo  == [m \in MCMessages |-> IF m = p1 THEN {r} ELSE {}]
MCBinary   == {b}
MCTooLarge == {big}
MCConnects == {c1, c2}

(* All combinations of TLS texts, each given alone or with any other. *)
TlsTexts == [n \in {"SkipCertVerify", "CertFile", "KeyFile", "CaFile",
                    "KeyPEMBlock", "CertPEMBlock", "CaPEMBlock"} |->
               CASE n = "SkipCertVerify" -> {"true", "x"}
                 [] n \in {"CertFile", "CaFile"} -> {"file", "broken"}
                 [] n = "CertPEMBlock" -> {"pem", "broken"}
                 [] n = "KeyFile" -> {"file"}
                 [] OTHER -> {"pem"}]
TlsMaps == UNION {{f \in [S -> {"true", "x", "file", "broken", "pem"}] :
                     \A n \in S : f[n] \in TlsTexts[n]} :
                  S \in SUBSET DOMAIN TlsTexts}

(* One other option with each text, good or bad. *)
OtherMaps == {n :> t : n \in {"Qos", "ConnectTimeout", "CleanSession", "Format",
                              "RetryOnFailedConnect", "NKeySeedFile",
                              "TlsConfigurationOptions"},
                      t \in {"0", "3", "true", "x", "broken"}}

Use(type, scheme, map) ==
  [type |-> type, host |-> TRUE, urlParses |-> TRUE, natsBuilt |-> TRUE,
   scheme |-> scheme, given |-> map, later |-> {}, reachable |-> TRUE,
   connects |-> {c1}, traffic |-> FALSE, malformed |-> {},
   script |-> << >>, losses |-> 0]

Kinds == {"mqtt", "nats-core", "nats-jetstream"}

ConfigSetups ==
  {Use(k, s, f) : k \in {"mqtt", "nats-core"}, s \in {"", "ssl"}, f \in TlsMaps}
  \union {Use(k, "", f) : k \in Kinds, f \in OtherMaps}
  \union {[Use("nats-core", "", << >>) EXCEPT !.natsBuilt = FALSE],
          [Use("mqtt", "", << >>) EXCEPT !.host = FALSE],
          [Use("mqtt", "", << >>) EXCEPT !.urlParses = FALSE],
          [Use("mqtt", "", << >>) EXCEPT !.type = "zero"]}

(* Two calls of Connect, with an option set after the client was created.   *)
RaceSetups ==
  {[Use(k, "", n :> t) EXCEPT !.connects = MCConnects, !.later = l,
                              !.reachable = w] :
     k \in Kinds, n \in {"AutoReconnect", "RetryOnFailedConnect"},
     t \in {"true", "false"}, w \in BOOLEAN,
     l \in {{<<"Qos", "x">>, <<"CleanSession", "false">>}}}

(* Messages under way, with each way to assure, keep and retain them. *)
Traffic(qos, clean, retained, messages, bad, lost) ==
  [Use("mqtt", "", ("AutoReconnect" :> "true") @@ ("Qos" :> qos)
                   @@ ("CleanSession" :> clean) @@ ("Retained" :> retained))
     EXCEPT !.traffic = TRUE, !.script = messages, !.malformed = bad,
            !.losses = lost]

TrafficSetups ==
  {Traffic("1", "false", "false", <<p1>>, {}, 1),
   Traffic("1", "false", "false", <<p1, p2>>, {}, 0),
   Traffic("1", "false", "false", <<p2, p3>>, {}, 1),
   Traffic("1", "false", "false", <<p2, big>>, {p2}, 1),
   Traffic("1", "false", "false", <<p2>>, {}, 2),
   Traffic("1", "false", "true", <<p2>>, {}, 1),
   Traffic("1", "true", "false", <<p2, p3>>, {}, 1),
   Traffic("0", "true", "false", <<p1, p2>>, {}, 1),
   Traffic("0", "true", "true", <<bin, p2>>, {}, 1),
   Traffic("1", "true", "true", <<p2, p3>>, {}, 1)}

MCSetups == ConfigSetups \union RaceSetups \union TrafficSetups
=============================================================================
