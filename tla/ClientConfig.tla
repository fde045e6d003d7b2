---------------------------- MODULE ClientConfig ----------------------------
(* From a MessageBusConfig to the options of the library's client:          *)
(* messaging/factory.go, pkg/types/host_info.go, internal/pkg/config.go,    *)
(* mqtt/client_options.go, mqtt/client.go (createClientOptions),            *)
(* messaging/mqtt/configuration.go and nats/options.go.  Operators only:    *)
(* nothing of this keeps state.                                             *)
(*                                                                          *)
(* The map of optional texts is a function from option names to Texts; what *)
(* strconv makes of a text, and which texts name a file or hold a PEM block *)
(* that cannot be used, are constants.  An operator that may fail returns a *)
(* set with its one result, or {} for an error.                             *)
EXTENDS Integers, Sequences

CONSTANTS
  Texts,
  IntOf,       \* IntOf[t]: {} or {what strconv.Atoi makes of t}
  BoolOf,      \* BoolOf[t]: likewise strconv.ParseBool
  Unusable     \* texts that fail as a certificate, key, CA or seed

ASSUME TextShape == /\ {"", "random", "nats", "new"} \subseteq Texts
                    /\ IntOf \in [Texts -> SUBSET Int]
                    /\ BoolOf \in [Texts -> SUBSET BOOLEAN]
                    /\ Unusable \subseteq Texts \ {""}
                    /\ \A t \in Texts : /\ \A v, w \in IntOf[t] : v = w
                                       /\ \A v, w \in BoolOf[t] : v = w

TlsSchemes == {"tcps", "ssl", "tls", "nats"}

(* The fields of the option structs, in their order, with their kinds. *)
TlsFields == << <<"SkipCertVerify", "bool">>, <<"CertFile", "string">>,
                <<"KeyFile", "string">>, <<"CaFile", "string">>,
                <<"KeyPEMBlock", "string">>, <<"CertPEMBlock", "string">>,
                <<"CaPEMBlock", "string">> >>

MqttFields == << <<"Username", "string">>, <<"Password", "string">>,
                 <<"ClientId", "string">>, <<"Qos", "int">>,
                 <<"KeepAlive", "int">>, <<"Retained", "bool">>,
                 <<"AutoReconnect", "bool">>, <<"CleanSession", "bool">>,
                 <<"ConnectTimeout", "int">>,
                 <<"TlsConfigurationOptions", "struct">> >>

NatsFields == << <<"Username", "string">>, <<"Password", "string">>,
                 <<"ClientId", "string">>, <<"Format", "string">>,
                 <<"RetryOnFailedConnect", "bool">>, <<"Durable", "string">>,
                 <<"Subject", "string">>, <<"AutoProvision", "bool">>,
                 <<"ConnectTimeout", "int">>,
                 <<"TlsConfigurationOptions", "struct">>,
                 <<"QueueGroup", "string">>, <<"Deliver", "string">>,
                 <<"DefaultPubRetryAttempts", "int">>,
                 <<"NKeySeedFile", "string">>, <<"CredentialsFile", "string">>,
                 <<"ExactlyOnce", "bool">> >>

FieldsOf(protocol) == IF protocol = "mqtt" THEN MqttFields ELSE NatsFields

(* Go's zero values: what a struct literal leaves out. *)
Zero(fields) ==
  [n \in {fields[i][1] : i \in DOMAIN fields} |->
     LET kind == (CHOOSE f \in {fields[i] : i \in DOMAIN fields} : f[1] = n)[2]
     IN CASE kind = "int" -> 0 [] kind = "bool" -> FALSE [] OTHER -> ""]

(* CreateMQTTClientOptionsWithDefaults: every client gets a random id of    *)
(* its own.                                                                 *)
MqttDefaults == [Zero(MqttFields) EXCEPT !["ClientId"] = "random",
                   !["ConnectTimeout"] = 5, !["CleanSession"] = TRUE]

(* CreateClientOptionsWithDefaults *)
NatsDefaults == [Zero(NatsFields) EXCEPT !["Format"] = "nats",
                   !["Deliver"] = "new", !["ConnectTimeout"] = 5,
                   !["DefaultPubRetryAttempts"] = 2]

DefaultsOf(protocol) == IF protocol = "mqtt" THEN MqttDefaults ELSE NatsDefaults
----------------------------------------------------------------------------
Parse(kind, text) == CASE kind = "int"    -> IntOf[text]
                       [] kind = "bool"   -> BoolOf[text]
                       [] kind = "string" -> {text}
                       [] OTHER           -> {}

(* Load: field by field, up to the first that is given a text it cannot     *)
(* take; the fields before it keep what they were given.                    *)
Load(given, fields, des) ==
  LET provided == {i \in DOMAIN fields : fields[i][1] \in DOMAIN given}
      parsed(i) == Parse(fields[i][2], given[fields[i][1]])
      failing == {i \in provided : parsed(i) = {}}
      set == {i \in provided : \A j \in failing : i < j}
      at(n) == CHOOSE i \in DOMAIN fields : fields[i][1] = n
  IN [ok |-> failing = {},
      des |-> [n \in DOMAIN des |-> IF at(n) \in set
                                    THEN CHOOSE v \in parsed(at(n)) : TRUE
                                    ELSE des[n]]]

(* NewMessageClient up to the type switch; the broker's URL has the scheme  *)
(* tcp when no protocol is given.                                           *)
Supported(setup) ==
  /\ setup.host
  /\ setup.type \in {"mqtt", "nats-core", "nats-jetstream"}
  /\ setup.type # "mqtt" => setup.natsBuilt

Protocol(setup) == IF setup.type = "mqtt" THEN "mqtt" ELSE "nats"
Scheme(setup)   == IF setup.scheme = "" THEN "tcp" ELSE setup.scheme

TlsLost(setup, fields, defaults) ==  \* seeded fault: no second Load
  LET options == Load(setup.given, fields, defaults)
  IN {[scheme |-> Scheme(setup), options |-> options.des,
       tls |-> Zero(TlsFields)] : ok \in {TRUE} \cap {options.ok}}

(* Two structs are loaded from the one map; a half loaded one is thrown     *)
(* away with the error.                                                     *)
LoadBoth(setup, fields, defaults) ==
  LET options == Load(setup.given, fields, defaults)
      tls     == Load(setup.given, TlsFields, Zero(TlsFields))
  IN IF setup.host /\ setup.urlParses /\ options.ok /\ tls.ok
     THEN {[scheme |-> Scheme(setup), options |-> options.des,
            tls |-> tls.des]}
     ELSE {}

CreateMQTTClientConfiguration(setup) ==
  LoadBoth(setup, MqttFields, MqttDefaults)

CreateClientConfiguration(setup) ==
  LoadBoth(setup, NatsFields, NatsDefaults)
----------------------------------------------------------------------------
NoTls == [on |-> FALSE, skip |-> FALSE, certificate |-> <<>>, ca |-> ""]

(* generateCertificate: a complete PEM pair goes before the files. *)
Certificate(tls) ==
  IF tls["CertPEMBlock"] # "" /\ tls["KeyPEMBlock"] # ""
  THEN <<tls["CertPEMBlock"], tls["KeyPEMBlock"]>>
  ELSE IF tls["CertFile"] # "" /\ tls["KeyFile"] # ""
       THEN <<tls["CertFile"], tls["KeyFile"]>>
       ELSE <<>>

(* generateCaCertificate: the PEM block goes before the file. *)
CaCertificate(tls) ==
  IF tls["CaPEMBlock"] # "" THEN tls["CaPEMBlock"] ELSE tls["CaFile"]

(* GenerateTLSForClientClientOptions: no material, or a scheme that is not  *)
(* listed, and there is no TLS configuration.                               *)
GenerateTLS(scheme, tls) ==
  IF scheme \notin TlsSchemes
     \/ \A n \in DOMAIN tls \ {"SkipCertVerify"} : tls[n] = ""
  THEN {NoTls}
  ELSE LET pair == Certificate(tls)
           ca   == CaCertificate(tls)
       IN IF ({pair[i] : i \in DOMAIN pair} \union {ca}) \cap Unusable # {}
          THEN {}
          ELSE {[on |-> TRUE, skip |-> tls["SkipCertVerify"],
                 certificate |-> pair, ca |-> ca]}

(* createClientOptions: the range of Qos is tested first. *)
PahoOptions(config) ==
  IF config.options["Qos"] \in 0..2
  THEN {[wait |-> config.options["ConnectTimeout"], set |-> config.options,
         tls |-> t] : t \in GenerateTLS(config.scheme, config.tls)}
  ELSE {}

(* ConnectOpt: no ConnectTimeout means 30 seconds here; the seed is read at *)
(* once, the credentials only when the server asks for them.                *)
NatsOptions(config) ==
  IF config.options["NKeySeedFile"] \notin Unusable
  THEN {[wait |-> IF config.options["ConnectTimeout"] = 0 THEN 30
                  ELSE config.options["ConnectTimeout"],
         set |-> config.options,
         tls |-> t] : t \in GenerateTLS(config.scheme, config.tls)}
  ELSE {}
=============================================================================
