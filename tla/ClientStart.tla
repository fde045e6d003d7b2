---------------------------- MODULE ClientStart -----------------------------
(* From NewMessageClient to a connection and to Disconnect, for the three   *)
(* kinds of client: Connect of internal/pkg/mqtt/client.go and of           *)
(* internal/pkg/nats/client.go with newConnection of both transports, run   *)
(* concurrently by the application.  c.connection of a NATS client and      *)
(* mqttClient of an MQTT client are one variable, own.                      *)
(*                                                                          *)
(* External: the libraries' clients, each with the status of its connection *)
(* and the options it was made with; the environment that lets a connection *)
(* come up, fail, or be lost.                                               *)
EXTENDS ClientConfig, FiniteSets

CONSTANTS
  Setups,      \* configurations, with what the application does
  Connects     \* calls of Connect

ASSUME SetupShape ==
  \A s \in Setups :
    /\ {"type", "host", "urlParses", "natsBuilt", "scheme", "given", "later",
        "reachable", "connects"} \subseteq DOMAIN s
    /\ \A n \in DOMAIN s.given : n \in STRING /\ s.given[n] \in Texts
    /\ \A o \in s.later : o[1] \in STRING /\ o[2] \in Texts

Statuses == {"new", "connecting", "up", "reconnecting", "down"}

VARIABLES
  setup,     \* the configuration and the use made of the client, fixed
  given,     \* the map of optional texts; the application may still have it
  config,    \* {}, or {a NATS client's configuration}, made at its creation
  created,   \* "no", "yes", "error": what NewMessageClient returned
  conns,     \* clients of the library made so far
  own,       \* index of the one in the client's field, 0: nil
  connect,   \* [Connects -> where the call is, or what it returned]
  using,     \* [Connects -> index of the library's client it works with]
  raced      \* history: two calls of Connect were under way at a time

before == <<setup, given, config, created>>
calls  == <<connect, using, raced>>
startVars == <<before, conns, own, calls>>

AtWork(c) == connect[c] \notin {"idle", "ok", "error"}
Open(i)   == conns[i].status \in {"up", "reconnecting"}
IsMqtt    == setup.type = "mqtt"

StartInit ==
  /\ setup \in Setups /\ given = setup.given
  /\ config = {} /\ created = "no"
  /\ conns = <<>> /\ own = 0
  /\ connect = [c \in Connects |-> "idle"]
  /\ using = [c \in Connects |-> 0]
  /\ raced = FALSE
----------------------------------------------------------------------------
(* The factory.  A NATS client parses its options now, an MQTT client keeps *)
(* the MessageBusConfig, and with it the map, until it first connects.      *)
NewMessageClient ==
  /\ created = "no"
  /\ LET parsed == CreateClientConfiguration([setup EXCEPT !.given = given]) IN
     IF Supported(setup) /\ (IsMqtt \/ parsed # {})
     THEN /\ created' = "yes"
          /\ config' = IF IsMqtt THEN {} ELSE parsed
     ELSE created' = "error" /\ UNCHANGED config
  /\ UNCHANGED <<setup, given, conns, own, calls>>

(* The methods of the options builder write the map that Build returned.    *)
SetOption ==
  /\ created = "yes"
  /\ \E o \in setup.later :
       /\ o[1] \notin DOMAIN given
       /\ given' = [n \in DOMAIN given \union {o[1]} |->
                      IF n = o[1] THEN o[2] ELSE given[n]]
  /\ UNCHANGED <<setup, config, created, conns, own, calls>>
----------------------------------------------------------------------------
(* Connect reads the client's field: MQTT makes the library's client when   *)
(* there is none, NATS refuses when there is one.                           *)
To(c, where) == connect' = [connect EXCEPT ![c] = where]

Library(i, status) == conns' = [conns EXCEPT ![i].status = status]

LookAlways(c) ==       \* seeded fault: the field is not tested
  /\ created = "yes" /\ connect[c] = "idle" /\ c \in setup.connects
  /\ To(c, "make")
  /\ raced' = (raced \/ \E d \in Connects : AtWork(d))
  /\ UNCHANGED <<before, conns, own, using>>

Look(c) ==
  /\ created = "yes" /\ connect[c] = "idle" /\ c \in setup.connects
  /\ To(c, IF own = 0 THEN "make" ELSE IF IsMqtt THEN "test" ELSE "error")
  /\ raced' = (raced \/ \E d \in Connects : AtWork(d))
  /\ UNCHANGED <<before, conns, own, using>>

Made(options, status) ==
  Append(conns, [status |-> status, options |-> options, from |-> given])

(* mc.creator: the configuration is read now, and mqttClient assigned.      *)
MakePaho(c) ==
  /\ IsMqtt /\ connect[c] = "make"
  /\ LET now == [setup EXCEPT !.given = given]
         options == UNION {PahoOptions(f) : f \in
                             CreateMQTTClientConfiguration(now)} IN
     IF options = {}
     THEN To(c, "error") /\ UNCHANGED <<conns, own>>
     ELSE /\ \E o \in options : conns' = Made(o, "new")
          /\ own' = Len(conns')
          /\ To(c, "test")
  /\ UNCHANGED <<before, using, raced>>

(* "Avoid reconnecting if already connected": the field is read again, and  *)
(* may by now hold the client of another call.                              *)
TestConnected(c) ==
  /\ connect[c] = "test"
  /\ To(c, IF Open(own) THEN "ok" ELSE "dial")
  /\ using' = [using EXCEPT ![c] = own]
  /\ UNCHANGED <<before, conns, own, raced>>

(* paho's Connect; it does not connect a client twice. *)
Dial(c) ==
  /\ IsMqtt /\ connect[c] = "dial"
  /\ using' = [using EXCEPT ![c] = own]
  /\ IF conns[own].status \in {"new", "down"}
     THEN Library(own, "connecting") /\ To(c, "wait")
     ELSE /\ To(c, IF conns[own].options.set["AutoReconnect"] /\ Open(own)
                   THEN "ok" ELSE "error")
          /\ UNCHANGED conns
  /\ UNCHANGED <<before, own, raced>>

(* The library's own work. *)
ConnectionUp(i) ==
  /\ conns[i].status \in {"connecting", "reconnecting"} /\ setup.reachable
  /\ Library(i, "up")
  /\ UNCHANGED <<before, own, calls>>

ConnectionFails(i) ==
  /\ \/ conns[i].status = "connecting"
     \/ conns[i].status = "reconnecting" /\ ~IsMqtt
  /\ Library(i, "down")
  /\ UNCHANGED <<before, own, calls>>

ConnectionLost(i) ==
  /\ conns[i].status = "up"
  /\ Library(i, IF IsMqtt /\ ~conns[i].options.set["AutoReconnect"]
                THEN "down" ELSE "reconnecting")
  /\ UNCHANGED <<before, own, calls>>

(* getTokenError: what became of the attempt, or that ConnectTimeout is     *)
(* over, after which the attempt goes on by itself.                         *)
TokenEnds(c) ==
  /\ connect[c] = "wait"
  /\ \/ Open(using[c]) /\ To(c, "ok")
     \/ To(c, "error")
  /\ UNCHANGED <<before, conns, own, using, raced>>

(* newConnection of NATS: ConnectOpt, nats.Connect and, with JetStream, the *)
(* stream, which may fail after the connection is open.  With               *)
(* RetryOnFailedConnect a broker out of reach is no error.                  *)
MakeNats(c) ==
  /\ ~IsMqtt /\ connect[c] = "make"
  /\ LET options == UNION {NatsOptions(f) : f \in config} IN
     \/ To(c, "error") /\ UNCHANGED <<conns, own>>
     \/ /\ \E o \in options :
             \/ setup.reachable /\ conns' = Made(o, "up")
             \/ /\ o.set["RetryOnFailedConnect"]
                /\ conns' = Made(o, "reconnecting")
        /\ \/ own' = Len(conns') /\ To(c, "ok")
           \/ setup.type = "nats-jetstream" /\ UNCHANGED own /\ To(c, "error")
  /\ UNCHANGED <<before, using, raced>>

(* Disconnect waits for the work under way, Drain ends it; neither touches  *)
(* the client's field.  A NATS connection stays unusable after it.          *)
Disconnect ==
  /\ own # 0 /\ conns[own].status \in {"connecting", "up", "reconnecting"}
  /\ Library(own, "down")
  /\ UNCHANGED <<before, own, calls>>
----------------------------------------------------------------------------
Connecting(c) == \/ Look(c) \/ MakePaho(c) \/ TestConnected(c) \/ Dial(c)
                 \/ TokenEnds(c) \/ MakeNats(c)

Starting == \/ NewMessageClient \/ SetOption
            \/ \E c \in Connects : Connecting(c)

Environment(i) == ConnectionUp(i) \/ ConnectionFails(i) \/ ConnectionLost(i)

StartNext == \/ Starting \/ Disconnect
             \/ \E i \in DOMAIN conns : Environment(i)

StartSpec == StartInit /\ [][StartNext]_startVars
----------------------------------------------------------------------------
StartTypeOK ==
  /\ setup \in Setups /\ created \in {"no", "yes", "error"}
  /\ DOMAIN given \subseteq STRING /\ \A n \in DOMAIN given : given[n] \in Texts
  /\ Cardinality(config) <= 1
  /\ \A i \in DOMAIN conns : conns[i].status \in Statuses
  /\ own \in 0..Len(conns)
  /\ connect \in [Connects -> {"idle", "make", "test", "dial", "wait", "ok",
                               "error"}]
  /\ using \in [Connects -> 0..Len(conns)]
  /\ raced \in BOOLEAN

(* The options a client of the library was made from: an MQTT client reads  *)
(* the map when it is made, a NATS client has read it at its creation.      *)
Source(i) == IF IsMqtt THEN conns[i].from ELSE setup.given

(* What is in force for TLS is what was given.  The certificate and its key *)
(* come from one source and are complete, nothing unusable is in force,     *)
(* verification is skipped only when asked for; only the schemes that are   *)
(* not listed, a lone half of a pair and SkipCertVerify without any         *)
(* material are given and have no effect.                                   *)
TlsAsGiven(i) ==
  LET t == conns[i].options.tls
      text(n) == IF n \in DOMAIN Source(i) THEN Source(i)[n] ELSE ""
      full(pair) == pair[1] # "" /\ pair[2] # ""
      pem   == <<text("CertPEMBlock"), text("KeyPEMBlock")>>
      files == <<text("CertFile"), text("KeyFile")>>
      cas   == {text("CaPEMBlock"), text("CaFile")} \ {""}
      asked == "SkipCertVerify" \in DOMAIN Source(i)
               /\ TRUE \in BoolOf[text("SkipCertVerify")]
  IN IF Scheme(setup) \notin TlsSchemes
     THEN ~t.on /\ ~t.skip
     ELSE /\ t.certificate = <<>> => ~full(pem) /\ ~full(files)
          /\ t.certificate # <<>> => /\ full(t.certificate)
                                     /\ t.certificate \in {pem, files}
          /\ IF cas = {} THEN t.ca = "" ELSE t.ca \in cas
          /\ {t.ca} \union {t.certificate[k] : k \in DOMAIN t.certificate}
               \subseteq Texts \ Unusable
          /\ t.skip => asked
          /\ asked /\ (full(pem) \/ full(files) \/ cas # {}) => t.skip

(* "Load ... ignores properties that have not been provided" (config.go):   *)
(* a client of the library exists only if every text that was given could   *)
(* be taken, with all of them in force and its defaults for the rest; what  *)
(* a failed attempt had loaded so far never gets into a later one.          *)
ConfiguredAsGiven ==
  \A i \in DOMAIN conns :
    LET p == Protocol(setup)
        fields == {FieldsOf(p)[k] : k \in DOMAIN FieldsOf(p)}
        set == conns[i].options.set
    IN /\ \A f \in fields :
            IF f[1] \in DOMAIN Source(i)
            THEN set[f[1]] \in Parse(f[2], Source(i)[f[1]])
            ELSE set[f[1]] = DefaultsOf(p)[f[1]]
       /\ IsMqtt => set["Qos"] \in 0..2
       /\ TlsAsGiven(i)

(* "Disconnect is to close all connections" (interface.go:64), and can only *)
(* close the one in the client's field: any other open connection is the    *)
(* work of two calls of Connect under way at once, or of an attempt of      *)
(* JetStream that failed after it had connected, before the present one.    *)
StraysExplained ==
  \A i \in DOMAIN conns \ {own} :
    Open(i) => \/ raced
               \/ setup.type = "nats-jetstream" /\ (own = 0 \/ i < own)
=============================================================================
