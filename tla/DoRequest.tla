------------------------------ MODULE DoRequest ------------------------------
(* internal/pkg/request.go: DoRequest, run by several callers over the      *)
(* subscribe, unsubscribe and publish functions of a client that is passed  *)
(* to it, with the handlers that the client's library runs concurrently.    *)
(*                                                                          *)
(* The library side is external and follows what the MQTT and the NATS      *)
(* client of this repository make of it: the MQTT client keeps one handler  *)
(* per topic and runs all handlers one after the other; the NATS client     *)
(* keeps every subscription of a topic until it is unsubscribed, each with  *)
(* its own goroutine, and under JetStream acknowledges after delivering.    *)
(* The broker may deliver a response again.  After a reconnect the MQTT     *)
(* client's onConnectHandler re-creates the recorded subscriptions; it      *)
(* holds subscriptionMutex meanwhile, which subscribe and unsubscribe need. *)
(* A send on a closed channel panics and ends the process.                  *)
EXTENDS Integers, FiniteSets

CONSTANTS Requests,      \* calls of DoRequest
          Ids,           \* RequestIDs, hence response topics
          Given,         \* Given[r]: the RequestIDs the caller of r may pass;
                         \* {} when it passes a blank one
          MaxResponses,  \* bound: responses published per request
          MaxReconnects  \* bound: lost and restored MQTT connections

ASSUME GivenIds   == Given \in [Requests -> SUBSET Ids]
ASSUME Responses  == MaxResponses \in Nat
ASSUME Reconnects == MaxReconnects \in Nat

Kinds    == {"good", "bad"}   \* a response that unmarshals, or does not
Messages == [for : Requests, n : 1..MaxResponses, kind : Kinds]
(* What a running handler still has to send: a response, or the error of a  *)
(* failed acknowledgement.                                                  *)
Items    == [for : Requests, n : 1..MaxResponses, kind : Kinds \union {"ack"}]

VARIABLES
  transport,   \* "mqtt" or "jetstream", fixed at the start
  pc,          \* where each DoRequest is
  requestId,   \* its RequestID: its response topic is <prefix>/<RequestID>
  chans,       \* its two channels: "none", "open" or "closed"
  messages,    \* the buffer of its messages channel (capacity 1)
  errs,        \* the buffer of its errs channel (capacity 1)
  outcome,     \* what it returns
  response,    \* {} or {the response it returns}
  unsubscribed,\* what its unsubscribe returned: "none", "ok", "failed"
  route,       \* route[i]: requests whose handler serves i's topic
  record,      \* record[i]: {} or {the one in existingSubscriptions}
  served,      \* MQTT: RequestIDs whose topic the broker serves
  refused,     \* MQTT: those whose last SUBACK was a refusal: paho completes
               \* the token without an error, and nobody reads the code
  reconnects,  \* restored connections so far
  due,         \* runs of onConnectHandler that wait for the mutex
  todo,        \* subscriptions the running one has left; it holds the mutex
               \* as long as there are any
  report,      \* {} or {the one of these whose error it is about to send}
  asked,       \* requests handed to the library, which responders may have
  net,         \* responses published on the response topics
  delivered,   \* pairs <<response, request>> handed to a handler
  again,       \* responses handed to the same request more than once
  handling,    \* handling[r]: {} or {what r's handler is about to send}
  panic        \* {} or {the send that ended the process}

caller    == <<pc, requestId, outcome, response, unsubscribed>>
channels  == <<chans, messages, errs>>
table     == <<route, record>>
session   == <<served, refused>>
hook      == <<reconnects, due, todo, report>>
wire      == <<asked, net, delivered, again>>
vars == <<transport, caller, channels, table, session, hook, wire, handling,
          panic>>

Causes   == Kinds \union {"ack", "reconnect"}
Started  == {r \in Requests : pc[r] # "idle"}
Unshared(r) == \A q \in Started \ {r} : requestId[q] # requestId[r]

Init ==
  /\ transport \in {"mqtt", "jetstream"}
  /\ pc = [r \in Requests |-> "idle"]
  /\ requestId \in [Requests -> Ids]   \* read from Subscribe on
  /\ chans = [r \in Requests |-> "none"]
  /\ messages = [r \in Requests |-> {}]
  /\ errs = [r \in Requests |-> FALSE]
  /\ outcome = [r \in Requests |-> "none"]
  /\ response = [r \in Requests |-> {}]
  /\ unsubscribed = [r \in Requests |-> "none"]
  /\ route = [i \in Ids |-> {}]
  /\ record = [i \in Ids |-> {}]
  /\ served = {} /\ refused = {}
  /\ reconnects = 0 /\ due = 0 /\ todo = {} /\ report = {}
  /\ asked = {} /\ net = {} /\ delivered = {} /\ again = {}
  /\ handling = [r \in Requests |-> {}]
  /\ panic = {}
(* The rest of the handler after its first send: NATS acknowledges, and     *)
(* sends the error when that fails.                                         *)
AfterSend(m) ==
  IF transport = "jetstream" /\ m.kind # "ack"
  THEN {{}, {[m EXCEPT !.kind = "ack"]}}
  ELSE {{}}

(* The broker takes a SUBSCRIBE: it serves the topic, or refuses to. *)
SubAck(i) == \/ served' = served \union {i} /\ refused' = refused \ {i}
             \/ refused' = refused \union {i} /\ UNCHANGED served

(* Whether subscribe and unsubscribe can take subscriptionMutex.  (NATS has *)
(* no onConnectHandler; its calls hold the mutex for a while only.)         *)
MutexFree == transport = "mqtt" => todo = {}
----------------------------------------------------------------------------
(* Seeded faults: actions with a plausible slip, used only to show that the *)
(* properties can fail.                                                     *)
ResubscribeSilently(i) ==      \* the error is only logged
  /\ i \in todo /\ report = {}
  /\ \/ route' = [route EXCEPT ![i] = record[i]] /\ SubAck(i)
     \/ UNCHANGED <<route, session>>
  /\ todo' = todo \ {i}
  /\ UNCHANGED <<transport, caller, channels, record, reconnects, due, report,
                 wire, handling, panic>>

UnsubscribeKeepsRecord(r) ==   \* existingSubscriptions is not updated
  /\ pc[r] = "unsubscribing" /\ MutexFree
  /\ route' = [route EXCEPT ![requestId[r]] = {}]
  /\ unsubscribed' = [unsubscribed EXCEPT ![r] = "ok"]
  /\ pc' = [pc EXCEPT ![r] = "closing"]
  /\ served' = served \ {requestId[r]}
  /\ UNCHANGED <<transport, requestId, outcome, response, channels, record,
                 refused, hook, wire, handling, panic>>

TimeOutWithoutCleanup(r) ==    \* the timeout branch skips the defer
  /\ pc[r] = "awaiting"
  /\ pc' = [pc EXCEPT ![r] = "returned"]
  /\ outcome' = [outcome EXCEPT ![r] = "timeout"]
  /\ UNCHANGED <<transport, requestId, response, unsubscribed, channels,
                 table, session, hook, wire, handling, panic>>

TimeOutOnError(r) ==           \* the timer alone does not end the select
  /\ pc[r] = "awaiting" /\ errs[r]
  /\ pc' = [pc EXCEPT ![r] = "unsubscribing"]
  /\ outcome' = [outcome EXCEPT ![r] = "timeout"]
  /\ UNCHANGED <<transport, requestId, response, unsubscribed, channels,
                 table, session, hook, wire, handling, panic>>

CloseNothing(r) ==             \* the channels stay open
  /\ pc[r] = "closing"
  /\ pc' = [pc EXCEPT ![r] = "returned"]
  /\ UNCHANGED <<transport, requestId, outcome, response, unsubscribed,
                 channels, table, session, hook, wire, handling, panic>>

HandlerSendsAll(r) ==          \* no return after an unmarshal error
  \E m \in handling[r] :
    /\ chans[r] = "open" /\ messages[r] = {}
    /\ messages' = [messages EXCEPT ![r] = {m}]
    /\ \E rest \in AfterSend(m) :
         handling' = [handling EXCEPT ![r] = rest]
    /\ UNCHANGED <<transport, caller, chans, errs, table, session, hook,
                   wire, panic>>
----------------------------------------------------------------------------
(* Lines 40-58.  A blank RequestID is replaced by a fresh one.  The         *)
(* subscription is in place and recorded, or it is refused, or (MQTT) it    *)
(* times out after the handler has been installed and the packet sent.      *)
(* What a packet that times out does, it does here or not at all:           *)
(* MqttClient has the ones that take effect later.                          *)
Subscribe(r) ==
  /\ pc[r] = "idle" /\ MutexFree
  /\ \E i \in Ids :
       /\ IF Given[r] # {} THEN i \in Given[r]
                           ELSE \A q \in Started : requestId[q] # i
       /\ requestId' = [requestId EXCEPT ![r] = i]
       /\ LET routed == [route EXCEPT ![i] = IF transport = "mqtt" THEN {r}
                                             ELSE @ \union {r}]
          IN \/ /\ route' = routed
                /\ IF transport = "mqtt" THEN SubAck(i) ELSE UNCHANGED session
                /\ record' = [record EXCEPT ![i] = {r}]
                /\ pc' = [pc EXCEPT ![r] = "publishing"]
                /\ UNCHANGED outcome
             \/ /\ \/ UNCHANGED <<route, session>>
                   \/ /\ transport = "mqtt" /\ route' = routed
                      /\ SubAck(i) \/ UNCHANGED session
                /\ outcome' = [outcome EXCEPT ![r] = "subscribe failed"]
                /\ pc' = [pc EXCEPT ![r] = "returned"]
                /\ UNCHANGED record
  /\ chans' = [chans EXCEPT ![r] = "open"]
  /\ UNCHANGED <<transport, response, unsubscribed, messages, errs, hook,
                 asked, net, delivered, again, handling, panic>>

(* Line 66: the request is handed to the library, or refused at once.       *)
Publish(r) ==
  /\ pc[r] = "publishing"
  /\ \/ /\ asked' = asked \union {r}
        /\ pc' = [pc EXCEPT ![r] = "sent"]
        /\ UNCHANGED outcome
     \/ /\ pc' = [pc EXCEPT ![r] = "unsubscribing"]
        /\ outcome' = [outcome EXCEPT ![r] = "publish failed"]
        /\ UNCHANGED asked
  /\ UNCHANGED <<transport, requestId, response, unsubscribed, channels,
                 table, session, hook, net, delivered, again, handling,
                 panic>>

(* Lines 66-69: publish returns once the token (JetStream: the server's     *)
(* acknowledgement) is there, or with an error when it times out; the       *)
(* responders may have had the request long before, or get it later.        *)
PublishEnds(r) ==
  /\ pc[r] = "sent"
  /\ \/ /\ pc' = [pc EXCEPT ![r] = "awaiting"]
        /\ UNCHANGED outcome
     \/ /\ pc' = [pc EXCEPT ![r] = "unsubscribing"]
        /\ outcome' = [outcome EXCEPT ![r] = "publish failed"]
  /\ UNCHANGED <<transport, requestId, response, unsubscribed, channels,
                 table, session, hook, wire, handling, panic>>

(* Lines 71-83: the select.  Any ready case may be taken; the timer may     *)
(* always have fired.                                                       *)
TimeOut(r) ==
  /\ pc[r] = "awaiting"
  /\ pc' = [pc EXCEPT ![r] = "unsubscribing"]
  /\ outcome' = [outcome EXCEPT ![r] = "timeout"]
  /\ UNCHANGED <<transport, requestId, response, unsubscribed, channels,
                 table, session, hook, wire, handling, panic>>

ReceiveError(r) ==
  /\ pc[r] = "awaiting" /\ errs[r]
  /\ errs' = [errs EXCEPT ![r] = FALSE]
  /\ pc' = [pc EXCEPT ![r] = "unsubscribing"]
  /\ outcome' = [outcome EXCEPT ![r] = "error"]
  /\ UNCHANGED <<transport, requestId, response, unsubscribed, chans,
                 messages, table, session, hook, wire, handling, panic>>

ReceiveResponse(r) ==
  /\ pc[r] = "awaiting" /\ messages[r] # {}
  /\ response' = [response EXCEPT ![r] = messages[r]]
  /\ messages' = [messages EXCEPT ![r] = {}]
  /\ pc' = [pc EXCEPT ![r] = "unsubscribing"]
  /\ outcome' = [outcome EXCEPT ![r] = "response"]
  /\ UNCHANGED <<transport, requestId, unsubscribed, chans, errs, table,
                 session, hook, wire, handling, panic>>

(* Line 61, the deferred unsubscribe, its error dropped.  It waits for the  *)
(* mutex.  MQTT takes the topic's handler away, whoever installed it,       *)
(* unless the connection is down; NATS ends the recorded subscription of    *)
(* the topic, if there is one.                                              *)
Unsubscribe(r) ==
  LET i == requestId[r]
      removed == [route EXCEPT ![i] = IF transport = "mqtt" THEN {}
                                      ELSE @ \ record[i]]
  IN
  /\ pc[r] = "unsubscribing" /\ MutexFree
  /\ \/ /\ route' = removed
        /\ record' = [record EXCEPT ![i] = {}]
        /\ served' = served \ {i} /\ refused' = refused \ {i}
        /\ unsubscribed' = [unsubscribed EXCEPT ![r] = "ok"]
     \/ /\ transport = "mqtt" \/ record[i] # {}
        /\ route' = route \/ (transport = "mqtt" /\ route' = removed)
        /\ \/ UNCHANGED session
           \/ served' = served \ {i} /\ refused' = refused \ {i}
        /\ unsubscribed' = [unsubscribed EXCEPT ![r] = "failed"]
        /\ UNCHANGED record
  /\ pc' = [pc EXCEPT ![r] = "closing"]
  /\ UNCHANGED <<transport, requestId, outcome, response, channels, hook,
                 wire, handling, panic>>

(* Lines 62-63: both channels are closed. *)
Close(r) ==
  /\ pc[r] = "closing"
  /\ chans' = [chans EXCEPT ![r] = "closed"]
  /\ pc' = [pc EXCEPT ![r] = "returned"]
  /\ UNCHANGED <<transport, requestId, outcome, response, unsubscribed,
                 messages, errs, table, session, hook, wire, handling, panic>>
----------------------------------------------------------------------------
(* A responder answers a request, perhaps more than once. *)
Respond(m) ==
  /\ m.for \in asked
  /\ m.n = Cardinality({a \in net : a.for = m.for}) + 1
  /\ net' = net \union {m}
  /\ UNCHANGED <<transport, caller, channels, table, session, hook, asked,
                 delivered, again, handling, panic>>

(* The library starts a handler of the topic with a response: one that the  *)
(* request has not had (MQTT brokers retain it for a new subscription), or  *)
(* one that the broker delivers again because no acknowledgement of it came *)
(* (JetStream; MQTT after a reconnect), however often.  It may have left    *)
(* the broker before that ceased to serve the topic.                        *)
Dispatch(r, m) ==
  /\ m \in net /\ r \in route[requestId[m.for]]
  /\ <<m, r>> \in delivered => transport = "jetstream" \/ reconnects > 0
  /\ handling[r] = {}
  /\ transport = "mqtt" => \A q \in Requests : handling[q] = {}
  /\ delivered' = delivered \union {<<m, r>>}
  /\ again' = IF <<m, r>> \in delivered THEN again \union {m} ELSE again
  /\ handling' = [handling EXCEPT ![r] = {m}]
  /\ UNCHANGED <<transport, caller, channels, table, session, hook, asked,
                 net, panic>>

(* The handler's send: it waits while the buffer is full. *)
HandlerSend(r) ==
  \E m \in handling[r] :
    /\ chans[r] = "open"
    /\ IF m.kind = "good"
       THEN /\ messages[r] = {}
            /\ messages' = [messages EXCEPT ![r] = {m}]
            /\ UNCHANGED errs
       ELSE /\ ~errs[r]
            /\ errs' = [errs EXCEPT ![r] = TRUE]
            /\ UNCHANGED messages
    /\ \E rest \in AfterSend(m) :
         handling' = [handling EXCEPT ![r] = rest]
    /\ UNCHANGED <<transport, caller, chans, table, session, hook, wire,
                   panic>>

HandlerPanic(r) ==
  \E m \in handling[r] :
    /\ chans[r] = "closed"
    /\ panic' = {[request |-> r, cause |-> m.kind]}
    /\ UNCHANGED <<transport, caller, channels, table, session, hook, wire,
                   handling>>
----------------------------------------------------------------------------
(* The MQTT connection is lost and restored: the session is still there, or *)
(* it was a clean one.                                                      *)
Reconnect ==
  /\ transport = "mqtt" /\ reconnects < MaxReconnects
  /\ reconnects' = reconnects + 1 /\ due' = due + 1
  /\ UNCHANGED session \/ (served' = {} /\ refused' = {})
  /\ UNCHANGED <<transport, caller, channels, table, todo, report, wire,
                 handling, panic>>

(* mqtt/client.go:131-137: onConnectHandler takes the mutex, for as long as *)
(* there is a subscription to re-create.                                    *)
OnConnect ==
  /\ due > 0 /\ todo = {}
  /\ due' = due - 1
  /\ todo' = {i \in Ids : record[i] # {}}
  /\ UNCHANGED <<transport, caller, channels, table, session, reconnects,
                 report, wire, handling, panic>>

(* Lines 138-143: one of these.  It fails because the connection is down    *)
(* again, or because the token times out.                                   *)
Resubscribe(i) ==
  LET routed == [route EXCEPT ![i] = record[i]] IN
  /\ i \in todo /\ report = {}
  /\ \/ /\ route' = routed /\ SubAck(i)
        /\ todo' = todo \ {i}
        /\ UNCHANGED report
     \/ /\ \/ UNCHANGED <<route, session>>
           \/ route' = routed /\ (SubAck(i) \/ UNCHANGED session)
        /\ report' = {i}
        /\ UNCHANGED todo
  /\ UNCHANGED <<transport, caller, channels, record, reconnects, due, wire,
                 handling, panic>>

(* Line 145: its error goes to the errs channel of the request, and waits   *)
(* with the mutex held while that is full.                                  *)
ReportError(i, r) ==
  /\ i \in report /\ r \in record[i]
  /\ \/ /\ chans[r] = "open" /\ ~errs[r]
        /\ errs' = [errs EXCEPT ![r] = TRUE]
        /\ todo' = todo \ {i} /\ report' = {}
        /\ UNCHANGED panic
     \/ /\ chans[r] = "closed"
        /\ panic' = {[request |-> r, cause |-> "reconnect"]}
        /\ UNCHANGED <<errs, todo, report>>
  /\ UNCHANGED <<transport, caller, chans, messages, table, session,
                 reconnects, due, wire, handling>>
----------------------------------------------------------------------------
Select(r)  == TimeOut(r) \/ ReceiveError(r) \/ ReceiveResponse(r)
CallerStep(r) == \/ Publish(r) \/ PublishEnds(r) \/ Select(r)
                 \/ Unsubscribe(r) \/ Close(r)
HandlerStep(r) == HandlerSend(r) \/ HandlerPanic(r)
HookStep == \/ OnConnect
            \/ \E i \in Ids : \/ Resubscribe(i)
                             \/ \E r \in Requests : ReportError(i, r)

Next == /\ panic = {}
        /\ \/ \E r \in Requests : Subscribe(r) \/ CallerStep(r)
                                  \/ HandlerStep(r)
           \/ \E m \in Messages : Respond(m)
           \/ \E r \in Requests, m \in Messages : Dispatch(r, m)
           \/ Reconnect \/ HookStep

(* A DoRequest that has begun is scheduled: publish ends within the token's *)
(* time limit, the timer fires, and so does unsubscribe once it has the     *)
(* mutex; a handler that can send does; onConnectHandler goes on unless its *)
(* send waits.  Nobody owes an answer, and nobody frees the mutex.          *)
Fairness == /\ \A r \in Requests : /\ WF_vars(panic = {} /\ CallerStep(r))
                                   /\ WF_vars(panic = {} /\ HandlerStep(r))
            /\ WF_vars(panic = {} /\ HookStep)

Spec     == Init /\ [][Next]_vars
FairSpec == Spec /\ Fairness
----------------------------------------------------------------------------
TypeOK ==
  /\ transport \in {"mqtt", "jetstream"}
  /\ pc \in [Requests -> {"idle", "publishing", "sent", "awaiting",
                          "unsubscribing", "closing", "returned"}]
  /\ requestId \in [Requests -> Ids]
  /\ chans \in [Requests -> {"none", "open", "closed"}]
  /\ messages \in [Requests -> SUBSET Messages]
  /\ errs \in [Requests -> BOOLEAN]
  /\ outcome \in [Requests -> {"none", "subscribe failed", "publish failed",
                               "timeout", "error", "response"}]
  /\ response \in [Requests -> SUBSET Messages]
  /\ unsubscribed \in [Requests -> {"none", "ok", "failed"}]
  /\ route \in [Ids -> SUBSET Requests]
  /\ record \in [Ids -> SUBSET Requests]
  /\ served \subseteq Ids /\ refused \subseteq Ids
  /\ reconnects \in 0..MaxReconnects /\ due \in 0..reconnects
  /\ todo \subseteq Ids /\ report \subseteq todo
  /\ asked \subseteq Requests
  /\ net \subseteq Messages
  /\ delivered \subseteq Messages \X Requests
  /\ again \subseteq net
  /\ handling \in [Requests -> SUBSET Items]
  /\ panic \subseteq [request : Requests, cause : Causes]

(* "Must create the subscription first so that it is in place when the      *)
(* request is handled and response published back" (request.go:54): as long *)
(* as a request is sent or waits, and nobody else uses its RequestID, its   *)
(* handler is routed.  Over MQTT the broker also serves the topic, or has   *)
(* refused to without anybody noticing, or it has forgotten it with the     *)
(* connection: then onConnectHandler has yet to re-create the subscription, *)
(* or its error is in the errs channel of the request (or another is).      *)
SubscribedWhileWaiting ==
  \A r \in Requests : LET i == requestId[r] IN
     pc[r] \in {"publishing", "sent", "awaiting"} /\ Unshared(r)
        => /\ r \in route[i]
           /\ transport = "mqtt" => \/ i \in served \union refused \union todo
                                    \/ due > 0 \/ errs[r]

(* "Once the response is received, the response topic is unsubscribed"      *)
(* (request.go:29): the handler outlives its request only when              *)
(* unsubscribing failed, or an MQTT subscribe failed after it had installed *)
(* the handler (nothing is deferred yet at line 56), or a second NATS       *)
(* subscription of the topic hid the first one; and the MQTT broker serves  *)
(* a topic only for a request at work or after one of these failures.       *)
RouteLeaksExplained ==
  /\ \A r \in Requests :
       pc[r] = "returned" /\ r \in route[requestId[r]]
         => \/ unsubscribed[r] = "failed"
            \/ transport = "mqtt" /\ outcome[r] = "subscribe failed"
            \/ transport = "jetstream" /\ ~Unshared(r)
  /\ \A i \in served : \E r \in Started :
       /\ requestId[r] = i
       /\ \/ pc[r] \in {"publishing", "sent", "awaiting", "unsubscribing"}
          \/ unsubscribed[r] = "failed" \/ outcome[r] = "subscribe failed"

(* A send on a closed channel has one of five causes: a request that        *)
(* returned without its response, more than one response to its topic, a    *)
(* response that the broker delivered again, a failed acknowledgement, or a *)
(* reconnect after a failed unsubscribe.  A request with an unshared        *)
(* RequestID that got its only response, once, is safe.                     *)
PanicExplained ==
  \A p \in panic : LET r == p.request IN
     \/ p.cause = "reconnect" /\ unsubscribed[r] = "failed"
     \/ p.cause = "ack" /\ transport = "jetstream"
     \/ p.cause \in Kinds /\ \/ outcome[r] # "response"
                             \/ ~Unshared(r)
                             \/ Cardinality({m \in net : m.for = r}) > 1
                             \/ \E m \in again : m.for = r

Phase(r) == IF pc[r] = "idle" THEN "idle"
            ELSE IF outcome[r] = "none" THEN "open" ELSE "done"
Reply == INSTANCE RequestReply WITH
           id <- requestId, answers <- net, reply <- response,
           phase <- [r \in Requests |-> Phase(r)]

(* DoRequest implements the promise of Request: one outcome per call; a     *)
(* response is a well-formed answer to a request of this RequestID.         *)
ImplementsReply == Reply!Spec

(* onConnectHandler holds the mutex and waits for room in the errs channel  *)
(* of a request whose unsubscribe waits for the mutex: nobody reads errs    *)
(* any more, and both wait for ever (mqtt/client.go:145 and :207).          *)
Stuck == \E i \in report : \A r \in record[i] :
           pc[r] = "unsubscribing" /\ chans[r] = "open" /\ errs[r]

(* Every call of DoRequest that has subscribed ends, also when nobody       *)
(* answers and however the connection comes and goes, unless it comes to    *)
(* that deadlock.  (A call that still waits for the mutex in subscribe is   *)
(* idle here.)                                                              *)
RequestsReturn ==
  \A r \in Requests :
    pc[r] # "idle" ~> (pc[r] = "returned" \/ panic # {} \/ []Stuck)

(* A handler blocked on the full buffer of its request does not hold up the *)
(* library for ever, with two exceptions: the request is in that deadlock,  *)
(* or its MQTT subscribe failed and left the handler behind, with channels  *)
(* that nobody reads or closes, and an answer to another request with its   *)
(* RequestID finds it there.                                                *)
HandlersFreed ==
  \A r \in Requests :
     handling[r] # {} ~> \/ handling[r] = {} \/ panic # {} \/ []Stuck
                         \/ outcome[r] = "subscribe failed" /\ ~Unshared(r)

(* "If no response is received within the timeout period, a timed out error *)
(* [is] returned" (request.go:30-31): a response that comes too late does   *)
(* nothing; in particular it does not end the process.                      *)
LateResponseIsHarmless ==
  \A p \in panic : p.cause \in Kinds => outcome[p.request] # "timeout"
=============================================================================
