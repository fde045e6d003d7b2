# go-mod-messaging in TLA+

TLA+ models of `edgexfoundry/go-mod-messaging`: the message clients of EdgeX
over MQTT and NATS, the request/response helper, the critical-operation
manager and the data conversions around them. TLC checks the models on small
instances; TLAPS proves what matters most for every instance.

```
tlc -workers 2 -config MCCriticalOps.cfg MCCriticalOps     # one run
tlapm CriticalOpsProofs.tla                                # the proofs, so the other *Proofs modules
```

`PROJECT.json` lists components, runs, the source lines each definition stands
for, the findings, the hazards and the theorems.

## 1. Inventory

| Component | Source | State | Operations |
|---|---|---|---|
| Critical operation manager | `internal/pkg/criticalops.go` | map of channels, a `sync.WaitGroup`, a mutex | `RegisterCriticalOperation`, `WaitForCriticalOperations` |
| Request helper | `internal/pkg/request.go` | two channels per call | `DoRequest` |
| MQTT client | `internal/pkg/mqtt/client.go` | `mqttClient`, `configuration`, `existingSubscriptions`, `subscriptionMutex` | `Connect`, `Disconnect`, `Publish*`, `Subscribe*`, `Unsubscribe`, `Request`, `onConnectHandler`, `newMessageHandler` |
| NATS client | `internal/pkg/nats/client.go`, `connection.go` | connection, `existingSubscriptions` | the same operations, `Ack` after delivery |
| JetStream | `internal/pkg/nats/jetstream/` | stream, durable consumers | subscribe options, `QueueSubscribe` |
| NATS marshallers, topics | `internal/pkg/nats/marshaller.go`, `topics.go` | none | header and JSON marshalling, topic to subject and back |
| Message envelope | `pkg/types/message_envelope.go`, `messaging/envelope/` | none (environment switches) | constructors, `GetMsgPayload`, payload conversion |
| Configuration | `internal/pkg/config.go`, `mqtt/client_options.go`, `nats/options.go`, `messaging/mqtt/configuration.go` | option structs, the map of optional texts | `Load`, defaults, TLS configuration, the options builder |
| Command client | `clients/command.go` | a message client | three command requests |
| Factory, interface, errors, no-op clients, mocks | `messaging/`, `internal/pkg/` | none | selection by type |

How they interact. The application owns the channels: a `TopicChannel` pairs a
topic with a channel of messages, and one errors channel serves a whole
`Subscribe`. The libraries (paho, nats.go) own the goroutines: they call the
message handlers and, for MQTT, `onConnectHandler` after every successful
connect and reconnect. The handlers write into the application's channels.
`DoRequest` is an application of the client it is given: it subscribes a
response topic, publishes, waits for a message, an error or its timer, and in a
deferred function unsubscribes and closes its channels. The clients
hand `RegisterCriticalOperation` and `WaitForCriticalOperations` through to
their own manager.

What is hard here:

* goroutines of the library, of the client and of the application meet on a
  mutex and on bounded channels: `onConnectHandler` writes an errors channel with
  the mutex held (`mqtt/client.go:145`), handlers write channels
  that `DoRequest` closes (`request.go:62-63`);
* acknowledgements, timeouts and losses of the connection come in any order, a
  timed-out operation may still take effect at the broker, and a refused
  subscription looks like a success;
* brokers deliver again what was not acknowledged;
* the broker forgets a clean session; the client must restore it;
* `sync.WaitGroup` has rules on reuse that the manager's callers cannot see;
* the same topic or RequestID may be used by two callers at once;
* JetStream stores once and pushes again: publication, hand-over and
  acknowledgement can each be repeated or lost;
* an MQTT client reads its options when it first connects, a NATS client when it is
  created, from a map that the options builder still holds;
* one goroutine of paho runs all message handlers and everything behind them waits;
* the form of a payload depends on the caller, on two environment switches of the
  sender, on the transport, and on the environment of the receiver; an object that
  travels inside a JSON envelope comes out as a map of float64.

What makes each component correct:

* the manager is a barrier: TRUE only when everything registered before the
  call has finished, no lost wakeup, no miscounting, no leaked goroutine;
* a request ends exactly once, with a well-formed answer to its own RequestID or
  a failure, finds its handler in place, leaves no subscription behind and does
  not block or bring down the library when answers come late or twice;
* the MQTT client's record, paho's routes and the broker's session agree at rest;
  every connect restores or reports every record, refusals apart; every call and
  every `onConnectHandler` ends;
* the NATS client reaches every subscription it made until it is unsubscribed, and
  what it acknowledges the application has;
* a client of a library exists only with exactly the options that were given, and
  no other connection than the one that `Disconnect` closes stays open unnoticed;
* MQTT messages come once and in order where the options promise it, and what the
  broker took for a lasting session comes at all;
* a conversion gives back what was put in, or an error, and never something else.

## 2. Plan

| Order | Module | Composes / refines | State |
|---|---|---|---|
| 1 | `CompletionBarrier`, `CriticalOps`, `CriticalOpsProofs` | `CriticalOps` implements `CompletionBarrier` | done, proved |
| 2 | `RequestReply`, `DoRequest`, `DoRequestProofs` | `DoRequest` implements `RequestReply` | done, proved |
| 3 | `MqttClient`, `MqttClientProofs` | | done, checked; safety proved |
| 4 | `NatsClient`, `NatsClientProofs` | | done, checked; safety proved |
| 5 | `NatsDelivery`, `NatsDeliveryProofs`: publication, push, acknowledgement | | done, checked; safety proved |
| 6 | `EnvelopePath`, `EnvelopePathProofs`: constructors, payload forms, content types, marshallers, topics | | done, checked; safety proved |
| 7 | `ClientConfig`: options and TLS; `ClientStart`, `ClientStartProofs`: from the factory to a connection | `ClientStart` uses `ClientConfig` | done, checked; safety proved |
| 8 | `MqttDelivery`, `MqttDeliveryProofs`: publication, broker, handlers, readers | composes and implements `ClientStart` | done, checked; safety and refinement proved |
| 9 | Qos 2 in `MqttDelivery`; the duration arithmetic of `Disconnect` | | open |

Runs stay small (two requests, two topics, three calls, two connects) because
the interesting orders need two actors of each kind; the proofs cover every
number of them. Theorems worth proving: every safety invariant that a run checks
and the three refinements. All of these are proved; what is left is liveness,
which is for TLC alone.

## 3. The models

### CriticalOps

An element of `Ops` is one `RegisterCriticalOperation` and its goroutine
(`op`: new, receiving, received, waking, deleting, ended); an element of
`Waits` is one `WaitForCriticalOperations` (`wait`) and the goroutine it spawns
(`helper`). `criticalOperations` is the map, `counter`, `waiters` and `sema` are
the `WaitGroup`'s state word and semaphore. `Register` is a single step since
its caller holds `criticalOpsMutex`, which only `Delete` takes besides. `Done`
and `Wake` are two steps because the decrement and the release of the waiters
are two atomic steps in `sync`: registrations and waits may come in between. The
two documented panics of `WaitGroup` (an `Add` from zero while a waiter is
counted, a waiter that wakes to a group in use again) are modelled; a panic ends the process.

| Property | What it says |
|---|---|
| `CounterExact` | the group counts exactly the registrations without `Done`, also when they share a channel |
| `NoLostWakeup` | a sleeping helper always has a `Done`, a release or a token to come |
| `MapMatchesOperations` | no stale entry; an entry for every unfinished operation with a channel of its own |
| `PanicOnlyOnOverlap` | no panic unless a registration met a sleeping helper |
| `ImplementsBarrier` | refinement of `CompletionBarrier`: TRUE only when everything registered before the call has been signalled since |
| `WaitersWake` (liveness) | helpers left behind by timeouts end once the operations have their signals |

Run `criticalops`: two registrations on one or two channels, two waits, channels
holding one value. That is the least with which generations overlap. Run
`criticalops_reuse` shows finding 1.

### DoRequest

`pc` follows `DoRequest` through its statements; `chans`, `messages`, `errs` are
the two channels; `requestId` stands for the RequestID and so for the response
topic. Publishing is two steps: `Publish` hands the request to the library, and from
then on it may be answered; `PublishEnds` is the return of publish with the token or
with an error. Of the client only what the request depends on is kept: `route`
(handlers that get a topic's messages), `record` (the one in
`existingSubscriptions`), for MQTT what the broker makes of the topic (`served`, or
`refused` in its last SUBACK) and `onConnectHandler`. MQTT has one handler per topic
and runs all handlers in one goroutine; NATS keeps every subscription, each with its
goroutine, and under JetStream acknowledges after delivery and reports a failed
acknowledgement on the errors channel. `HandlerSend` is the blocking send,
`HandlerPanic` the send on a closed channel.

`Dispatch` gives a response to a handler, and again as often as the broker likes
where it may: JetStream without an acknowledgement, MQTT after a reconnect. It does
not ask whether the broker serves the topic now, since the response may have left it
before. `Reconnect` keeps or loses the broker's session and makes an
`onConnectHandler` due, which goes through the records (`OnConnect`, `Resubscribe`,
`ReportError`) with `subscriptionMutex` held: that it is held is `todo # {}`, and
`Subscribe` and `Unsubscribe` wait for it (`MutexFree`). The calls themselves hold it
within one step. A subscription that fails, in `Subscribe` or `Resubscribe`, may have
reached paho, or the broker too.

| Property | What it says |
|---|---|
| `SubscribedWhileWaiting` | while a request with its own RequestID is sent or waits, its handler is routed; over MQTT the broker serves the topic, or refused it unnoticed, or it is to be re-created, or an error is in the request's channel |
| `RouteLeaksExplained` | a response topic outlives its request only after a failed unsubscribe, an MQTT subscribe that failed half way, or a hidden second NATS subscription; the MQTT broker serves a topic only for a request at work or after such a failure |
| `PanicExplained` | a send on a closed channel needs a lost, late, second, misdirected or redelivered answer, a failed acknowledgement, or a reconnect after a failed unsubscribe |
| `ImplementsReply` | refinement of `RequestReply` |
| `RequestsReturn`, `HandlersFreed` (liveness) | a request that has subscribed ends and a handler blocked on its full buffer is released, unless the request and `onConnectHandler` wait for each other (`Stuck`) |

`Stuck` is finding 3 with `DoRequest` as the reader: `onConnectHandler` waits at
`mqtt/client.go:145` for room in the request's errors channel, which nobody reads any
more, while the deferred unsubscribe waits at `mqtt/client.go:207` for the mutex.
`HandlersFreed` also excepts a request whose MQTT subscribe failed and left its
handler behind: its channels are neither read nor closed, and a response to another
request of that RequestID blocks it.

Run `request`: two requests that may share their RequestID, one response each, both
transports, one reconnect; requests and RequestIDs are interchangeable, and no
liveness is checked there, so that TLC may use the symmetry. Run `request_live`: one
request, two responses that may come again, two reconnects (one to fill the errors
channel, one to find it full), under fairness; `PanicExplained` is checked there again
because only there a topic gets a second response. Run `request_late`: finding 2.

### MqttClient

The holder of `subscriptionMutex` works on the topics `todo`, one token (`cur`,
`token`) at a time; that there is one such record rather than one per goroutine
is the mutex. `record` is `existingSubscriptions`, `route` paho's router, `out`
the packets to the broker, `session` what the broker delivers. `Subscribe` goes
topic by topic, `Unsubscribe` sends one packet for all; a token is acknowledged,
refused before it is sent, or fails after it was sent (timeout, loss)
with the broker obeying or not. A SUBACK with a failure code acknowledges the token
like any other (`Reject`, for the topics of `Forbidden`): paho keeps the code in the
token's result, which `getTokenError` does not read, so that the client records a
topic that the broker does not serve (`rejected`). `Connected` covers first connect and reconnect
and makes one more `onConnectHandler` due. The maps are ranged over in any
order. The history variables `doubtful` and `reported` hold the topics whose last
call failed after it was sent, and the failures the latest handler reported.

| Property | What it says |
|---|---|
| `RecordsServed` | after a connect and its handler every record is served, reported, in doubt, or refused in the broker's last answer, which nobody reads |
| `NoGhostSubscription` | the broker serves nothing unrecorded, doubtful topics apart |
| `RouteIsRecorded` | paho routes a topic to the handler a reconnect would install |
| `CallsReturn`, `HandlerEnds` (liveness) | calls and reconnect handlers end, whatever the connection does, unless a reader of the full errors channel itself waits for the mutex (`StuckReader`) |

Run `mqtt`: a Subscribe of two topics, a Subscribe that replaces the first, an
Unsubscribe of the first, two connects, an errors channel of one slot whose reader
may make a call for each error, and a broker that may refuse the first topic: a
reconnect can fall into every gap of every call, and a second failure finds the
channel full. Run `mqtt_react`, on the same
instance, shows that `StuckReader` is not an idle exception: finding 3.

### NatsClient

One action per topic of a loop of `Subscribe` or `Unsubscribe`, under
`subscriptionMutex` (`mutex`, `todo`). A subscription is named by the call and the
topic that made it; `record` is `existingSubscriptions`, `live` what the connection
delivers to. `conn` is `c.connection` (`none` is nil; it never becomes nil
again) with the life of the NATS connection behind it: `Disconnect` starts a drain,
`Closed` is its end or nats.go giving up, both may come between any two topics of a
call. `NewConnection` has both factories; a JetStream attempt that fails after it
has connected leaves a `stray` connection. `UnsubscribeFails` goes on with the
other topics, `SubscribeFails` returns. `ConsumerStays` is JetStream's second
way to fail: the subscription is gone, deleting its consumer fails, the record stays.

| Property | What it says |
|---|---|
| `LiveIsReachable` | what is delivered to can be unsubscribed, except a subscription hidden by a later one of its topic |
| `UnsubscribeHonest` | an Unsubscribe without an error leaves nothing live on its topics, the hidden apart |
| `RecordIsLive` | over core NATS a record on an open connection is live, so that Unsubscribe can succeed |

Run `nats`: two Subscribes and two Unsubscribes over overlapping topics. Run
`nats_stray`: finding 4.

### NatsDelivery

From `Publish` to the application's channels. `stream` is what the broker took
(with JetStream, once per message id while the duplicate window lasts: `Forget` lets
it pass over the oldest id, and `late` remembers what was taken for that), `pushes` how often it pushed each position,
`pending` what is on its way to the handler, which runs one message at a time
(`at`, `step`): hand over or report, acknowledge, report a failed acknowledgement.
The sends block on full channels. `Ack` may fail with the broker having
seen it or not; without `ExactlyOnce` it may also be lost without an error.

| Property | What it says |
|---|---|
| `AckedWasHandedOver` | the broker only forgets what the application has, as a message or as an error |
| `TwiceOnlyIfPushedAgain` | with `ExactlyOnce` a message comes twice only if it was pushed twice or the broker had forgotten its id, however often it was published |
| `AcceptedArrives` (liveness) | what `Publish` accepted reaches the application over lost pushes and acknowledgements |

`AcceptedArrives` is satisfied by another message of the same correlation when
`ExactlyOnce` is on: the message id is `ClientId-CorrelationID`, so that the broker
takes the second message of a correlation for a repetition of the first and
`Publish` still returns nil. The run has two such messages, one malformed.

### ClientConfig and ClientStart

`ClientConfig` holds operators only. A map of options is a function from names to
texts; `IntOf` and `BoolOf` say what `strconv` makes of a text and `Unusable` which
texts fail as a certificate, key, CA or seed. `Load` goes through the fields in the
order of the struct and stops at the first bad text, with the fields before it set,
as the code does; `LoadBoth` throws the half-loaded struct away.
`GenerateTLS`, `Certificate` and `CaCertificate` decide which material counts.

`ClientStart` adds the state: `given` is the map that the application and the client
share, `conns` the clients of the library made so far with their options and the
status of their connections, `own` the one in the client's field (`mqttClient` or
`connection`). A call of `Connect` goes through `Look`, `MakePaho` or `MakeNats`,
`TestConnected`, `Dial` and `TokenEnds`, each an access to the unguarded field or a
wait, so that two calls interleave. `SetOption` is the builder's methods after
`Build`.

| Property | What it says |
|---|---|
| `ConfiguredAsGiven` | a client of a library is made only when every given text could be taken, with all of them in force and the defaults for the rest; for TLS, a certificate and key of one source, nothing unusable, verification skipped only if asked |
| `StraysExplained` | an open connection that `Disconnect` cannot close comes from two concurrent calls of `Connect` or from a JetStream attempt that failed after it had connected |

`ConfiguredAsGiven` compares with the map as it was when the code read it: an MQTT
client follows the shared map up to its first `Connect`, a NATS client does not.

### MqttDelivery

Messages over a connection that `ClientStart` made. `outbox` is what paho has to
send or has no receipt of, `inbound` what is on its way to the client, `handling`
the one handler that paho's router runs, `channel` and `errors` the application's
channels, `unacked` and `stored` what the broker keeps for the session and of
retained messages. A handler returns when its send finds room (`Room`: a free
slot, or for an unbuffered channel a reader that waits), and only then its message
is acknowledged. A reader may publish in its own loop (`ReplyTo`), and waits for the
token meanwhile. `Lose` and `ComeUp` do what paho and the broker do with what is
under way, by Qos and CleanSession.

| Property | What it says |
|---|---|
| `OnceInOrder` | messages of a topic arrive once and in the order of publication; one that is retained or sent again over a new connection may come once more; one that is sent again may come late if it was published before the topics were subscribed, or if the session is clean and a later one was retained |
| `TakenArrives` (liveness) | what the broker took for a lasting session, with Qos 1, is handed over as a message or an error |
| `RouterGoesOn` (liveness) | the router is free again and again, also when a reader that publishes waits for a receipt that waits behind the reader's next message |

Run `mqtt_life` has all of this; its initial states are of three kinds
(`MCMqttDelivery`): `ConfigSetups`, every map of TLS texts and of one other option
with good and bad texts; `RaceSetups`, two calls of `Connect` on each kind of client
with options set late; `TrafficSetups`, scripts of one or two messages with each
way to assure, keep and retain them.

The last case of `OnceInOrder` came out of the work on its proof: with Qos 1, a clean
session and retained messages, the connection is lost before the first message
reaches the reader, the new subscription is answered with the second, which was
retained, and only then paho sends the first again. `TrafficSetups` has a setup for it.

### EnvelopePath

One message through constructor, marshaller, transport, unmarshaller and reader,
with every combination of inputs and environment switches as initial states. Data
is its Go form (object, map, bytes, string) and the encodings over its content, so
that a value of the wrong encoding is seen and never compared by accident. An object
that was inside an envelope is a map for the receiver (`InJson`, `InCbor`), since
`Payload` is an `any`: JSON makes a float64 of every number and a string of `[]byte`,
CBOR keeps them. `FromAny` encodes the map again by the content type; whether that
gives the object back depends on the largest integer in it (`numbers`: none, one
that float64 holds, one beyond 2^53, one at the end of its type's range). What
differs by transport is in `OnWire`, `Send` and `Receive`: over MQTT the whole
envelope is JSON or CBOR by the environment of each end, the native NATS format
carries the payload as bytes and the rest in headers; a query parameter there is a
line `key:value`, which the receiver splits at every colon and trims (`InHeader`).
The wire `external` is a
message from an MQTT bus outside EdgeX, read by `NewMessageEnvelopeFromJSON`, which
takes requests and responses in JSON only (`Decodable`).

| Property | What it says |
|---|---|
| `ObjectArrives` | an object comes out as it went in, on every path but one: inside a JSON envelope, with an integer beyond float64, or with the CBOR content type and any integer or `[]byte` |
| `BytesArrive` | a caller's bytes come out as they went in, on every path |
| `MistakesExplained` | wrong data without an error only in four named cases: a string asked of what JSON carried as base64, bytes asked of a text that happens to be base64, an error text over native NATS, a rounded integer |
| `HeadersArrive` | topic and query parameters arrive, except for the characters of NATS in a topic and, in a native header, a colon, a line break or white space at an end |

Run `envelope` checks all of them, with query parameters that have a blank inside and
at an end, a colon in the key and in the value, and a line break.

## 4. Bounds

`MaxSends` values in a signal channel, `MaxResponses` per request, `MaxReconnects`
of a request's connection, `MaxConnects` connects, `MaxDials` attempts of a NATS connect, `MaxPublish` publications,
`MaxPush` pushes of a message and the `Capacity` of the application's channels are
the only caps, with `losses` of a setup of `MqttDelivery` (connections lost while
messages are under way) and the two calls of `Connect`. The message and error channels of `DoRequest` have their real
capacity of one. All of them are proved irrelevant for safety: `MaxSends` for the manager,
`MaxResponses` and `MaxReconnects` for requests, `MaxConnects` and `Capacity` for the MQTT client,
`MaxDials` for the NATS client, `MaxPublish`, `MaxPush` and `Capacity` for its
delivery, `Capacity`, `losses`, the number of messages and of calls of `Connect` for
MQTT's. They limit what the runs say of liveness. A capacity of one makes every second send
block; two pushes are the least with a redelivery, three publications of two
messages the least with a retry next to another message. `MqttDelivery` runs with
`Capacity` 0, the unbuffered channels of the repository's own tests, where every hand-over
waits for its reader; one loss of the connection falls into every gap of a
publication and its delivery, two losses into a redelivery. The proofs of `MqttClient`,
`NatsDelivery` and `MqttDelivery` are for every `Capacity`, 0 among them; the runs of the
first two have 1. Redeliveries of a response to `DoRequest` have no bound. The largest
runs: `nats_delivery` (3.2 million states), `mqtt` (1.5 million), `envelope` (0.6 million).

## 5. Fairness

Weak fairness of every goroutine that can run (the Go scheduler), of
`TokenFails` (`WaitTimeout` with `ConnectTimeout`), and of the timer in
`DoRequest`. That an unsubscribe of `DoRequest` returns is not assumed: it runs once
the mutex is free, and whether it becomes free is up to `onConnectHandler`, which may
wait for ever for room in an errors channel (`Stuck`, `StuckReader`). Strong fairness only of `ReportError`: Go queues the
senders blocked on a channel, so a blocked one is not overtaken for ever by
other senders. In `NatsDelivery` also of the broker's pushes: it
repeats them without limit, which the model, whose pushes are bounded,
renders by letting only the last of the bound be sure to arrive. The application is assumed to read its errors channels, in `MqttDelivery` also its
messages, but a reader may be busy publishing. There the broker also serves a
connection that is up, and paho reconnects one that it lost (`ComeUp`): that is what
AutoReconnect promises, and `TakenArrives` excepts a connection that stays down. Nothing else is
assumed of the network, the broker, responders, or of an application's signals.

## 6. What is proved

Every safety invariant of a passing run and the three refinements
(`CriticalOps` of `CompletionBarrier`, `DoRequest` of `RequestReply`, `MqttDelivery` of
`ClientStart`) are theorems, for every value of the constants that satisfies the
named assumptions. Each invariant below was model-checked before it was proved.

`CriticalOpsProofs`, for every finite set of operations and waits and every set
of channels and bound: `TypeCorrect`, `CounterCorrect`, `WakeupsKept`, `MapCorrect`,
`DisciplinedUseIsSafe` and `BarrierImplemented`.

`TypeOK` and `CounterExact` need each other (the counter stays a natural number
because a `Done` is counted). The other properties are not inductive; the
invariant `IInv` adds four parts. `WakingAlone`: an operation that is about to
release the waiters is the only one, with the counter at zero and waiters
counted; otherwise a second `Done` could be thought to reach zero too.
`WaitsPaired`: a call is idle exactly when its helper does not exist, and TRUE
comes from a finished helper. `OwedRunning`: what a wait is owed is still
receiving, and nothing once its helper is done; it supplies the guard of
`AnswerTrue` in the refinement. `QuietWithoutOverlap`: without an overlap an
outstanding token means an idle group, which is why a waiter cannot panic then.
The refinement maps `Register`, `Receive`, `Call`, `ReturnTrue` and
`ReturnFalse` to the barrier's actions, everything else to stuttering.

The assumptions are `OpsFinite`, `WaitsFinite`, `SendsBound`.

`DoRequestProofs`, for every set of requests and of RequestIDs, every choice of the
given ones and every number of responses, redeliveries and reconnects:
`TypeCorrect`, `HandlerWaits` (`SubscribedWhileWaiting`), `LeaksAreExplained`
(`RouteLeaksExplained`), `ReplyImplemented` (the refinement) and `PanicsAreExplained`
(`PanicExplained`). Its `IInv` adds
to `TypeOK`: `OutcomeAtSelect`, which makes the abstract phase a function of
where the request is; `AskedThenAnswered`, so that an answer exists only for a
request that has its RequestID for good; `RoutedToOwnTopic` and `HeldFits`, which
follow a response from the topic through the running handler into the buffer and
so supply the guard of `Answer`; `HandlerInPlace` and `TopicInHand`, the two halves
of `SubscribedWhileWaiting`; `RecordIsOwn`: the record of a topic nobody shares is its
request's until the unsubscribe, so that `onConnectHandler` re-creates just that, and
a NATS unsubscribe takes just that away; `RecordExplained`: a reconnect
finds a record only of a request at work or of one whose unsubscribe failed;
`TodoRecorded`: what `onConnectHandler` has left is still recorded, because it has the
mutex; `LeaksExplained` and `ServedExplained`, which carry the two halves of
`RouteLeaksExplained` from the unsubscribe to the return. The key
lemma is `OthersKeepOff`: while a request is alone with its RequestID, no step
but its own unsubscribe takes its handler from the route. The refinement maps
`Subscribe` to `Open` or `Refuse`, `Publish` to `Ask` or `Fail`, a failing
`PublishEnds`, `TimeOut` and `ReceiveError` to `Fail`, `ReceiveResponse` to `Answer`,
`Respond` to `Produce` and everything else to stuttering. `PanicExplained` says how many
answers there were, so that its invariant, `PInv`, counts: a handler about to send
holds an answer that was delivered to it and, unless one came again, is another one
than the buffer's and the one received (`DeliveredOnce`); if the channel is closed, the
request has returned (`ClosedAtReturn`), and then it returned without a response, or
there were two, or one came twice. Assumptions: `GivenIds`, `Responses`, `Reconnects`.

`MqttClientProofs`, for every set of topics, of calls and of errors channels with
their readers, any capacity and any number of connects: `TypeCorrect`,
`RecordsAreServed`, `NoGhosts` and `RouteMatchesRecord`. The three properties speak of
a client at rest; the invariant, `IInv`, says how far records, routes and session may
be apart while the holder of the mutex is at work. `HolderWorks`: there is one holder.
`AwaitedIsLast` and `StaleExplained` describe the packets on their way to the broker:
the one that is waited for is the last and is the holder's, and any other belongs to a
topic in doubt, subscribes what is recorded anyway, or is the one that has just
failed. This is needed because a timed-out packet still takes effect, possibly during
a later call. `AckedIsDone`: between the acknowledgement and the update of the record
only a connect can have undone the work, and then a handler is due.
`SessionExplained`, `RouteFollows` and `RecordsOwed` are the three
properties with the holder's current topics (`Uncertain`, `Target`, `Owed`) excepted. A refusal is
an acknowledgement (`AckedIsDone`: the topic is served or `rejected`), and a topic is
`rejected` only while the broker does not serve it.
Assumptions: `CallShape`, `Options`.

`NatsClientProofs`, for every set of topics and of calls and any `MaxDials`:
`TypeCorrect`, `NoneLost` (`LiveIsReachable`), `NoLeftovers` (`RecordIsLive`) and
`UnsubscribeIsHonest` (`UnsubscribeHonest`). `HolderWorks`: the mutex is held by
the one call at work, so `todo` and `errs` are its own. `RecordedUnderItsTopic`:
taking one topic's record away leaves the records of the others alone.
`NoRecordBeforeConnect`: the first connection finds nothing recorded.
`Silenced`: an `Unsubscribe` without an error so far has silenced the topics it is
done with, which a `Subscribe` cannot undo while the mutex is held.
Assumptions: `CallShape`, `DialBound`.

`NatsDeliveryProofs`, for every set of messages, any correlations and malformed
ones, any capacity (unbuffered channels included), number of publications and of pushes
and any duplicate window: `TypeCorrect`,
`NoAckBeforeHandOver` (`AckedWasHandedOver`) and `PublishedAgainArrivesOnce`
(`TwiceOnlyIfPushedAgain`). `HandedBeforeAck` follows a message from the send to its
acknowledgement. `StoredOnce`: of two equal messages in the stream the second came
after the id of the first was forgotten; it reduces two messages in the application's
hands to two of one position, or to that case. `PushedIfSeen` and `PushedAgainIfSeenTwice` count them: a position
that is on its way, with the handler or handed over has been pushed, one that is in
two of these places has been pushed twice; the places have to be counted together
because `Take` and the sends move a position from one to the next. Assumptions:
`Envelopes`, `Limits`.

`ClientStartProofs`, for every set of configurations and any number of concurrent
calls of `Connect`: `StartConfigured` (`ConfiguredAsGiven`), and `StartInv`, from which
`StraysExplained` follows. `OneAtWork`: without a race a single call is at work, and it
makes a client only for an empty field; hence `StraysOfJetStream`: a client outside
the field is one of JetStream that came before the one in the field. For the options
the key lemma is about `Load` by itself, for every struct whose fields have different
names and every map of texts: if no field failed, the struct is what the map says and
keeps its defaults for the rest (`AsGiven`); `ConfigInv` remembers which map it was,
and the lemmas on `GenerateTLS` go through the sources of a certificate. Assumptions:
`TextShape` (a text is at most one number and at most one truth value, and the empty
text is no broken certificate) and `SetupShape`, the fields of a setup.

`MqttDeliveryProofs`, for every set of topics, messages, readers that publish, any
capacity and number of lost connections: `StartImplemented`, that `MqttDelivery` is a
behaviour of `ClientStart`: the traffic changes the status of a connection only as paho
or nats.go may, and makes none. It carries over `StartInv` and the properties of a
start (`StraysAreExplained`, `ConfigurationsAsGiven`). Then `TypeCorrect` and
`DeliveredOnceInOrder` (`OnceInOrder`), from `MqttInv`:

* `OneClient`, `UpFirst`: one client is dialled once, and nothing is under way
  before its connection is up, so that the options do not change under the messages;
* `PublishedOnce`: a message has one place in the order of publication;
* `OutboxInOrder`: paho's outbox keeps that order, a message leaves it only with its
  receipt, and with Qos 1 the broker takes none before an earlier one;
* `FromBroker`: everything on its way to the reader was taken by the broker;
* `InOrder`, for Qos 0 or before a loss: the order holds along the whole way, from
  the outbox over what is inbound and the running handler to the reader, with the
  retained message never older than what was handed over;
* `CleanInOrder`: after a loss with a clean session, when a message is at its reader,
  an earlier one has been there or will never come (it was not sent again, or its
  receipt is ahead of the later message);
* `LastingInOrder`: a session that lasts keeps what it took until it was handed over,
  and what it has not handed over is ahead of everything later;
* `HandedInOrder`: what the last two mean for the messages handed over so far.

The order has to be known in every place because each step moves a message from one
to the next; there is one lemma per action that moves one. Assumptions:
`MessageShape` and `TrafficShape`: finitely many topics, every message published once,
one call of `Connect` in a setup with traffic.

`EnvelopePathProofs`, for every set of topics and of query parameters (sequences of any
characters): `TypeCorrect`, `TopicsArrive` (`HeadersArrive`), `ObjectsArrive`,
`BytesDoArrive` and `MistakesAreExplained`. `PathInv` keeps the inputs and gives for each
stage what the envelope is as a function of them, and for a failure its cause
(`FailedFor`). The lemmas on the operators are `SubjectAndBack` (a topic without a
character that NATS has a use for comes back from its subject), `QueryAndBack` (a key
and a value without a colon, a line break or white space at an end come back from their
header), `JsonAndBack` (bytes come back from the text that JSON makes of them) and
`FromMap` (what becomes of an object on its way through `any`). Assumption: `Headers`.

TLC evaluates the assumptions in the runs.

Only model-checked: all liveness (the prover has no fairness): `WaitersWake`,
`RequestsReturn`, `HandlersFreed`, `CallsReturn`, `HandlerEnds`, `AcceptedArrives`,
`TakenArrives` and `RouterGoesOn`; and that the four findings occur.

## 7. Findings

1. `criticalops_reuse`: a registration between the last `Done` and the return of
   a waiter panics in `WaitGroup`; the waiter may be the helper of a wait that
   timed out long ago.
2. `request_late`: a handler that is already running when the request times out
   sends on a closed channel.
3. `mqtt_react`: `onConnectHandler` and a reader that calls the client wait for
   each other. `DoRequest` is such a reader (`Stuck`).
4. `nats_stray`: a JetStream connect that fails while provisioning leaves its
   connection open.

Read, but not run: over the native NATS format `natsMarshaller.Unmarshal` leaves the
payload as `[]byte` (`marshaller.go:113`), and the command client prints an error's
payload with `%v` (`command.go:70`), a list of numbers in place of the text that
`message_envelope.go:194` promises (the third case of `MistakesExplained`);
a SUBACK that refuses a topic is taken for a success by `Subscribe` and by
`onConnectHandler` (`RecordsServed` names the case); an object inside a JSON envelope has
its integers rounded to float64 without an error, such as a time in nanoseconds, which is
beyond 2^53 (`ObjectArrives` and `MistakesExplained` name the case; EDGEX_MSG_BASE64_PAYLOAD
or CBOR over MQTT avoids it), and with the sender's CBOR switch under NATS's JSON format
one with an integer does not decode at all; a colon, or white space at an end, of a query parameter changes
it in the native NATS format (`marshaller.go:132-133`);
`mqtt/client.go:228-232` says that the wait of `Disconnect` is "equal to the write
timeout" and the conversion "safe", but multiplies a duration by
`time.Millisecond` and passes it as milliseconds (5*10^15 for the default of 5 s,
which overflows again in paho); `SkipCertVerify` has no effect without a
certificate or CA, and a ConnectTimeout of 0 means 30 s to NATS, at odds with its default of 5 s; the error of `unsubscribe` is dropped by `DoRequest`, so that
a response topic that `request.go:29` calls unsubscribed may not be
(`RouteLeaksExplained` names the case); a second NATS Subscribe of a topic hides
the first from `Unsubscribe` (`interface.go:61`; `hidden` in `NatsClient`);
`interface.go:64-66` says of `Disconnect` that the
"TopicChannel will also be closed", which neither client does; the comment at
`mqtt/client.go:138` that `existingSubscriptions` is empty on the first
connection does not hold when a `Subscribe` comes before the handler's
goroutine, where the topic is simply subscribed again; `request.go:27` lists the
publication before the subscription, the code does it the other way round, with
reason.

## 8. Not modelled

Wording of errors, the error types, logging, what is inside certificates, generated
mocks and no-op clients, which return an error or panic and keep no state. Qos 2 of
MQTT. An envelope that does not marshal, in `Publish` over MQTT: the function returns
before anything happens (in `EnvelopePath` it is `SendFails`). How long `Disconnect`
waits: TLC's integers have 32 bits and the product overflows 64. Torn reads of the
unguarded `mqttClient` and `connection` fields, which are two words each: a call of
`Connect` reads an old or a new value. JetStream's deliver policy, durable consumers
and stream names, which choose what the broker pushes. The command client's topics
and its `returnEvent=false` answer.
