----------------------------- MODULE MqttClient -----------------------------
(* internal/pkg/mqtt/client.go: Connect, Disconnect, Subscribe (also of     *)
(* binary data), Unsubscribe and onConnectHandler, run concurrently by the  *)
(* application and by the paho library, and the errors channels to which    *)
(* onConnectHandler writes.                                                 *)
(*                                                                          *)
(* External, as the code uses them: the paho client (connection status,     *)
(* routes, tokens, the outbound packets in order) and the broker (the       *)
(* topics of the session).  The work of whoever holds subscriptionMutex is  *)
(* one record of the state, since nobody else can work.                     *)
EXTENDS Integers, Sequences, FiniteSets

CONSTANTS
  Topics,
  Calls,           \* calls of Subscribe and Unsubscribe
  Handler,         \* the goroutine of onConnectHandler that has the mutex
  Errs,            \* errors channels
  Kind,            \* Kind[c]: "subscribe" or "unsubscribe"
  Args,            \* Args[c]: its topics
  ErrsOf,          \* ErrsOf[c]: the errors channel of a Subscribe
  Capacity,        \* of every errors channel, 0 for an unbuffered one
  Reacting,        \* channels whose reader may make a call
  Forbidden,       \* topics that the broker may refuse to serve
  MaxConnects      \* bound: connections established

ASSUME CallShape == /\ Kind \in [Calls -> {"subscribe", "unsubscribe"}]
                    /\ Args \in [Calls -> (SUBSET Topics) \ {{}}]
                    /\ ErrsOf \in [Calls -> Errs]
                    /\ Handler \notin Calls
ASSUME Options   == /\ Capacity \in Nat /\ MaxConnects \in Nat
                    /\ Reacting \subseteq Errs /\ Forbidden \subseteq Topics

VARIABLES
  cleanSession,  \* the CleanSession option, fixed at the start
  conn,        \* "none" (no paho client), "connecting", "up",
               \* "reconnecting", "down"
  connects,    \* connections established so far
  due,         \* onConnectHandler goroutines that wait for the mutex
  call,        \* [Calls -> {"idle", "locking", "working", "ok", "error"}]
  mutex,       \* subscriptionMutex: {} or {its holder}
  todo,        \* topics the holder has not yet dealt with
  cur,         \* topics of the token it waits for
  token,       \* "none", "waiting", "acked", "refused" (never sent),
               \* "failed" (timed out or lost after it was sent)
  record,      \* existingSubscriptions: {} or {the Subscribe whose handler
               \* and errors channel are recorded}
  route,       \* paho's handler of each topic, likewise
  out,         \* paho's packets on their way to the broker
  session,     \* topics the broker delivers to this client
  rejected,    \* topics it refused to deliver, in its last SUBACK
  errors,      \* errors buffered in each channel
  reader,      \* {} or {the call a channel's reader is in}
  doubtful,    \* history: the topic's last call failed after it was sent
  reported     \* history: errors sent by the latest onConnectHandler

link   == <<cleanSession, conn, connects>>
work   == <<mutex, todo, cur, token>>
table  == <<record, route>>
broker == <<session, rejected>>
peer   == <<out, broker>>
app    == <<errors, reader>>
ghosts == <<doubtful, reported>>
vars == <<link, due, call, work, table, peer, app, ghosts>>

Recorded == {t \in Topics : record[t] # {}}
Holds(p) == mutex = {p}

(* Whether a send on an errors channel goes through: the buffer has room,   *)
(* or there is none, and the reader is there to take the error.             *)
Room(e) == \/ errors[e] < Capacity
           \/ Capacity = 0 /\ errors[e] = 0 /\ reader[e] = {}

Init ==
  /\ cleanSession \in BOOLEAN
  /\ conn = "none" /\ connects = 0 /\ due = 0
  /\ call = [c \in Calls |-> "idle"]
  /\ mutex = {} /\ todo = {} /\ cur = {} /\ token = "none"
  /\ record = [t \in Topics |-> {}]
  /\ route = [t \in Topics |-> {}]
  /\ out = <<>> /\ session = {} /\ rejected = {}
  /\ errors = [e \in Errs |-> 0]
  /\ reader = [e \in Errs |-> {}]
  /\ doubtful = {} /\ reported = {}
----------------------------------------------------------------------------
(* Connect creates the paho client the first time; connecting takes a while *)
(* and may fail.  A client that is connected, or reconnecting, is left.     *)
Connect ==
  /\ conn \in {"none", "down"} /\ connects < MaxConnects
  /\ conn' = "connecting"
  /\ UNCHANGED <<cleanSession, connects, due, call, work, table, peer, app,
                 ghosts>>

ConnectFails ==
  /\ conn = "connecting"
  /\ conn' = "down"
  /\ UNCHANGED <<cleanSession, connects, due, call, work, table, peer, app,
                 ghosts>>

(* paho starts onConnectHandler in a goroutine of its own, also for a       *)
(* reconnect; the broker has forgotten a clean session.                     *)
Connected ==
  /\ conn \in {"connecting", "reconnecting"} /\ connects < MaxConnects
  /\ conn' = "up"
  /\ connects' = connects + 1
  /\ due' = due + 1
  /\ IF cleanSession THEN session' = {} /\ rejected' = {}
                     ELSE UNCHANGED broker
  /\ UNCHANGED <<cleanSession, call, work, table, out, app, ghosts>>

(* Packets not yet served are gone; paho fails their tokens, and reconnects *)
(* by itself when AutoReconnect is set.                                     *)
ConnectionLost ==
  /\ conn = "up"
  /\ conn' \in {"reconnecting", "down"}
  /\ out' = <<>>
  /\ UNCHANGED <<cleanSession, connects, due, call, work, table, broker, app,
                 ghosts>>

Disconnect ==
  /\ conn \in {"connecting", "up", "reconnecting"}
  /\ conn' = "down"
  /\ out' = <<>>
  /\ UNCHANGED <<cleanSession, connects, due, call, work, table, broker, app,
                 ghosts>>
----------------------------------------------------------------------------
(* The broker serves the packets in order; an acknowledgement may come too  *)
(* late.  It may refuse a subscription: paho completes the token of that    *)
(* SUBACK like any other, and keeps the code in the token's Result, which   *)
(* getTokenError (307-323) does not read.  A topic that it delivers already *)
(* it goes on to deliver.                                                   *)
Taken(p) ==
  /\ out' = Tail(out)
  /\ token' \in {token} \union (IF p.awaited THEN {"acked"} ELSE {})
  /\ UNCHANGED <<link, due, call, mutex, todo, cur, table, app, ghosts>>

Serve ==
  /\ conn = "up" /\ out # <<>>
  /\ LET p == Head(out) IN
     /\ Taken(p)
     /\ session' = IF p.sub THEN session \union p.topics
                            ELSE session \ p.topics
     /\ rejected' = rejected \ p.topics

Reject ==
  /\ conn = "up" /\ out # <<>>
  /\ LET p == Head(out) IN
     /\ Taken(p) /\ p.sub /\ p.topics \subseteq Forbidden
     /\ rejected' = rejected \union (p.topics \ session)
     /\ UNCHANGED session

(* token.WaitTimeout gives up, or the token fails: nobody waits for the     *)
(* packet any more, though the broker may still get it.                     *)
TokenFails ==
  /\ token = "waiting"
  /\ token' = "failed"
  /\ out' = [i \in DOMAIN out |-> [out[i] EXCEPT !.awaited = FALSE]]
  /\ UNCHANGED <<link, due, call, mutex, todo, cur, table, broker, app,
                 ghosts>>

(* paho's Subscribe installs the handler at once; it refuses when it is not *)
(* connected.  While it reconnects with a session to resume it takes the    *)
(* handler but never sends the packet.                                      *)
PahoSubscribe(t, handler) ==
  /\ cur' = {t}
  /\ CASE conn = "up" ->
            /\ route' = [route EXCEPT ![t] = handler]
            /\ out' = Append(out, [sub |-> TRUE, topics |-> {t},
                                   awaited |-> TRUE])
            /\ token' = "waiting"
       [] conn = "reconnecting" /\ ~cleanSession ->
            /\ route' = [route EXCEPT ![t] = handler]
            /\ token' = "waiting"
            /\ UNCHANGED out
       [] OTHER ->
            /\ token' = "refused"
            /\ UNCHANGED <<route, out>>

(* paho's Unsubscribe drops the handlers once the packet is queued. *)
PahoUnsubscribe(ts) ==
  /\ cur' = ts
  /\ CASE conn = "up" ->
            /\ route' = [t \in Topics |-> IF t \in ts THEN {} ELSE route[t]]
            /\ out' = Append(out, [sub |-> FALSE, topics |-> ts,
                                   awaited |-> TRUE])
            /\ token' = "waiting"
       [] conn = "reconnecting" /\ ~cleanSession ->
            /\ token' = "waiting"
            /\ UNCHANGED <<route, out>>
       [] OTHER ->
            /\ token' = "refused"
            /\ UNCHANGED <<route, out>>
----------------------------------------------------------------------------
(* Subscribe and Unsubscribe, up to subscriptionMutex. *)
Begin(c) ==
  /\ call[c] = "idle" /\ conn # "none"
  /\ call' = [call EXCEPT ![c] = "locking"]

StartCall(c) ==
  /\ \A e \in Errs : reader[e] # {c}
  /\ Begin(c)
  /\ UNCHANGED <<link, due, work, table, peer, app, ghosts>>

Lock(c) ==
  /\ call[c] = "locking" /\ mutex = {}
  /\ call' = [call EXCEPT ![c] = "working"]
  /\ mutex' = {c}
  /\ todo' = Args[c]
  /\ UNCHANGED <<link, due, cur, token, table, peer, app, ghosts>>

(* The deferred unlock and the return. *)
Return(c, result) ==
  /\ call' = [call EXCEPT ![c] = result]
  /\ mutex' = {} /\ todo' = {} /\ cur' = {} /\ token' = "none"

Doubt(ts) == doubtful' = IF token = "failed" THEN doubtful \union ts
                                             ELSE doubtful

----------------------------------------------------------------------------
(* Seeded faults: actions with a plausible slip, used only to show that the *)
(* properties can fail.                                                     *)
RecordOnce(c) ==               \* an existing record is not replaced
  /\ Holds(c) /\ Kind[c] = "subscribe" /\ token = "acked"
  /\ record' = [t \in Topics |-> IF t \in cur \ Recorded THEN {c}
                                                       ELSE record[t]]
  /\ doubtful' = doubtful \ cur
  /\ IF todo = cur
     THEN Return(c, "ok")
     ELSE /\ todo' = todo \ cur /\ cur' = {} /\ token' = "none"
          /\ UNCHANGED <<call, mutex>>
  /\ UNCHANGED <<link, due, route, peer, app, reported>>

SubscribeFailsLocked(c) ==     \* the error path does not unlock
  /\ Holds(c) /\ Kind[c] = "subscribe" /\ token \in {"failed", "refused"}
  /\ Doubt(cur)
  /\ call' = [call EXCEPT ![c] = "error"]
  /\ UNCHANGED <<link, due, work, table, peer, app, reported>>

UnsubscribeFailsForgets(c) ==  \* the records go although the call failed
  /\ Holds(c) /\ Kind[c] = "unsubscribe" /\ token \in {"failed", "refused"}
  /\ record' = [t \in Topics |-> IF t \in cur THEN {} ELSE record[t]]
  /\ Doubt(cur)
  /\ Return(c, "error")
  /\ UNCHANGED <<link, due, route, peer, app, reported>>

ReportErrorAndStop ==          \* the first failure ends the loop
  /\ Holds(Handler) /\ token \in {"failed", "refused"}
  /\ \E t \in cur, c \in Calls :
       /\ record[t] = {c} /\ Room(ErrsOf[c])
       /\ errors' = [errors EXCEPT ![ErrsOf[c]] = @ + 1]
  /\ reported' = reported \union cur
  /\ todo' = {} /\ cur' = {} /\ token' = "none"
  /\ UNCHANGED <<link, due, call, mutex, table, peer, reader, doubtful>>

HandleUnlocked ==              \* onConnectHandler without the mutex
  /\ due > 0 /\ Handler \notin mutex
  /\ due' = due - 1
  /\ mutex' = mutex \union {Handler}
  /\ todo' = Recorded
  /\ reported' = {}
  /\ UNCHANGED <<link, call, cur, token, table, peer, app, doubtful>>
----------------------------------------------------------------------------
(* subscribe, lines 410-426, topic by topic. *)
SubscribeTopic(c) ==
  /\ Holds(c) /\ Kind[c] = "subscribe" /\ token = "none"
  /\ \E t \in todo : PahoSubscribe(t, {c})
  /\ UNCHANGED <<link, due, call, mutex, todo, record, broker, app, ghosts>>

RecordTopic(c) ==
  /\ Holds(c) /\ Kind[c] = "subscribe" /\ token = "acked"
  /\ record' = [t \in Topics |-> IF t \in cur THEN {c} ELSE record[t]]
  /\ doubtful' = doubtful \ cur
  /\ IF todo = cur
     THEN Return(c, "ok")
     ELSE /\ todo' = todo \ cur /\ cur' = {} /\ token' = "none"
          /\ UNCHANGED <<call, mutex>>
  /\ UNCHANGED <<link, due, route, peer, app, reported>>

SubscribeFails(c) ==
  /\ Holds(c) /\ Kind[c] = "subscribe" /\ token \in {"failed", "refused"}
  /\ Doubt(cur)
  /\ Return(c, "error")
  /\ UNCHANGED <<link, due, table, peer, app, reported>>

(* Unsubscribe, lines 210-223: one packet for all topics; the records go    *)
(* only once it is acknowledged.                                            *)
UnsubscribeTopics(c) ==
  /\ Holds(c) /\ Kind[c] = "unsubscribe" /\ token = "none"
  /\ PahoUnsubscribe(todo)
  /\ UNCHANGED <<link, due, call, mutex, todo, record, broker, app, ghosts>>

DeleteTopics(c) ==
  /\ Holds(c) /\ Kind[c] = "unsubscribe" /\ token = "acked"
  /\ record' = [t \in Topics |-> IF t \in cur THEN {} ELSE record[t]]
  /\ doubtful' = doubtful \ cur
  /\ Return(c, "ok")
  /\ UNCHANGED <<link, due, route, peer, app, reported>>

UnsubscribeFails(c) ==
  /\ Holds(c) /\ Kind[c] = "unsubscribe" /\ token \in {"failed", "refused"}
  /\ Doubt(cur)
  /\ Return(c, "error")
  /\ UNCHANGED <<link, due, table, peer, app, reported>>
----------------------------------------------------------------------------
(* onConnectHandler, lines 135-147. *)
LockHandler ==
  /\ due > 0 /\ mutex = {}
  /\ due' = due - 1
  /\ mutex' = {Handler}
  /\ todo' = Recorded
  /\ reported' = {}
  /\ UNCHANGED <<link, call, cur, token, table, peer, app, doubtful>>

Resubscribe ==
  /\ Holds(Handler) /\ token = "none"
  /\ \E t \in todo : PahoSubscribe(t, record[t])
  /\ UNCHANGED <<link, due, call, mutex, todo, record, broker, app, ghosts>>

Resubscribed ==
  /\ Holds(Handler) /\ token = "acked"
  /\ doubtful' = doubtful \ cur
  /\ todo' = todo \ cur /\ cur' = {} /\ token' = "none"
  /\ UNCHANGED <<link, due, call, mutex, table, peer, app, reported>>

(* subscription.errors <- err waits for room with the mutex held. *)
ReportError ==
  /\ Holds(Handler) /\ token \in {"failed", "refused"}
  /\ \E t \in cur, c \in Calls :
       /\ record[t] = {c} /\ Room(ErrsOf[c])
       /\ errors' = [errors EXCEPT ![ErrsOf[c]] = @ + 1]
  /\ reported' = reported \union cur
  /\ todo' = todo \ cur /\ cur' = {} /\ token' = "none"
  /\ UNCHANGED <<link, due, call, mutex, table, peer, reader, doubtful>>

UnlockHandler ==
  /\ Holds(Handler) /\ token = "none" /\ todo = {}
  /\ mutex' = {}
  /\ UNCHANGED <<link, due, call, todo, cur, token, table, peer, app, ghosts>>
----------------------------------------------------------------------------
(* A message that does not unmarshal: its handler (newMessageHandler) sends *)
(* the error.  Only sends that do not wait are modelled: one that waits     *)
(* delays paho's acknowledgements, which TokenFails covers.                 *)
BadMessage(t) ==
  /\ conn = "up" /\ t \in session
  /\ \E c \in route[t] :
       /\ Room(ErrsOf[c])
       /\ errors' = [errors EXCEPT ![ErrsOf[c]] = @ + 1]
  /\ UNCHANGED <<link, due, call, work, table, peer, reader, ghosts>>

(* The application reads its errors; a reacting reader may make a call in   *)
(* that goroutine, as the loop of client_integration_test.go does.          *)
ReadError(e) ==
  /\ errors[e] > 0 /\ reader[e] = {}
  /\ errors' = [errors EXCEPT ![e] = @ - 1]
  /\ \/ /\ e \in Reacting
        /\ \E c \in Calls : Begin(c) /\ reader' = [reader EXCEPT ![e] = {c}]
     \/ UNCHANGED <<call, reader>>
  /\ UNCHANGED <<link, due, work, table, peer, ghosts>>

ReaderReturns(e) ==
  /\ \E c \in reader[e] : call[c] \in {"ok", "error"}
  /\ reader' = [reader EXCEPT ![e] = {}]
  /\ UNCHANGED <<link, due, call, work, table, peer, errors, ghosts>>
----------------------------------------------------------------------------
Connection == \/ Connect \/ ConnectFails \/ Connected
              \/ ConnectionLost \/ Disconnect
Work(c) == \/ Lock(c)
           \/ SubscribeTopic(c) \/ RecordTopic(c) \/ SubscribeFails(c)
           \/ UnsubscribeTopics(c) \/ DeleteTopics(c) \/ UnsubscribeFails(c)
HandlerWork == \/ LockHandler \/ Resubscribe \/ Resubscribed
               \/ ReportError \/ UnlockHandler

Next == \/ Connection
        \/ Serve \/ Reject \/ TokenFails
        \/ \E c \in Calls : StartCall(c) \/ Work(c)
        \/ HandlerWork
        \/ \E t \in Topics : BadMessage(t)
        \/ \E e \in Errs : ReadError(e) \/ ReaderReturns(e)

(* Goroutines that can run do; a token is answered or times out             *)
(* (ConnectTimeout); the application reads its errors channels.  Go queues   *)
(* blocked senders, so that ReportError is not overtaken for ever.  Nothing *)
(* is assumed of the connection.                                            *)
Fairness == /\ \A c \in Calls : WF_vars(Work(c))
            /\ WF_vars(HandlerWork) /\ SF_vars(ReportError)
            /\ WF_vars(TokenFails)
            /\ \A e \in Errs : WF_vars(ReadError(e) \/ ReaderReturns(e))

Spec     == Init /\ [][Next]_vars
FairSpec == Spec /\ Fairness
----------------------------------------------------------------------------
Packets == [sub : BOOLEAN, topics : SUBSET Topics, awaited : BOOLEAN]

TypeOK ==
  /\ cleanSession \in BOOLEAN
  /\ conn \in {"none", "connecting", "up", "reconnecting", "down"}
  /\ connects \in 0..MaxConnects /\ due \in 0..MaxConnects
  /\ call \in [Calls -> {"idle", "locking", "working", "ok", "error"}]
  /\ mutex \in SUBSET (Calls \union {Handler})
  /\ \A p, q \in mutex : p = q
  /\ \A c \in Calls : c \in mutex <=> call[c] = "working"
  /\ todo \subseteq Topics /\ cur \subseteq todo
  /\ token \in {"none", "waiting", "acked", "refused", "failed"}
  /\ record \in [Topics -> SUBSET Calls]
  /\ route \in [Topics -> SUBSET Calls]
  /\ out \in Seq(Packets)
  /\ session \subseteq Topics /\ rejected \subseteq Topics
  /\ errors \in [Errs -> Nat]
  /\ \A e \in Errs : errors[e] <= Capacity \/ errors[e] = 1
  /\ reader \in [Errs -> SUBSET Calls]
  /\ doubtful \subseteq Topics /\ reported \subseteq Topics

Quiet == mutex = {}

(* "On a re-connect is when the subscriptions must be re-created" (139):    *)
(* once the connection is up and its onConnectHandler through, every        *)
(* recorded topic is served by the broker, or its failure was reported on   *)
(* its errors channel, or the last call on it failed; or the broker refused *)
(* it in its last answer, which the client takes for a success.             *)
RecordsServed ==
  Quiet /\ conn = "up" /\ due = 0
    => Recorded \subseteq session \union reported \union doubtful
                               \union rejected

(* No topic is delivered behind the client's back: what the broker serves   *)
(* is recorded, so that a reconnect restores it, and an acknowledged        *)
(* Unsubscribe is not undone by a concurrent reconnect.                     *)
NoGhostSubscription == Quiet => session \subseteq Recorded \union doubtful

(* A topic's messages go to the handler that a reconnect would install,     *)
(* across losses, reconnects and failed operations on other topics.         *)
RouteIsRecorded ==
  Quiet => \A t \in Topics \ doubtful : route[t] = record[t]

(* What keeps the client from going on, for good: onConnectHandler has the  *)
(* mutex, and the reader of a full errors channel is in a call.             *)
StuckReader == /\ mutex = {Handler}
               /\ \E e \in Errs : reader[e] # {} /\ ~Room(e)

(* Every call returns, whatever the connection does, unless the client is   *)
(* stuck for good; a call is made once, so that in the end none is open.    *)
CallsReturn == \/ []<>(\A c \in Calls : call[c] \in {"idle", "ok", "error"})
               \/ <>[]StuckReader

(* Every onConnectHandler comes to its end, so that no record waits for     *)
(* ever to be subscribed again, unless the client is stuck for good.        *)
HandlerEnds == []<>(due = 0 /\ mutex # {Handler}) \/ <>[]StuckReader

(* "On a re-connect is when the subscriptions must be re-created" (139):    *)
(* the handler of every reconnect comes to its end.                         *)
ReconnectCompletes == due > 0 ~> (due = 0 /\ mutex # {Handler})
=============================================================================
