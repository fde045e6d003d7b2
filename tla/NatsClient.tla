----------------------------- MODULE NatsClient -----------------------------
(* internal/pkg/nats/client.go: Connect, Subscribe, Unsubscribe and         *)
(* Disconnect, run concurrently by the application, and newConnection of    *)
(* internal/pkg/nats/jetstream/client.go.                                   *)
(*                                                                          *)
(* External, as the code uses it: nats.go.  It restores its subscriptions   *)
(* itself when it reconnects, so that an open connection stands for one     *)
(* that is reconnecting as well; it may give up and close.                  *)
EXTENDS Integers

CONSTANTS
  Topics,
  Calls,         \* calls of Subscribe and Unsubscribe
  Kind,          \* Kind[c]: "subscribe" or "unsubscribe"
  Args,          \* Args[c]: its topics
  MaxDials       \* bound: attempts to connect

ASSUME CallShape == /\ Kind \in [Calls -> {"subscribe", "unsubscribe"}]
                    /\ Args \in [Calls -> (SUBSET Topics) \ {{}}]
ASSUME DialBound == MaxDials \in Nat

(* The *nats.Subscription a Subscribe makes for one of its topics. *)
Subscriptions == [call : Calls, topic : Topics]

VARIABLES
  transport,   \* "core" or "jetstream", fixed at the start
  conn,        \* c.connection: "none" (nil), "open", "draining", "closed"
  dials,       \* attempts to connect so far
  stray,       \* connections opened by an attempt that failed afterwards
  call,        \* where each call is, and what it returned
  mutex,       \* subscriptionMutex: {} or {its holder}
  todo,        \* topics the holder has not yet dealt with
  errs,        \* the holder's errs is not nil
  record,      \* existingSubscriptions: {} or {the recorded subscription}
  live,        \* subscriptions that get messages
  hidden       \* history: a later Subscribe took the place of their record

link == <<transport, conn, dials, stray>>
work == <<call, mutex, todo, errs>>
vars == <<link, work, record, live, hidden>>

Recorded == UNION {record[t] : t \in Topics}

Init ==
  /\ transport \in {"core", "jetstream"}
  /\ conn = "none" /\ dials = 0 /\ stray = 0
  /\ call = [c \in Calls |-> "idle"]
  /\ mutex = {} /\ todo = {} /\ errs = FALSE
  /\ record = [t \in Topics |-> {}]
  /\ live = {} /\ hidden = {}
----------------------------------------------------------------------------
(* JetStream's newConnection connects before it provisions the stream: when *)
(* that fails its connection stays open, and Connect may be tried again.    *)
NewConnection ==
  \/ conn' = "open" /\ UNCHANGED stray
  \/ UNCHANGED <<conn, stray>>
  \/ transport = "jetstream" /\ stray' = stray + 1 /\ UNCHANGED conn

Connect ==
  /\ conn = "none" /\ dials < MaxDials
  /\ dials' = dials + 1
  /\ NewConnection
  /\ UNCHANGED <<transport, work, record, live, hidden>>

(* Drain: the subscriptions work off what they have, then it closes.        *)
Disconnect ==
  /\ conn = "open"
  /\ conn' = "draining"
  /\ UNCHANGED <<transport, dials, stray, work, record, live, hidden>>

Closed ==
  /\ conn \in {"open", "draining"}
  /\ conn' = "closed"
  /\ live' = {}
  /\ UNCHANGED <<transport, dials, stray, work, record, hidden>>
----------------------------------------------------------------------------
(* Both calls test c.connection before they lock. *)
StartCall(c) ==
  /\ call[c] = "idle"
  /\ call' = [call EXCEPT ![c] = IF conn = "none" THEN "error" ELSE "locking"]
  /\ UNCHANGED <<link, mutex, todo, errs, record, live, hidden>>

LockForUnsubscribe(c) ==       \* seeded fault: Subscribe does not wait
  /\ call[c] = "locking" /\ (Kind[c] = "unsubscribe" => mutex = {})
  /\ call' = [call EXCEPT ![c] = "working"]
  /\ mutex' = mutex \union {c} /\ todo' = Args[c] /\ errs' = FALSE
  /\ UNCHANGED <<link, record, live, hidden>>

Lock(c) ==
  /\ call[c] = "locking" /\ mutex = {}
  /\ call' = [call EXCEPT ![c] = "working"]
  /\ mutex' = {c} /\ todo' = Args[c] /\ errs' = FALSE
  /\ UNCHANGED <<link, record, live, hidden>>

(* The deferred unlock and the return. *)
Return(c, result) ==
  /\ call' = [call EXCEPT ![c] = result]
  /\ mutex' = {} /\ todo' = {} /\ errs' = FALSE

(* On to the next topic, or out of the loop. *)
Proceed(c, t, failed) ==
  IF todo = {t} THEN Return(c, IF failed THEN "error" ELSE "ok")
                ELSE /\ todo' = todo \ {t} /\ errs' = failed
                     /\ UNCHANGED <<call, mutex>>
----------------------------------------------------------------------------
(* Seeded faults: actions with a plausible slip, used only to show that the *)
(* properties can fail.                                                     *)
SubscribeUndone(c) ==          \* a failure forgets the topics before it
  /\ mutex = {c} /\ Kind[c] = "subscribe"
  /\ Return(c, "error")
  /\ record' = [t \in Topics |-> {s \in record[t] : s.call # c}]
  /\ UNCHANGED <<link, live, hidden>>

UnsubscribeFailsSilently(c) == \* errs is not appended to
  /\ mutex = {c} /\ Kind[c] = "unsubscribe"
  /\ \E t \in todo :
       /\ record[t] # {}
       /\ conn # "open" \/ record[t] \cap live = {}
       /\ Proceed(c, t, errs)
  /\ UNCHANGED <<link, record, live, hidden>>

UnsubscribeKeepsRecord(c) ==   \* the delete(...) is missing
  /\ mutex = {c} /\ Kind[c] = "unsubscribe"
  /\ \E t \in todo :
       /\ record[t] # {} => conn = "open" /\ record[t] \subseteq live
       /\ live' = live \ record[t]
       /\ Proceed(c, t, errs)
  /\ UNCHANGED <<link, record, hidden>>
----------------------------------------------------------------------------
(* QueueSubscribe and the record of its subscription, topic by topic; a     *)
(* record of the same topic is overwritten.                                 *)
SubscribeTopic(c) ==
  /\ mutex = {c} /\ Kind[c] = "subscribe" /\ conn = "open"
  /\ \E t \in todo :
       LET s == [call |-> c, topic |-> t] IN
       /\ live' = live \union {s}
       /\ record' = [record EXCEPT ![t] = {s}]
       /\ hidden' = hidden \union record[t]
       /\ Proceed(c, t, FALSE)
  /\ UNCHANGED link

(* QueueSubscribe refuses (a subject, a consumer, a closed connection).     *)
SubscribeFails(c) ==
  /\ mutex = {c} /\ Kind[c] = "subscribe"
  /\ Return(c, "error")
  /\ UNCHANGED <<link, record, live, hidden>>

(* A topic without a record is passed over; a recorded subscription ends.   *)
UnsubscribeTopic(c) ==
  /\ mutex = {c} /\ Kind[c] = "unsubscribe"
  /\ \E t \in todo :
       /\ record[t] # {} => conn = "open" /\ record[t] \subseteq live
       /\ live' = live \ record[t]
       /\ record' = [record EXCEPT ![t] = {}]
       /\ Proceed(c, t, errs)
  /\ UNCHANGED <<link, hidden>>

(* subscription.Unsubscribe refuses on a connection that is closed or       *)
(* draining, and for a subscription that has ended.                         *)
UnsubscribeFails(c) ==
  /\ mutex = {c} /\ Kind[c] = "unsubscribe"
  /\ \E t \in todo :
       /\ record[t] # {}
       /\ conn # "open" \/ record[t] \cap live = {}
       /\ Proceed(c, t, TRUE)
  /\ UNCHANGED <<link, record, live, hidden>>

(* JetStream: the subscription has ended when the deletion of its consumer  *)
(* fails.                                                                   *)
ConsumerStays(c) ==
  /\ mutex = {c} /\ Kind[c] = "unsubscribe"
  /\ transport = "jetstream" /\ conn = "open"
  /\ \E t \in todo :
       /\ record[t] \cap live # {}
       /\ live' = live \ record[t]
       /\ Proceed(c, t, TRUE)
  /\ UNCHANGED <<link, record, hidden>>
----------------------------------------------------------------------------
Work(c) == \/ Lock(c)
           \/ SubscribeTopic(c) \/ SubscribeFails(c)
           \/ UnsubscribeTopic(c) \/ UnsubscribeFails(c) \/ ConsumerStays(c)

Next == \/ Connect \/ Disconnect \/ Closed
        \/ \E c \in Calls : StartCall(c) \/ Work(c)

Spec == Init /\ [][Next]_vars
----------------------------------------------------------------------------
(* The mutex is held by the one call that is at work. *)
HolderWorks ==
  /\ \A c \in Calls : c \in mutex <=> call[c] = "working"
  /\ \A c, d \in mutex : c = d

TypeOK ==
  /\ transport \in {"core", "jetstream"}
  /\ conn \in {"none", "open", "draining", "closed"}
  /\ dials \in 0..MaxDials /\ stray \in 0..dials
  /\ call \in [Calls -> {"idle", "locking", "working", "ok", "error"}]
  /\ mutex \subseteq Calls /\ HolderWorks
  /\ todo \subseteq Topics /\ errs \in BOOLEAN
  /\ record \in [Topics -> SUBSET Subscriptions]
  /\ live \subseteq Subscriptions /\ hidden \subseteq Subscriptions

(* No subscription is lost: what still gets messages can be reached through *)
(* existingSubscriptions, also after a Subscribe that failed half way and   *)
(* an Unsubscribe that failed on some topics, unless a later Subscribe of   *)
(* the topic took its record.                                               *)
LiveIsReachable == live \subseteq Recorded \union hidden

(* An Unsubscribe that returns without an error has silenced its topics,    *)
(* whatever the connection did meanwhile, hidden subscriptions apart.       *)
UnsubscribeHonest ==
  [][\A c \in Calls :
       Kind[c] = "unsubscribe" /\ call[c] = "working" /\ call'[c] = "ok"
         => \A s \in live' : s.topic \in Args[c] => s \in hidden]_vars

(* A record is not a leftover: while core NATS is connected its             *)
(* subscription is live, so that an Unsubscribe of it can succeed.          *)
RecordIsLive == transport = "core" /\ conn = "open" => Recorded \subseteq live

(* "Disconnect is to close all connections on the message bus"              *)
(* (messaging/interface.go:64), those of failed attempts included.          *)
DisconnectClosesAll ==
  [][conn = "draining" /\ conn' = "closed" => stray' = 0]_vars
=============================================================================
