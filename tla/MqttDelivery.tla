---------------------------- MODULE MqttDelivery ----------------------------
(* internal/pkg/mqtt/client.go: Publish, PublishWithSizeLimit,              *)
(* PublishBinaryData and the message handlers of Subscribe and              *)
(* SubscribeBinaryData, over a connection that ClientStart makes: messages  *)
(* from the application to the broker and back into its channels.           *)
(*                                                                          *)
(* External: paho 1.5, whose router runs one handler at a time and holds up *)
(* what comes behind it, and which sends again what was not acknowledged;   *)
(* the broker, with retained messages and the session of the client.  Qos 2 *)
(* is left out.  Subscribe is one step here; MqttClient has its parts.      *)
EXTENDS ClientStart, SequencesExt

CONSTANTS
  Topics,
  Binary,      \* topics subscribed to with SubscribeBinaryData
  Messages,    \* calls of Publish*, each made once
  TopicOf,     \* TopicOf[m]
  KindOf,      \* KindOf[m]: the function called: "envelope", "limited",
               \* "binary"
  TooLarge,    \* messages over the limit of PublishWithSizeLimit
  ReplyTo,     \* ReplyTo[m]: {} or {what the reader of m publishes then}
  Capacity     \* of the application's channels; 0: unbuffered

ASSUME MessageShape ==
  /\ Binary \subseteq Topics /\ TooLarge \subseteq Messages
  /\ TopicOf \in [Messages -> Topics]
  /\ KindOf \in [Messages -> {"envelope", "limited", "binary"}]
  /\ ReplyTo \in [Messages -> SUBSET Messages]
  /\ Capacity \in Nat

(* What a setup has of the traffic: each message published once, and over   *)
(* the connection of a single call of Connect.                              *)
ASSUME TrafficShape ==
  /\ IsFiniteSet(Topics)
  /\ \A s \in Setups :
       /\ {"traffic", "script", "malformed", "losses"} \subseteq DOMAIN s
       /\ s.traffic \in BOOLEAN /\ s.losses \in Nat
       /\ s.malformed \subseteq Messages
       /\ s.script \in Seq(Messages)
       /\ \A i, j \in DOMAIN s.script : s.script[i] = s.script[j] => i = j
       /\ \A i \in DOMAIN s.script, m \in Messages :
            s.script[i] \notin ReplyTo[m]
       /\ s.traffic => s.type = "mqtt" /\ \A c, d \in s.connects : c = d

Publishers == {"app"} \union Topics   \* the reader of a topic is its name

VARIABLES
  subscribed,  \* existingSubscriptions holds the topics
  served,      \* the broker's session holds them
  restoring,   \* onConnectHandler has yet to subscribe them again
  next,        \* place in the script
  sending,     \* [Publishers -> {} or {the message whose token it waits for}]
  outbox,      \* paho's publications: not sent, or not acknowledged
  stored,      \* [Topics -> {} or {the retained message}]
  unacked,     \* what the broker has sent and has no acknowledgement of
  inbound,     \* on its way to the client: messages and acknowledgements
  handling,    \* {} or {the message whose handler runs}
  channel,     \* [Topics -> the messages in the application's channel]
  errors,      \* the errors channel
  losses,      \* connections lost so far
  sent,        \* history: messages in the order in which they were published
  taken,       \* history: messages the broker took, and whether the session
               \* had the topics the first time it did
  handed       \* history: messages handed to the application, in order

subs      == <<subscribed, served, restoring>>
publisher == <<next, sending, outbox, sent>>
broker    == <<stored, unacked, inbound, taken>>
receiver  == <<handling, channel, errors, handed>>
vars == <<startVars, subs, publisher, broker, receiver, losses>>

Init ==
  /\ StartInit
  /\ subscribed = FALSE /\ served = FALSE /\ restoring = FALSE
  /\ next = 1 /\ sending = [p \in Publishers |-> {}]
  /\ outbox = <<>> /\ sent = <<>>
  /\ stored = [t \in Topics |-> {}]
  /\ unacked = <<>> /\ inbound = <<>> /\ taken = {}
  /\ handling = {} /\ channel = [t \in Topics |-> <<>>]
  /\ errors = <<>> /\ handed = <<>>
  /\ losses = 0

(* Of the setup: what the application publishes, in order; the messages of  *)
(* these that do not unmarshal; a bound on the connections lost.            *)
Script     == setup.script
Malformed  == setup.malformed
MaxLosses  == setup.losses

Active     == setup.traffic /\ own # 0
Status     == conns[own].status
Set(n)     == conns[own].options.set[n]
Assured    == Set("Qos") > 0
Lasting    == ~Set("CleanSession")
Message(m) == [kind |-> "message", m |-> m]
Receipt(m) == [kind |-> "receipt", m |-> m]
----------------------------------------------------------------------------
(* The broker sends messages; it remembers those that must be acknowledged. *)
Forward(ms) == unacked' = IF Assured THEN unacked \o ms ELSE unacked
Messaged(ms) == [i \in DOMAIN ms |-> Message(ms[i])]
Retained == SetToSeq(UNION {stored[t] : t \in Topics})

(* Subscriptions in place; a retained message comes with each, at once.     *)
Subscribe ==
  /\ Active /\ Status = "up" /\ ~subscribed
  /\ subscribed' = TRUE /\ served' = TRUE
  /\ inbound' = inbound \o Messaged(Retained) /\ Forward(Retained)
  /\ UNCHANGED <<startVars, restoring, publisher, stored, taken, receiver,
                 losses>>

(* onConnectHandler after a reconnect, also when the session has lasted.    *)
Restore ==
  /\ Active /\ Status = "up" /\ restoring
  /\ restoring' = FALSE /\ served' = TRUE
  /\ inbound' = inbound \o Messaged(Retained) /\ Forward(Retained)
  /\ UNCHANGED <<startVars, subscribed, publisher, stored, taken, receiver,
                 losses>>
----------------------------------------------------------------------------
(* paho's Publish: a message for a connection that comes back is kept when  *)
(* it is assured and lost without an error when it is not.                  *)
Hand(p, m) ==
  IF Status = "up" \/ (Status = "reconnecting" /\ Assured)
  THEN /\ outbox' = Append(outbox, [m |-> m, sent |-> FALSE])
       /\ sent' = Append(sent, m)
       /\ sending' = [sending EXCEPT ![p] = {m}]
  ELSE UNCHANGED <<outbox, sent, sending>>

Publish(p, m) == KindOf[m] = "envelope" /\ Hand(p, m)

PublishWithSizeLimit(p, m) ==
  /\ KindOf[m] = "limited"
  /\ IF m \in TooLarge THEN UNCHANGED <<outbox, sent, sending>> ELSE Hand(p, m)

PublishBinaryData(p, m) == KindOf[m] = "binary" /\ Hand(p, m)

PublishAny(p, m) == \/ Publish(p, m) \/ PublishWithSizeLimit(p, m)
                    \/ PublishBinaryData(p, m)

AppPublishes ==
  /\ Active /\ next <= Len(Script) /\ sending["app"] = {}
  /\ next' = next + 1
  /\ PublishAny("app", Script[next])
  /\ UNCHANGED <<startVars, subs, broker, receiver, losses>>

AwaitToken(p) ==       \* seeded fault: a wait without a time limit
  /\ Active /\ sending[p] # {}
  /\ \A i \in DOMAIN outbox : outbox[i].m \notin sending[p]
  /\ sending' = [sending EXCEPT ![p] = {}]
  /\ UNCHANGED <<startVars, subs, next, outbox, sent, broker, receiver, losses>>

PublishAgain(p) ==     \* seeded fault: published again after a timeout
  /\ Active /\ sending[p] # {}
  /\ \E m \in sending[p] :
       outbox' = IF Status = "up" /\ \E i \in DOMAIN outbox : outbox[i].m = m
                 THEN Append(outbox, [m |-> m, sent |-> FALSE]) ELSE outbox
  /\ sending' = [sending EXCEPT ![p] = {}]
  /\ UNCHANGED <<startVars, subs, next, sent, broker, receiver, losses>>

(* getTokenError: completed, or failed, or ConnectTimeout is over; the      *)
(* message may be on its way all the same.                                  *)
PublishEnds(p) ==
  /\ Active /\ sending[p] # {}
  /\ sending' = [sending EXCEPT ![p] = {}]
  /\ UNCHANGED <<startVars, subs, next, outbox, sent, broker, receiver, losses>>
----------------------------------------------------------------------------
Marked(i) == [outbox EXCEPT ![i].sent = TRUE]

(* The broker takes a publication, and sends it to the session and, when it *)
(* is assured, a receipt, in either order.                                  *)
Take ==
  /\ Active /\ Status = "up"
  /\ \E i \in DOMAIN outbox :
       /\ ~outbox[i].sent /\ \A j \in 1..(i - 1) : outbox[j].sent
       /\ LET m    == outbox[i].m
              copy == IF served THEN <<m>> ELSE <<>>
          IN /\ stored' = IF Set("Retained")
                          THEN [stored EXCEPT ![TopicOf[m]] = {m}] ELSE stored
             /\ Forward(copy)
             /\ IF Assured
                THEN /\ outbox' = Marked(i)
                     /\ inbound' \in {inbound \o Messaged(copy) \o <<Receipt(m)>>,
                                      inbound \o <<Receipt(m)>> \o Messaged(copy)}
                ELSE /\ outbox' = RemoveAt(outbox, i)
                     /\ inbound' = inbound \o Messaged(copy)
             /\ taken' = IF \E first \in taken : first.m = m THEN taken
                         ELSE taken \union {[m |-> m, served |-> served]}
  /\ UNCHANGED <<startVars, subs, next, sending, sent, receiver, losses>>

(* paho reads the connection: a receipt completes its token, which is what   *)
(* leaving the outbox means here.  paho holds one message besides the one *)
(* in the handler, so that a receipt may come in past one message.          *)
ReadReceipt(i) ==
  /\ Active /\ i \in DOMAIN inbound /\ inbound[i].kind = "receipt"
  /\ inbound' = RemoveAt(inbound, i)
  /\ LET of == {k \in DOMAIN outbox : outbox[k].m = inbound[i].m} IN
     \/ of = {} /\ UNCHANGED outbox
     \/ \E k \in of : outbox' = RemoveAt(outbox, k)
  /\ UNCHANGED <<startVars, subs, next, sending, sent, stored, unacked, taken,
                 receiver, losses>>

(* The router starts the handler of the next message. *)
Route ==
  /\ Active /\ handling = {} /\ inbound # <<>> /\ Head(inbound).kind = "message"
  /\ handling' = {Head(inbound).m} /\ inbound' = Tail(inbound)
  /\ UNCHANGED <<startVars, subs, publisher, stored, unacked, taken, channel,
                 errors, handed, losses>>

(* Once the handler has returned paho acknowledges; an acknowledgement that *)
(* the connection loses leaves the message with the broker.                 *)
Acknowledge(m) ==
  LET at == {i \in DOMAIN unacked : unacked[i] = m}
      seen == {RemoveAt(unacked, i) : i \in {j \in at : \A k \in at : j <= k}}
  IN \/ Status = "up" /\ unacked' \in seen
     \/ /\ seen = {} \/ Status # "up" \/ losses < MaxLosses
        /\ UNCHANGED unacked

(* A send waits for room, or for a reader that waits. *)
Room(t) == \/ Len(channel[t]) < Capacity
           \/ channel[t] = <<>> /\ sending[t] = {}

DropWhenFull(m) ==     \* seeded fault: a full channel drops the message
  /\ m \notin Malformed /\ TopicOf[m] \notin Binary
  /\ IF Room(TopicOf[m])
     THEN /\ channel' = [channel EXCEPT ![TopicOf[m]] = Append(@, m)]
          /\ handed' = Append(handed, m)
     ELSE UNCHANGED <<channel, handed>>
  /\ UNCHANGED errors

SendUnbounded(m) ==    \* seeded fault: the send does not wait for room
  /\ m \notin Malformed /\ TopicOf[m] \notin Binary
  /\ channel' = [channel EXCEPT ![TopicOf[m]] = Append(@, m)]
  /\ handed' = Append(handed, m)
  /\ UNCHANGED errors

Deliver(m) ==
  /\ Room(TopicOf[m])
  /\ channel' = [channel EXCEPT ![TopicOf[m]] = Append(@, m)]
  /\ handed' = Append(handed, m)
  /\ UNCHANGED errors

(* newMessageHandler *)
HandleEnvelope(m) ==
  /\ TopicOf[m] \notin Binary
  /\ \/ m \notin Malformed /\ Deliver(m)
     \/ /\ m \in Malformed /\ (Len(errors) < Capacity \/ errors = <<>>)
        /\ errors' = Append(errors, m) /\ handed' = Append(handed, m)
        /\ UNCHANGED channel

(* newBinaryDataMessageHandler *)
HandleBinary(m) == TopicOf[m] \in Binary /\ Deliver(m)

HandlerReturns ==
  /\ Active
  /\ \E m \in handling : /\ HandleEnvelope(m) \/ HandleBinary(m)
                         /\ Acknowledge(m)
  /\ handling' = {}
  /\ UNCHANGED <<startVars, subs, publisher, stored, inbound, taken, losses>>
----------------------------------------------------------------------------
(* The application's readers; one may publish in its own loop. *)
ReadMessage(t) ==
  /\ Active /\ channel[t] # <<>> /\ sending[t] = {}
  /\ channel' = [channel EXCEPT ![t] = Tail(@)]
  /\ LET replies == {r \in ReplyTo[Head(channel[t])] :
                       \A i \in DOMAIN sent : sent[i] # r}
     IN IF replies = {} THEN UNCHANGED <<outbox, sent, sending>>
        ELSE \E r \in replies : PublishAny(t, r)
  /\ UNCHANGED <<startVars, subs, next, broker, handling, errors,
                 handed, losses>>

ReadError ==
  /\ Active /\ errors # <<>>
  /\ errors' = Tail(errors)
  /\ UNCHANGED <<startVars, subs, publisher, broker, handling, channel, handed,
                 losses>>
----------------------------------------------------------------------------
(* The connection, with what paho and the broker keep of what is under way. *)
Lose ==
  /\ Active /\ losses < MaxLosses
  /\ ConnectionLost(own)
  /\ losses' = losses + 1
  /\ inbound' = <<>>
  /\ outbox' = IF Assured
               THEN [i \in DOMAIN outbox |-> [outbox[i] EXCEPT !.sent = FALSE]]
               ELSE <<>>
  /\ UNCHANGED <<subs, next, sending, sent, stored, unacked, taken,
                 receiver>>

(* paho waits for the handler before it connects again.  The broker has     *)
(* forgotten a clean session; of another it sends again what was not        *)
(* acknowledged.                                                            *)
ComeUp ==
  /\ Active /\ handling = {}
  /\ ConnectionUp(own)
  /\ restoring' = subscribed
  /\ IF Lasting
     THEN inbound' = Messaged(unacked) /\ UNCHANGED <<served, unacked>>
     ELSE inbound' = <<>> /\ served' = FALSE /\ unacked' = <<>>
  /\ UNCHANGED <<subscribed, publisher, stored, taken, receiver, losses>>

Leave ==
  /\ Disconnect
  /\ inbound' = <<>>
  /\ UNCHANGED <<subs, publisher, stored, unacked, taken, receiver, losses>>

Start == /\ \/ Starting
            \/ \E i \in DOMAIN conns :
                 \/ ConnectionFails(i)
                 \/ ~Active /\ (ConnectionUp(i) \/ ConnectionLost(i))
         /\ UNCHANGED <<subs, publisher, broker, receiver, losses>>

Next == \/ Start \/ Lose \/ ComeUp \/ Leave
        \/ Subscribe \/ Restore
        \/ AppPublishes
        \/ \E p \in Publishers : PublishEnds(p)
        \/ Take
        \/ \E i \in 1..2 : ReadReceipt(i)
        \/ Route \/ HandlerReturns
        \/ \E t \in Topics : ReadMessage(t)
        \/ ReadError

(* Goroutines that can run do, tokens end at the latest with ConnectTimeout *)
(* and the application reads its channels.  The broker serves a connection, *)
(* and a lost one comes back, unless the application disconnects.           *)
Fairness == /\ WF_vars(ComeUp) /\ WF_vars(Restore) /\ WF_vars(Take)
            /\ WF_vars(ReadReceipt(1)) /\ WF_vars(Route)
            /\ WF_vars(HandlerReturns) /\ WF_vars(ReadError)
            /\ \A p \in Publishers : WF_vars(PublishEnds(p))
            /\ \A t \in Topics : WF_vars(ReadMessage(t))

Spec     == Init /\ [][Next]_vars
FairSpec == Spec /\ Fairness
----------------------------------------------------------------------------
TypeOK ==
  /\ StartTypeOK
  /\ subscribed \in BOOLEAN /\ served \in BOOLEAN /\ restoring \in BOOLEAN
  /\ next \in 1..(Len(Script) + 1)
  /\ sending \in [Publishers -> SUBSET Messages]
  /\ outbox \in Seq([m : Messages, sent : BOOLEAN])
  /\ stored \in [Topics -> SUBSET Messages]
  /\ unacked \in Seq(Messages)
  /\ inbound \in Seq([kind : {"message", "receipt"}, m : Messages])
  /\ handling \in SUBSET Messages
  /\ \A t \in Topics : /\ channel[t] \in Seq(Messages)
                       /\ Len(channel[t]) <= Capacity \/ Len(channel[t]) = 1
  /\ errors \in Seq(Messages)
  /\ losses \in 0..MaxLosses
  /\ sent \in Seq(Messages) /\ taken \subseteq [m : Messages, served : BOOLEAN]
  /\ handed \in Seq(Messages)

Place(m) == CHOOSE i \in DOMAIN sent : sent[i] = m

(* The messages of a topic reach the application in the order in which they *)
(* were published, and once.  The exceptions: one that was retained, or     *)
(* sent again over a new connection, may come once more; and one that is    *)
(* sent again may come for the first time after messages that were          *)
(* published later, if it was published before the topics were subscribed,  *)
(* or if the session was clean and a later one was retained.                *)
OnceInOrder ==
  \A i, j \in DOMAIN handed :
    i < j /\ TopicOf[handed[i]] = TopicOf[handed[j]]
      => \/ Place(handed[i]) < Place(handed[j])
         \/ /\ Set("Retained") \/ (losses > 0 /\ Assured)
            /\ \E k \in 1..(j - 1) : handed[k] = handed[j]
         \/ /\ losses > 0 /\ Assured
            /\ \/ [m |-> handed[j], served |-> FALSE] \in taken
               \/ Set("Retained") /\ ~Lasting

(* What the broker took for a session that lasts, of messages that are      *)
(* acknowledged, is handed over as a message or as an error: across the     *)
(* loss of the connection, a channel that is full and an acknowledgement    *)
(* that got lost, unless the connection is down for good.                   *)
TakenArrives ==
  \/ <>[](~Active \/ Status = "down")
  \/ \A m \in Messages :
       Active /\ Assured /\ Lasting /\ [m |-> m, served |-> TRUE] \in taken
         ~> m \in ToSet(handed)

(* A reader that publishes in its own loop keeps the handler of its next    *)
(* message waiting, the handler holds up the router, and the router the     *)
(* receipt that the reader waits for: the time limit of the token breaks    *)
(* the circle, over and over, and the other topics get their messages.      *)
RouterGoesOn == []<>(handling = {})
=============================================================================
