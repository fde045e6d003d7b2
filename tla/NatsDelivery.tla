---------------------------- MODULE NatsDelivery ----------------------------
(* internal/pkg/nats/client.go: Publish and the message handler of          *)
(* Subscribe, with the message id of nats/marshaller.go: a message on its   *)
(* way from a publisher to the application's channels over core NATS or     *)
(* JetStream, with ExactlyOnce or without.                                  *)
(*                                                                          *)
(* External: the broker.  A JetStream stream stores a message once per      *)
(* message id as long as it remembers the id (its duplicate window), pushes *)
(* what is stored to the subscription, and pushes again what is not         *)
(* acknowledged in time; core NATS pushes at most once.  One goroutine per  *)
(* subscription runs its handler (nats.go).                                 *)
EXTENDS Integers, SequencesExt

CONSTANTS
  Messages,       \* envelopes
  Correlation,    \* their CorrelationID
  Malformed,      \* those that do not unmarshal
  Capacity,       \* of the messages and of the errors channel; 0: unbuffered
  MaxPublish,     \* bound: Publish calls
  MaxPush         \* bound: pushes of a stored message

ASSUME Envelopes == Malformed \subseteq Messages
ASSUME Limits    == /\ Capacity \in Nat /\ MaxPublish \in Nat
                    /\ MaxPush \in Nat \ {0}

VARIABLES
  transport,    \* "core" or "jetstream", fixed at the start
  exactlyOnce,  \* the ExactlyOnce option, fixed at the start
  published,    \* Publish calls made
  accepted,     \* messages of which a Publish returned nil
  stream,       \* messages the broker took, in its order
  pushes,       \* pushes of each of them, arrived or not
  acked,        \* positions in stream the broker has seen acknowledged
  forgotten,    \* the ids of the positions up to here it has forgotten
  late,         \* history: positions it took because of that
  pending,      \* positions on their way to the handler
  at, step,     \* the handler: its position, and what it does next
  messages,     \* the application's messages channel: positions
  errors,       \* its errors channel: positions
  handed        \* history: positions handed to the application, in order

config    == <<transport, exactlyOnce>>
publisher == <<published, accepted>>
window    == <<forgotten, late>>
broker    == <<stream, pushes, acked, window>>
channels  == <<messages, errors>>
vars == <<config, publisher, broker, pending, at, step, channels, handed>>

Init ==
  /\ transport \in {"core", "jetstream"} /\ exactlyOnce \in BOOLEAN
  /\ published = 0 /\ accepted = {}
  /\ stream = <<>> /\ pushes = <<>> /\ acked = {}
  /\ forgotten = 0 /\ late = {}
  /\ pending = <<>> /\ at = 0 /\ step = "idle"
  /\ messages = <<>> /\ errors = <<>> /\ handed = <<>>

(* What the handler does once it has handed a message over: only JetStream  *)
(* messages have a reply subject.                                           *)
AfterHandOver == IF transport = "jetstream" THEN "ack" ELSE "idle"

(* A send waits for room, or for a reader to take an unbuffered value. *)
Room(channel) == Len(channel) < Capacity \/ channel = <<>>
----------------------------------------------------------------------------
(* Seeded faults: definitions with a plausible slip, used only to show that *)
(* the properties can fail.                                                 *)
NoMsgId(m) == {}               \* the header is not set

DropMalformed ==               \* an error of Unmarshal is not reported
  /\ step = "hand over" /\ stream[at] \in Malformed
  /\ step' = AfterHandOver
  /\ UNCHANGED <<config, publisher, broker, pending, at, channels, handed>>

SendUnbounded ==               \* the channel is not taken for bounded
  /\ step = "hand over" /\ stream[at] \notin Malformed
  /\ messages' = Append(messages, at) /\ handed' = Append(handed, at)
  /\ step' = AfterHandOver
  /\ UNCHANGED <<config, publisher, broker, pending, at, errors>>

SendWhenRoom ==                \* a full channel drops the message
  /\ step = "hand over" /\ stream[at] \notin Malformed
  /\ IF Room(messages)
     THEN messages' = Append(messages, at) /\ handed' = Append(handed, at)
     ELSE UNCHANGED <<messages, handed>>
  /\ step' = AfterHandOver
  /\ UNCHANGED <<config, publisher, broker, pending, at, errors>>
----------------------------------------------------------------------------
(* The id is <ClientId>-<CorrelationID> with ExactlyOnce, none without: the *)
(* messages the broker would take m for.                                    *)
SameMsgId(m) ==
  {n \in Messages : exactlyOnce /\ Correlation[n] = Correlation[m]}

Taken(m, i, j) == \E k \in i..j : stream[k] \in SameMsgId(m)

Known(m) == transport = "jetstream" /\ Taken(m, forgotten + 1, Len(stream))

(* Publish or PublishWithSizeLimit, repeated by the publisher after an      *)
(* error, which may be that the message is too large.  JetStream answers    *)
(* once the message is stored or known, and the answer may be lost; core    *)
(* NATS is content when it has sent it.                                     *)
Publish(m) ==
  /\ published < MaxPublish /\ m \notin accepted
  /\ published' = published + 1
  /\ \/ /\ ~Known(m)
        /\ stream' = Append(stream, m) /\ pushes' = Append(pushes, 0)
        /\ late' = IF Taken(m, 1, forgotten) THEN late \union {Len(stream) + 1}
                                            ELSE late
        /\ \/ accepted' = accepted \union {m}
           \/ transport = "jetstream" /\ UNCHANGED accepted
     \/ /\ Known(m) \/ transport = "core"
        /\ accepted' = accepted \union {m}
        /\ UNCHANGED <<stream, pushes, late>>
     \/ UNCHANGED <<stream, pushes, late, accepted>>
  /\ UNCHANGED <<config, acked, forgotten, pending, at, step, channels, handed>>

(* The duplicate window of a stream passes over its oldest id.  (After the  *)
(* last Publish of the bound that makes no difference.)                     *)
Forget ==
  /\ transport = "jetstream" /\ exactlyOnce /\ published < MaxPublish
  /\ forgotten < Len(stream)
  /\ forgotten' = forgotten + 1
  /\ UNCHANGED <<config, publisher, stream, pushes, acked, late, pending, at,
                 step, channels, handed>>

(* The broker pushes in order, and again what is not acknowledged in time.  *)
(* It repeats without limit, so that the last push of the bound arrives;    *)
(* any other may be lost.                                                   *)
Push(i) ==
  /\ \A j \in 1..(i - 1) : pushes[j] > 0
  /\ \/ pushes[i] = 0
     \/ transport = "jetstream" /\ i \notin acked /\ pushes[i] < MaxPush
  /\ pushes' = [pushes EXCEPT ![i] = @ + 1]
  /\ \/ pending' = Append(pending, i)
     \/ /\ transport = "core" \/ pushes'[i] < MaxPush
        /\ UNCHANGED pending
  /\ UNCHANGED <<config, publisher, stream, acked, window, at, step, channels,
                 handed>>
----------------------------------------------------------------------------
(* The handler, lines 173-197: its sends wait for room. *)
Take ==
  /\ step = "idle" /\ pending # <<>>
  /\ at' = Head(pending) /\ pending' = Tail(pending)
  /\ step' = "hand over"
  /\ UNCHANGED <<config, publisher, broker, channels, handed>>

SendMessage ==
  /\ step = "hand over" /\ stream[at] \notin Malformed
  /\ Room(messages)
  /\ messages' = Append(messages, at) /\ handed' = Append(handed, at)
  /\ step' = AfterHandOver
  /\ UNCHANGED <<config, publisher, broker, pending, at, errors>>

SendError ==
  /\ step = "hand over" /\ stream[at] \in Malformed
  /\ Room(errors)
  /\ errors' = Append(errors, at) /\ handed' = Append(handed, at)
  /\ step' = AfterHandOver
  /\ UNCHANGED <<config, publisher, broker, pending, at, messages>>

(* Ack does not wait for the broker, AckSync does; with an error either may *)
(* have reached it.                                                         *)
Ack ==
  /\ step = "ack"
  /\ \/ /\ acked' = acked \union {at} /\ step' = "idle"
     \/ /\ ~exactlyOnce /\ step' = "idle" /\ UNCHANGED acked
     \/ /\ acked' \in {acked, acked \union {at}} /\ step' = "report"
  /\ UNCHANGED <<config, publisher, stream, pushes, window, pending, at,
                 channels, handed>>

ReportAck ==
  /\ step = "report" /\ Room(errors)
  /\ errors' = Append(errors, at)
  /\ step' = "idle"
  /\ UNCHANGED <<config, publisher, broker, pending, at, messages, handed>>

(* The application reads its channels, in its own time. *)
Receive ==
  /\ messages # <<>> /\ messages' = Tail(messages)
  /\ UNCHANGED <<config, publisher, broker, pending, at, step, errors, handed>>

ReceiveError ==
  /\ errors # <<>> /\ errors' = Tail(errors)
  /\ UNCHANGED <<config, publisher, broker, pending, at, step, messages,
                 handed>>
----------------------------------------------------------------------------
Broker      == \E i \in DOMAIN stream : Push(i)
HandlerStep == Take \/ SendMessage \/ SendError \/ Ack \/ ReportAck
Reader      == Receive \/ ReceiveError

Next == \/ \E m \in Messages : Publish(m)
        \/ Forget \/ Broker \/ HandlerStep \/ Reader

(* The broker goes on, nats.go runs its handler, the application reads.     *)
Fairness == WF_vars(Broker) /\ WF_vars(HandlerStep) /\ WF_vars(Reader)

Spec     == Init /\ [][Next]_vars
FairSpec == Spec /\ Fairness
----------------------------------------------------------------------------
Positions == Seq(DOMAIN stream)

Fits(channel) == Len(channel) <= Capacity \/ Len(channel) = 1

TypeOK ==
  /\ transport \in {"core", "jetstream"} /\ exactlyOnce \in BOOLEAN
  /\ published \in 0..MaxPublish /\ accepted \subseteq Messages
  /\ stream \in Seq(Messages) /\ acked \subseteq DOMAIN stream
  /\ pushes \in [DOMAIN stream -> 0..MaxPush]
  /\ forgotten \in 0..Len(stream) /\ late \subseteq DOMAIN stream
  /\ pending \in Positions /\ handed \in Positions
  /\ at \in {0} \union DOMAIN stream
  /\ step \in {"idle", "hand over", "ack", "report"}
  /\ messages \in Positions /\ Fits(messages)
  /\ errors \in Positions /\ Fits(errors)

(* What is acknowledged is not delivered again, so that it has to be in the *)
(* application's hands: as a message, or as the error that it is malformed. *)
AckedWasHandedOver == acked \subseteq ToSet(handed)

(* "The broker should only accept a message once per publishing service /   *)
(* correlation ID" (marshaller.go:101): with ExactlyOnce the application    *)
(* gets a message again only when the broker had to push it again, or took  *)
(* it again because it had forgotten its id, however often it was published.*)
TwiceOnlyIfPushedAgain ==
  transport = "jetstream" /\ exactlyOnce =>
    \A j, k \in DOMAIN handed :
       j # k /\ stream[handed[j]] = stream[handed[k]]
         => \/ handed[j] = handed[k] /\ pushes[handed[k]] > 1
            \/ handed[j] < handed[k] /\ handed[k] \in late
            \/ handed[k] < handed[j] /\ handed[j] \in late

(* A JetStream message whose Publish returned nil comes to the application, *)
(* over lost pushes and acknowledgements; with ExactlyOnce, it or another   *)
(* message of the same correlation.  No accepted message and no hand-over   *)
(* is ever taken back, so that this asks of every message that it arrives. *)
AcceptedArrives ==
  transport = "jetstream" =>
    []<>(\A m \in accepted : \E k \in DOMAIN handed :
           stream[handed[k]] \in {m} \union SameMsgId(m))
=============================================================================
