--------------------------- MODULE DoRequestProofs ---------------------------
(* Proofs about DoRequest for every set of requests and RequestIDs and any  *)
(* number of responses.                                                     *)
EXTENDS DoRequest, FiniteSetTheorems, TLAPS

(* A request has an outcome once it has left the select. *)
OutcomeAtSelect ==
  \A r \in Requests :
    outcome[r] = "none"
      <=> pc[r] \in {"idle", "publishing", "sent", "awaiting"}

(* Only what was asked is answered, and a request waits once it has asked. *)
AskedThenAnswered ==
  /\ asked \subseteq Started
  /\ \A r \in Requests : pc[r] \in {"sent", "awaiting"} => r \in asked
  /\ \A m \in net : m.for \in asked

(* A handler is routed to the topic of its own request. *)
RoutedToOwnTopic ==
  \A i \in Ids : \A r \in route[i] : r \in Started /\ requestId[r] = i

(* An answer m that may be given to the request r. *)
Fits(m, r) == /\ m \in net /\ m.kind = "good"
              /\ r \in Started /\ requestId[m.for] = requestId[r]

(* What a handler is about to send, and what is buffered, fits the request. *)
HeldFits ==
  \A r \in Requests :
    /\ \A m \in handling[r] : m.kind = "good" => Fits(m, r)
    /\ \A m \in messages[r] : Fits(m, r)
    /\ \A m, n \in messages[r] : m = n

(* A request between its subscribe and its unsubscribe. *)
Sending == {"publishing", "sent", "awaiting"}
Working == Sending \union {"unsubscribing"}

(* A subscription is recorded, under its own topic, until its request has   *)
(* unsubscribed.                                                            *)
RecordExplained ==
  \A i \in Ids : \A r \in record[i] :
    /\ requestId[r] = i /\ r \in Started
    /\ pc[r] \in Working \/ unsubscribed[r] = "failed"

(* The record of a topic that nobody shares is that of its request, until   *)
(* the request unsubscribes.                                                *)
RecordIsOwn ==
  \A r \in Requests :
    Unshared(r) /\ pc[r] \in Working => record[requestId[r]] = {r}

(* The two parts of SubscribedWhileWaiting. *)
HandlerInPlace ==
  \A r \in Requests :
    pc[r] \in Sending /\ Unshared(r) => r \in route[requestId[r]]

InHand(r) == \/ requestId[r] \in served \union refused \union todo
             \/ due > 0 \/ errs[r]

TopicInHand ==
  \A r \in Requests :
    transport = "mqtt" /\ pc[r] \in Sending /\ Unshared(r) => InHand(r)

(* What a leak of the request r's topic may be due to, apart from sharing. *)
Failed(r) == \/ unsubscribed[r] = "failed"
             \/ transport = "mqtt" /\ outcome[r] = "subscribe failed"

(* RouteLeaksExplained from the unsubscribe on. *)
LeaksExplained ==
  \A r \in Requests :
     pc[r] \in {"closing", "returned"} /\ r \in route[requestId[r]]
     => Failed(r) \/ (transport = "jetstream" /\ ~Unshared(r))

ServedExplained ==
  \A i \in served : \E r \in Started :
    /\ requestId[r] = i
    /\ \/ pc[r] \in Working
       \/ unsubscribed[r] = "failed" \/ outcome[r] = "subscribe failed"

(* onConnectHandler is MQTT's, and finds what it has to re-create recorded: *)
(* nobody else has the mutex meanwhile.                                     *)
TodoRecorded == /\ todo # {} \/ due > 0 => transport = "mqtt"
                /\ \A i \in todo : record[i] # {}

IInv == /\ TypeOK /\ OutcomeAtSelect /\ AskedThenAnswered /\ RecordExplained
        /\ RoutedToOwnTopic /\ HeldFits /\ RecordIsOwn /\ HandlerInPlace
        /\ TopicInHand /\ LeaksExplained /\ TodoRecorded /\ ServedExplained

USE DEF caller, channels, table, session, hook, wire

LEMMA Update ==
  ASSUME NEW S, NEW T, NEW f \in [S -> T], NEW x \in S, NEW v \in T
  PROVE  [f EXCEPT ![x] = v] \in [S -> T]
  OBVIOUS

LEMMA TypeStep ==
  ASSUME TypeOK, [Next]_vars
  PROVE  TypeOK'
<1>0. /\ route \in [Ids -> SUBSET Requests]
      /\ record \in [Ids -> SUBSET Requests]
      /\ messages \in [Requests -> SUBSET Messages]
      /\ handling \in [Requests -> SUBSET Items]
      /\ errs \in [Requests -> BOOLEAN]
      /\ requestId \in [Requests -> Ids]
      /\ asked \subseteq Requests /\ delivered \subseteq Messages \X Requests
      /\ net \subseteq Messages /\ again \subseteq net
      /\ served \subseteq Ids /\ refused \subseteq Ids
      /\ todo \subseteq Ids /\ report \subseteq todo
      /\ reconnects \in 0..MaxReconnects /\ due \in 0..reconnects
      /\ panic \subseteq [request : Requests, cause : Causes]
  BY DEF TypeOK
<1> HIDE DEF session, hook
<1>a. ASSUME NEW i \in Ids, SubAck(i) \/ UNCHANGED session
      PROVE  served' \subseteq Ids /\ refused' \subseteq Ids
  BY <1>0, <1>a DEF SubAck, session
<1> USE DEF session, hook
<1>1. ASSUME NEW r \in Requests, Subscribe(r) PROVE TypeOK'
  <2>1. PICK i \in Ids :
          /\ requestId' = [requestId EXCEPT ![r] = i]
          /\ \/ route' = route
             \/ route' = [route EXCEPT ![i] = {r}]
             \/ route' = [route EXCEPT ![i] = @ \union {r}]
          /\ record' = record \/ record' = [record EXCEPT ![i] = {r}]
          /\ pc' = [pc EXCEPT ![r] = "publishing"]
               \/ pc' = [pc EXCEPT ![r] = "returned"]
          /\ outcome' = outcome
               \/ outcome' = [outcome EXCEPT ![r] = "subscribe failed"]
          /\ SubAck(i) \/ UNCHANGED session
    BY <1>1 DEF Subscribe
  <2>2. route' \in [Ids -> SUBSET Requests]
    <3>1. {r} \in SUBSET Requests OBVIOUS
    <3>2. route[i] \union {r} \in SUBSET Requests BY <1>0
    <3>3. [route EXCEPT ![i] = {r}] \in [Ids -> SUBSET Requests]
      BY <1>0, <3>1, Update
    <3>4. [route EXCEPT ![i] = @ \union {r}] \in [Ids -> SUBSET Requests]
      BY <1>0, <3>2, Update
    <3> QED BY <1>0, <2>1, <3>3, <3>4
  <2>3. record' \in [Ids -> SUBSET Requests]
    <3>1. {r} \in SUBSET Requests OBVIOUS
    <3>2. [record EXCEPT ![i] = {r}] \in [Ids -> SUBSET Requests]
      BY <1>0, <3>1, Update
    <3> QED BY <1>0, <2>1, <3>2
  <2>4. UNCHANGED <<transport, response, unsubscribed, messages, errs, hook,
                    wire, handling, panic>>
        /\ chans' = [chans EXCEPT ![r] = "open"]
    BY <1>1 DEF Subscribe
  <2>5. served' \subseteq Ids /\ refused' \subseteq Ids BY <1>a, <2>1
  <2> QED BY <2>1, <2>2, <2>3, <2>4, <2>5 DEF TypeOK
<1>2. ASSUME NEW r \in Requests, Publish(r) \/ PublishEnds(r) PROVE TypeOK'
  <2>1. asked' \subseteq Requests BY <1>0, <1>2 DEF Publish, PublishEnds
  <2>2. pc' = [pc EXCEPT ![r] = "awaiting"]
          \/ pc' = [pc EXCEPT ![r] = "sent"]
          \/ pc' = [pc EXCEPT ![r] = "unsubscribing"]
    BY <1>2 DEF Publish, PublishEnds
  <2>3. outcome' = outcome
          \/ outcome' = [outcome EXCEPT ![r] = "publish failed"]
    BY <1>2 DEF Publish, PublishEnds
  <2>4. UNCHANGED <<transport, requestId, response, unsubscribed, channels,
                    table, session, hook, net, delivered, again, handling,
                    panic>>
    BY <1>2 DEF Publish, PublishEnds
  <2>5. asked' \subseteq Requests /\ UNCHANGED <<net, delivered, again>>
    BY <2>1, <2>4
  <2>6. pc' \in [Requests -> {"idle", "publishing", "sent", "awaiting",
                              "unsubscribing", "closing", "returned"}]
    <3>1. pc \in [Requests -> {"idle", "publishing", "sent", "awaiting",
                               "unsubscribing", "closing", "returned"}]
      BY DEF TypeOK
    <3> QED BY <2>2, <3>1
  <2>7. outcome' \in [Requests -> {"none", "subscribe failed",
                         "publish failed", "timeout", "error", "response"}]
    <3>1. outcome \in [Requests -> {"none", "subscribe failed",
                          "publish failed", "timeout", "error", "response"}]
      BY DEF TypeOK
    <3> QED BY <2>3, <3>1
  <2> QED BY <2>4, <2>5, <2>6, <2>7 DEF TypeOK
<1>3. ASSUME NEW r \in Requests, TimeOut(r) PROVE TypeOK'
  BY <1>3 DEF TimeOut, TypeOK
<1>4. ASSUME NEW r \in Requests, ReceiveError(r) PROVE TypeOK'
  BY <1>4 DEF ReceiveError, TypeOK
<1>5. ASSUME NEW r \in Requests, ReceiveResponse(r) PROVE TypeOK'
  BY <1>5 DEF ReceiveResponse, TypeOK
<1>6. ASSUME NEW r \in Requests, Unsubscribe(r) PROVE TypeOK'
  <2>1. requestId[r] \in Ids BY <1>0
  <2>2. \/ route' = route
        \/ route' = [route EXCEPT ![requestId[r]] = {}]
        \/ route' = [route EXCEPT ![requestId[r]] = @ \ record[requestId[r]]]
    BY <1>6 DEF Unsubscribe
  <2>3. record' = record \/ record' = [record EXCEPT ![requestId[r]] = {}]
    BY <1>6 DEF Unsubscribe
  <2>4. route' \in [Ids -> SUBSET Requests] BY <1>0, <2>1, <2>2
  <2>5. record' \in [Ids -> SUBSET Requests] BY <1>0, <2>1, <2>3
  <2>6. unsubscribed' = [unsubscribed EXCEPT ![r] = "ok"]
          \/ unsubscribed' = [unsubscribed EXCEPT ![r] = "failed"]
    BY <1>6 DEF Unsubscribe
  <2>7. /\ pc' = [pc EXCEPT ![r] = "closing"]
        /\ UNCHANGED <<transport, requestId, outcome, response, channels, hook,
                       wire, handling, panic>>
        /\ served' \subseteq served /\ refused' \subseteq refused
    BY <1>6 DEF Unsubscribe
  <2>8. served' \subseteq Ids /\ refused' \subseteq Ids BY <1>0, <2>7
  <2> QED BY <2>4, <2>5, <2>6, <2>7, <2>8 DEF TypeOK
<1>7. ASSUME NEW r \in Requests, Close(r) PROVE TypeOK'
  BY <1>7 DEF Close, TypeOK
<1>8. ASSUME NEW r \in Requests, HandlerSend(r) PROVE TypeOK'
  <2>1. PICK m \in handling[r] :
          /\ chans[r] = "open"
          /\ IF m.kind = "good"
             THEN messages' = [messages EXCEPT ![r] = {m}] /\ UNCHANGED errs
             ELSE errs' = [errs EXCEPT ![r] = TRUE] /\ UNCHANGED messages
          /\ \E rest \in AfterSend(m) :
               handling' = [handling EXCEPT ![r] = rest]
    BY <1>8 DEF HandlerSend
  <2>2. m \in Items BY <1>0
  <2>3. {[m EXCEPT !.kind = "ack"]} \subseteq Items BY <2>2 DEF Items
  <2>4. \A rest \in AfterSend(m) : rest \subseteq Items
    BY <2>3 DEF AfterSend
  <2>5. handling' \in [Requests -> SUBSET Items] BY <1>0, <2>1, <2>4
  <2>6. m.kind = "good" => m \in Messages
    BY <2>2 DEF Items, Messages, Kinds
  <2>7. messages' \in [Requests -> SUBSET Messages] BY <1>0, <2>1, <2>6
  <2>8. errs' \in [Requests -> BOOLEAN] BY <1>0, <2>1
  <2>9. UNCHANGED <<transport, caller, chans, table, session, hook, wire,
                    panic>>
    BY <1>8 DEF HandlerSend
  <2> QED BY <2>5, <2>7, <2>8, <2>9 DEF TypeOK
<1>9. ASSUME NEW r \in Requests, HandlerPanic(r) PROVE TypeOK'
  <2>1. \A n \in Items : [request |-> r, cause |-> n.kind]
                        \in [request : Requests, cause : Causes]
    BY DEF Items, Causes
  <2> QED BY <1>9, <2>1 DEF HandlerPanic, TypeOK
<1>10. ASSUME NEW m \in Messages, Respond(m) PROVE TypeOK'
  BY <1>10 DEF Respond, TypeOK
<1>11. ASSUME NEW r \in Requests, NEW m \in Messages, Dispatch(r, m)
      PROVE  TypeOK'
  <2>1. m \in Items BY DEF Items, Messages
  <2>2. handling' \in [Requests -> SUBSET Items]
    BY <1>0, <1>11, <2>1 DEF Dispatch
  <2>3. delivered' \subseteq Messages \X Requests BY <1>0, <1>11 DEF Dispatch
  <2>4. again' \subseteq net BY <1>0, <1>11 DEF Dispatch
  <2> QED BY <1>11, <2>2, <2>3, <2>4 DEF Dispatch, TypeOK
<1>12. ASSUME Reconnect PROVE TypeOK'
  <2>1. reconnects' \in 0..MaxReconnects /\ due' \in 0..reconnects'
    BY <1>0, <1>12, Reconnects DEF Reconnect
  <2>2. served' \subseteq Ids /\ refused' \subseteq Ids
    BY <1>0, <1>12 DEF Reconnect
  <2> QED BY <1>12, <2>1, <2>2 DEF Reconnect, TypeOK
<1>13. ASSUME OnConnect PROVE TypeOK'
  <2>1. due' \in 0..reconnects /\ report \subseteq todo'
    BY <1>0, <1>13, Reconnects DEF OnConnect
  <2> QED BY <1>13, <2>1 DEF OnConnect, TypeOK
<1>14. ASSUME NEW i \in Ids, Resubscribe(i) PROVE TypeOK'
  <2>1. /\ route' = route \/ route' = [route EXCEPT ![i] = record[i]]
        /\ todo' \subseteq Ids /\ report' \subseteq todo'
        /\ SubAck(i) \/ UNCHANGED session
    BY <1>0, <1>14 DEF Resubscribe
  <2>2. route' \in [Ids -> SUBSET Requests] BY <1>0, <2>1
  <2>3. served' \subseteq Ids /\ refused' \subseteq Ids BY <1>a, <2>1
  <2>4. UNCHANGED <<transport, caller, channels, record, reconnects, due, wire,
                    handling, panic>>
    BY <1>14 DEF Resubscribe
  <2> QED BY <2>1, <2>2, <2>3, <2>4 DEF TypeOK
<1>15. ASSUME NEW i \in Ids, NEW r \in Requests, ReportError(i, r)
      PROVE  TypeOK'
  <2>1. errs' \in [Requests -> BOOLEAN] BY <1>0, <1>15 DEF ReportError
  <2>2. panic' \subseteq [request : Requests, cause : Causes]
    <3>1. [request |-> r, cause |-> "reconnect"]
            \in [request : Requests, cause : Causes]
      BY DEF Causes
    <3>2. panic' = panic \/ panic' = {[request |-> r, cause |-> "reconnect"]}
      BY <1>15 DEF ReportError
    <3> QED BY <1>0, <3>1, <3>2
  <2>3. /\ todo' \subseteq Ids /\ report' \subseteq todo'
        /\ UNCHANGED <<transport, caller, chans, messages, table, session,
                       reconnects, due, wire, handling>>
    BY <1>0, <1>15 DEF ReportError
  <2> QED BY <2>1, <2>2, <2>3 DEF TypeOK
<1>16. CASE UNCHANGED vars BY <1>16 DEF vars, TypeOK
<1> QED
  BY <1>1, <1>2, <1>3, <1>4, <1>5, <1>6, <1>7, <1>8,
     <1>9, <1>10, <1>11, <1>12, <1>13, <1>14, <1>15, <1>16
     DEF Next, CallerStep, Select, HandlerStep, HookStep

(* The steps that are not those of a caller leave the callers and the       *)
(* records alone; only a re-created subscription touches a route.           *)
LEMMA EnvironmentStep ==
  ASSUME [Next]_vars, ~ \E r \in Requests : Subscribe(r) \/ CallerStep(r)
  PROVE  /\ UNCHANGED <<transport, caller, chans, record, asked>>
         /\ UNCHANGED route \/ \E i \in Ids : Resubscribe(i)
  BY DEF Next, HandlerStep, HandlerSend, HandlerPanic, Respond, Dispatch,
         HookStep, Reconnect, OnConnect, Resubscribe, ReportError, vars

(* A re-created subscription brings back the recorded handler. *)
LEMMA RouteStep ==
  ASSUME TypeOK, NEW i \in Ids, Resubscribe(i)
  PROVE  \A j \in Ids : route'[j] = route[j] \/ route'[j] = record[j]
  BY DEF Resubscribe, TypeOK

(* Subscribe starts its request, with or without a subscription. *)
LEMMA SubscribeStep ==
  ASSUME TypeOK, NEW r \in Requests, Subscribe(r)
  PROVE  \E i \in Ids :
           /\ pc[r] = "idle" /\ Started' = Started \union {r}
           /\ requestId' = [requestId EXCEPT ![r] = i]
           /\ \A q \in Requests \ {r} :
                pc'[q] = pc[q] /\ outcome'[q] = outcome[q]
           /\ \/ pc'[r] = "publishing" /\ outcome'[r] = outcome[r]
                 /\ route' = [route EXCEPT ![i] = IF transport = "mqtt" THEN {r}
                                                  ELSE @ \union {r}]
                 /\ record' = [record EXCEPT ![i] = {r}]
              \/ pc'[r] = "returned" /\ outcome'[r] = "subscribe failed"
                 /\ record' = record
                 /\ \/ route' = route
                    \/ transport = "mqtt" /\ route' = [route EXCEPT ![i] = {r}]
           /\ \/ transport = "mqtt" /\ SubAck(i)
              \/ UNCHANGED session /\ (pc'[r] = "returned"
                                         \/ transport # "mqtt")
           /\ UNCHANGED <<transport, unsubscribed, messages, errs, hook, asked,
                           net, handling>>
<1>1. PICK i \in Ids :
        /\ requestId' = [requestId EXCEPT ![r] = i]
        /\ LET routed == [route EXCEPT ![i] = IF transport = "mqtt" THEN {r}
                                              ELSE @ \union {r}]
           IN \/ /\ route' = routed
                 /\ record' = [record EXCEPT ![i] = {r}]
                 /\ pc' = [pc EXCEPT ![r] = "publishing"]
                 /\ IF transport = "mqtt" THEN SubAck(i) ELSE UNCHANGED session
                 /\ UNCHANGED outcome
              \/ /\ \/ UNCHANGED <<route, session>>
                    \/ /\ transport = "mqtt" /\ route' = routed
                       /\ SubAck(i) \/ UNCHANGED session
                 /\ outcome' = [outcome EXCEPT ![r] = "subscribe failed"]
                 /\ pc' = [pc EXCEPT ![r] = "returned"]
                 /\ UNCHANGED record
  BY DEF Subscribe
<1>2. /\ pc[r] = "idle"
      /\ UNCHANGED <<transport, unsubscribed, messages, errs, hook, wire,
                      handling>>
  BY DEF Subscribe
<1>3. pc'[r] \in {"publishing", "returned"}
      /\ \A q \in Requests \ {r} : pc'[q] = pc[q] /\ outcome'[q] = outcome[q]
  BY <1>1 DEF TypeOK
<1>4. Started' = Started \union {r} BY <1>3 DEF Started
<1> WITNESS i \in Ids
<1> QED BY <1>1, <1>2, <1>3, <1>4 DEF TypeOK

(* The other steps of a caller move its request on; of these only           *)
(* Unsubscribe touches the routes.                                          *)
LEMMA MoveStep ==
  ASSUME TypeOK, NEW r \in Requests, CallerStep(r)
  PROVE  /\ pc[r] # "idle" /\ pc'[r] # "idle" /\ Started' = Started
         /\ \A q \in Requests \ {r} :
              /\ pc'[q] = pc[q] /\ outcome'[q] = outcome[q]
              /\ unsubscribed'[q] = unsubscribed[q]
         /\ \A q \in Requests : messages'[q] \subseteq messages[q]
         /\ Unsubscribe(r) \/ UNCHANGED <<table, session, unsubscribed>>
         /\ asked' \in {asked, asked \union {r}}
         /\ UNCHANGED <<transport, requestId, hook, net, handling>>
<1> USE DEF TypeOK
<1>1. CASE Publish(r) \/ PublishEnds(r)
  <2>1. pc' = [pc EXCEPT ![r] = "awaiting"]
          \/ pc' = [pc EXCEPT ![r] = "sent"]
          \/ pc' = [pc EXCEPT ![r] = "unsubscribing"]
    BY <1>1 DEF Publish, PublishEnds
  <2>2. outcome' = outcome
          \/ outcome' = [outcome EXCEPT ![r] = "publish failed"]
    BY <1>1 DEF Publish, PublishEnds
  <2>3. pc[r] \in {"publishing", "sent"} /\ asked' \in {asked, asked \union {r}}
        /\ UNCHANGED <<transport, requestId, net, handling, messages, table,
                       session, hook, unsubscribed>>
    BY <1>1 DEF Publish, PublishEnds
  <2>4. pc'[r] # "idle" /\ \A q \in Requests \ {r} : pc'[q] = pc[q]
    BY <2>1
  <2>5. \A q \in Requests \ {r} : outcome'[q] = outcome[q] BY <2>2
  <2>6. Started' = Started BY <2>3, <2>4 DEF Started
  <2> HIDE DEF TypeOK
  <2> QED BY <2>3, <2>4, <2>5, <2>6
<1>2. CASE TimeOut(r) BY <1>2 DEF TimeOut, Started
<1>3. CASE ReceiveError(r) BY <1>3 DEF ReceiveError, Started
<1>4. CASE ReceiveResponse(r) BY <1>4 DEF ReceiveResponse, Started
<1>5. CASE Unsubscribe(r)
  <2>1. /\ pc[r] = "unsubscribing"
        /\ pc' = [pc EXCEPT ![r] = "closing"]
        /\ unsubscribed' = [unsubscribed EXCEPT ![r] = "ok"]
             \/ unsubscribed' = [unsubscribed EXCEPT ![r] = "failed"]
        /\ UNCHANGED <<transport, requestId, outcome, messages, hook, wire,
                        handling>>
    BY <1>5 DEF Unsubscribe
  <2>2. \A q \in Requests \ {r} : unsubscribed'[q] = unsubscribed[q]
    BY <2>1
  <2> QED BY <1>5, <2>1, <2>2 DEF Started
<1>6. CASE Close(r) BY <1>6 DEF Close, Started
<1> QED BY <1>1, <1>2, <1>3, <1>4, <1>5, <1>6 DEF CallerStep, Select

(* Unsubscribe touches its own topic only, and ends what is recorded there. *)
LEMMA UnsubscribeStep ==
  ASSUME TypeOK, NEW r \in Requests, Unsubscribe(r)
  PROVE  /\ pc[r] = "unsubscribing" /\ pc'[r] = "closing"
         /\ \A i \in Ids : route'[i] \subseteq route[i]
         /\ served' \subseteq served
         /\ served \ served' \subseteq {requestId[r]}
         /\ refused \ refused' \subseteq {requestId[r]}
         /\ \A i \in Ids \ {requestId[r]} :
              route'[i] = route[i] /\ record'[i] = record[i]
         /\ \/ unsubscribed'[r] = "failed" /\ UNCHANGED record
            \/ /\ unsubscribed'[r] = "ok" /\ requestId[r] \notin served'
               /\ record'[requestId[r]] = {}
               /\ \/ transport = "mqtt" /\ route'[requestId[r]] = {}
                  \/ /\ transport = "jetstream"
                     /\ route'[requestId[r]]
                          = route[requestId[r]] \ record[requestId[r]]
<1>1. /\ requestId[r] \in Ids
      /\ route \in [Ids -> SUBSET Requests]
      /\ record \in [Ids -> SUBSET Requests]
  BY DEF TypeOK
<1>2. /\ \/ route' = route
         \/ route' = [route EXCEPT ![requestId[r]] = {}]
         \/ route' = [route EXCEPT ![requestId[r]] = @ \ record[requestId[r]]]
      /\ record' = record \/ record' = [record EXCEPT ![requestId[r]] = {}]
  BY DEF Unsubscribe
<1>3. /\ \A i \in Ids : route'[i] \subseteq route[i]
      /\ \A i \in Ids \ {requestId[r]} : route'[i] = route[i]
  BY <1>1, <1>2
<1>4. \A i \in Ids \ {requestId[r]} : record'[i] = record[i]
  BY <1>1, <1>2
<1>5. pc[r] = "unsubscribing" /\ pc'[r] = "closing" BY DEF Unsubscribe, TypeOK
<1>6. \/ /\ unsubscribed' = [unsubscribed EXCEPT ![r] = "failed"]
         /\ UNCHANGED record
      \/ /\ unsubscribed' = [unsubscribed EXCEPT ![r] = "ok"]
         /\ served' = served \ {requestId[r]}
         /\ record' = [record EXCEPT ![requestId[r]] = {}]
         /\ \/ /\ transport = "mqtt"
               /\ route' = [route EXCEPT ![requestId[r]] = {}]
            \/ /\ transport = "jetstream"
               /\ route' = [route EXCEPT
                              ![requestId[r]] = @ \ record[requestId[r]]]
  BY DEF Unsubscribe, TypeOK
<1>7. unsubscribed \in [Requests -> {"none", "ok", "failed"}] BY DEF TypeOK
<1>8. \/ UNCHANGED session
      \/ /\ served' = served \ {requestId[r]}
         /\ refused' = refused \ {requestId[r]}
  BY DEF Unsubscribe
<1> QED BY <1>1, <1>3, <1>4, <1>5, <1>6, <1>7, <1>8

(* The step lemmas of the parts of the invariant. *)
LEMMA OutcomeStep ==
  ASSUME TypeOK, OutcomeAtSelect, [Next]_vars
  PROVE  OutcomeAtSelect'
<1> USE DEF OutcomeAtSelect
<1>1. ASSUME NEW r \in Requests, Subscribe(r) PROVE OutcomeAtSelect'
  <2>1. PICK i \in Ids :
          /\ pc[r] = "idle"
          /\ \A q \in Requests \ {r} :
               pc'[q] = pc[q] /\ outcome'[q] = outcome[q]
          /\ \/ pc'[r] = "publishing" /\ outcome'[r] = outcome[r]
             \/ pc'[r] = "returned" /\ outcome'[r] = "subscribe failed"
    BY <1>1, SubscribeStep
  <2> QED BY <2>1
<1>2. ASSUME NEW r \in Requests, CallerStep(r) PROVE OutcomeAtSelect'
  <2>1. \A q \in Requests \ {r} : pc'[q] = pc[q] /\ outcome'[q] = outcome[q]
    BY <1>2, MoveStep
  <2>2. outcome'[r] = "none"
          <=> pc'[r] \in {"idle", "publishing", "sent", "awaiting"}
    BY <1>2 DEF CallerStep, Select, Publish, PublishEnds, TimeOut,
                ReceiveError, ReceiveResponse, Unsubscribe, Close, TypeOK
  <2> QED BY <2>1, <2>2
<1> QED BY <1>1, <1>2, EnvironmentStep

LEMMA AskedStep ==
  ASSUME TypeOK, AskedThenAnswered, [Next]_vars
  PROVE  AskedThenAnswered'
<1> USE DEF AskedThenAnswered
<1>1. ASSUME NEW r \in Requests, Subscribe(r) PROVE AskedThenAnswered'
  <2>1. PICK i \in Ids :
          /\ Started' = Started \union {r}
          /\ \A q \in Requests \ {r} : pc'[q] = pc[q]
          /\ pc'[r] \in {"publishing", "returned"}
          /\ UNCHANGED <<asked, net>>
    BY <1>1, SubscribeStep
  <2> QED BY <2>1
<1>2. ASSUME NEW r \in Requests, CallerStep(r) PROVE AskedThenAnswered'
  <2>1. /\ pc[r] # "idle" /\ Started' = Started
        /\ \A q \in Requests \ {r} : pc'[q] = pc[q]
        /\ asked' \in {asked, asked \union {r}}
        /\ UNCHANGED net
    BY <1>2, MoveStep
  <2>2. pc'[r] \in {"sent", "awaiting"} => r \in asked'
    BY <1>2 DEF CallerStep, Select, Publish, PublishEnds, TimeOut,
                ReceiveError, ReceiveResponse, Unsubscribe, Close, TypeOK
  <2>3. r \in Started BY <2>1 DEF Started
  <2> QED BY <2>1, <2>2, <2>3
<1>3. CASE ~ \E r \in Requests : Subscribe(r) \/ CallerStep(r)
  <2>1. UNCHANGED <<caller, asked>> BY <1>3, EnvironmentStep
  <2>2. Started' = Started BY <2>1 DEF Started
  <2>3. \A m \in net' : m \in net \/ m.for \in asked
    BY <1>3 DEF Next, HandlerStep, HandlerSend, HandlerPanic, Respond,
                Dispatch, HookStep, Reconnect, OnConnect, Resubscribe,
                ReportError, vars
  <2> QED BY <2>1, <2>2, <2>3
<1> QED BY <1>1, <1>2, <1>3

LEMMA RoutedStep ==
  ASSUME TypeOK, RecordExplained, RoutedToOwnTopic, [Next]_vars
  PROVE  RoutedToOwnTopic'
<1> USE DEF RoutedToOwnTopic
<1>0. /\ route \in [Ids -> SUBSET Requests]
      /\ requestId \in [Requests -> Ids]
  BY DEF TypeOK
<1>1. ASSUME NEW r \in Requests, Subscribe(r) PROVE RoutedToOwnTopic'
  <2>1. PICK i \in Ids :
          /\ pc[r] = "idle" /\ Started' = Started \union {r}
          /\ requestId' = [requestId EXCEPT ![r] = i]
          /\ \/ route' = route
             \/ route' = [route EXCEPT ![i] = {r}]
             \/ route' = [route EXCEPT ![i] = @ \union {r}]
    BY <1>1, SubscribeStep
  <2>2. r \notin Started BY <2>1 DEF Started
  <2>3. ASSUME NEW j \in Ids, NEW q \in route'[j]
        PROVE  q \in route[j] \/ (q = r /\ j = i)
    BY <1>0, <2>1
  <2>4. ASSUME NEW j \in Ids, NEW q \in route'[j]
        PROVE  q \in Started' /\ requestId'[q] = j
    BY <1>0, <2>1, <2>2, <2>3
  <2> QED BY <2>4
<1>2. ASSUME NEW r \in Requests, CallerStep(r) PROVE RoutedToOwnTopic'
  <2>1. Started' = Started /\ UNCHANGED requestId BY <1>2, MoveStep
  <2>2. \A i \in Ids : route'[i] \subseteq route[i]
    BY <1>2, MoveStep, UnsubscribeStep
  <2> QED BY <2>1, <2>2
<1>3. CASE ~ \E r \in Requests : Subscribe(r) \/ CallerStep(r)
  <2>1. UNCHANGED caller /\ Started' = Started
    BY <1>3, EnvironmentStep DEF Started
  <2>2. \A j \in Ids : route'[j] = route[j] \/ route'[j] = record[j]
    BY <1>3, EnvironmentStep, RouteStep
  <2> QED BY <2>1, <2>2 DEF RecordExplained
<1> QED BY <1>1, <1>2, <1>3

(* RequestIDs of requests that have started do not change. *)
LEMMA IdsStay ==
  ASSUME TypeOK, [Next]_vars
  PROVE  /\ Started \subseteq Started'
         /\ \A r \in Started : requestId'[r] = requestId[r]
<1>1. ASSUME NEW r \in Requests, Subscribe(r)
      PROVE  /\ Started \subseteq Started'
             /\ \A q \in Started : requestId'[q] = requestId[q]
  <2>1. PICK i \in Ids : /\ pc[r] = "idle" /\ Started' = Started \union {r}
                         /\ requestId' = [requestId EXCEPT ![r] = i]
    BY <1>1, SubscribeStep
  <2>2. r \notin Started BY <2>1 DEF Started
  <2> QED BY <2>1, <2>2 DEF TypeOK, Started
<1>2. ASSUME NEW r \in Requests, CallerStep(r)
      PROVE  Started' = Started /\ UNCHANGED requestId
  BY <1>2, MoveStep
<1>3. CASE ~ \E r \in Requests : Subscribe(r) \/ CallerStep(r)
  BY <1>3, EnvironmentStep DEF Started
<1> QED BY <1>1, <1>2, <1>3

LEMMA HeldStep ==
  ASSUME TypeOK, AskedThenAnswered, RoutedToOwnTopic, HeldFits, [Next]_vars
  PROVE  HeldFits'
<1>0. /\ handling \in [Requests -> SUBSET Items]
      /\ messages \in [Requests -> SUBSET Messages]
  BY DEF TypeOK
<1>1. net \subseteq net'
  BY MoveStep, SubscribeStep DEF Next, HandlerStep, HandlerSend, HandlerPanic,
     Respond, Dispatch, HookStep, Reconnect, OnConnect, Resubscribe,
     ReportError, vars
<1>2. ASSUME NEW m, NEW r, Fits(m, r) PROVE Fits(m, r)'
  <2>1. m.for \in Started /\ r \in Started
    BY <1>2 DEF Fits, AskedThenAnswered
  <2> QED BY <1>1, <1>2, <2>1, IdsStay DEF Fits
<1>3. SUFFICES ASSUME NEW r \in Requests
      PROVE /\ \A m \in handling'[r] :
                 m.kind = "good" => Fits(m, r) \/ Fits(m, r)'
            /\ \A m \in messages'[r] : Fits(m, r) \/ Fits(m, r)'
            /\ \A m, n \in messages'[r] : m = n
  BY <1>2 DEF HeldFits
<1> USE DEF HeldFits
<1>4. CASE UNCHANGED <<handling, messages>> BY <1>4
<1>5. ASSUME NEW q \in Requests, Subscribe(q)
      PROVE  UNCHANGED <<handling, messages>>
  BY <1>5, SubscribeStep
<1>6. ASSUME NEW q \in Requests, CallerStep(q)
      PROVE  UNCHANGED handling /\ messages'[r] \subseteq messages[r]
  BY <1>6, MoveStep
<1>7. ASSUME NEW q \in Requests, NEW m \in Messages, Dispatch(q, m)
      PROVE  /\ UNCHANGED messages
             /\ \/ handling'[r] = handling[r]
                \/ handling'[r] = {m} /\ (m.kind = "good" => Fits(m, r))
  <2>1. /\ m \in net /\ q \in route[requestId[m.for]]
        /\ handling' = [handling EXCEPT ![q] = {m}]
        /\ UNCHANGED messages
    BY <1>7 DEF Dispatch
  <2>2. requestId[m.for] \in Ids BY DEF TypeOK, Messages
  <2>3. m.kind = "good" => Fits(m, q)
    BY <2>1, <2>2 DEF RoutedToOwnTopic, Fits
  <2>4. \/ handling'[r] = handling[r]
        \/ q = r /\ handling'[r] = {m}
    BY <1>0, <2>1
  <2> QED BY <2>1, <2>3, <2>4
<1>8. ASSUME NEW q \in Requests, HandlerSend(q)
      PROVE  /\ \/ messages'[r] = messages[r]
                \/ \E m : messages'[r] = {m} /\ Fits(m, r)
             /\ \A m \in handling'[r] : m \in handling[r] \/ m.kind = "ack"
  <2>1. PICK m \in handling[q] :
          /\ \/ m.kind = "good" /\ messages' = [messages EXCEPT ![q] = {m}]
             \/ messages' = messages
          /\ \E rest \in AfterSend(m) :
               handling' = [handling EXCEPT ![q] = rest]
    BY <1>8 DEF HandlerSend
  <2>2. \A rest \in AfterSend(m) : \A n \in rest : n.kind = "ack"
    <3>1. m \in Items BY DEF TypeOK
    <3>2. [m EXCEPT !.kind = "ack"].kind = "ack" BY <3>1 DEF Items
    <3> QED BY <3>2 DEF AfterSend
  <2>3. \A n \in handling'[r] : n \in handling[r] \/ n.kind = "ack"
    <3>1. PICK rest \in AfterSend(m) :
            handling' = [handling EXCEPT ![q] = rest]
      BY <2>1
    <3>2. handling'[r] = handling[r] \/ handling'[r] = rest
      BY <1>0, <3>1
    <3> QED BY <2>2, <3>1, <3>2
  <2>4. m.kind = "good" => Fits(m, q) OBVIOUS
  <2>5. messages'[r] = messages[r]
        \/ (m.kind = "good" /\ q = r /\ messages'[r] = {m})
    BY <1>0, <2>1
  <2> QED BY <2>3, <2>4, <2>5
<1>9. ASSUME ~ UNCHANGED <<handling, messages>>
      PROVE  \E q \in Requests : \/ Subscribe(q) \/ CallerStep(q)
                                 \/ HandlerSend(q)
                                 \/ \E m \in Messages : Dispatch(q, m)
  BY <1>9 DEF Next, HandlerStep, HandlerPanic, Respond, HookStep, Reconnect,
              OnConnect, Resubscribe, ReportError, vars
<1>10. CASE \E q \in Requests : HandlerSend(q) BY <1>8, <1>10
<1>11. CASE \E q \in Requests : \E m \in Messages : Dispatch(q, m)
  BY <1>7, <1>11
<1>12. CASE \E q \in Requests : CallerStep(q) BY <1>6, <1>12
<1> QED BY <1>4, <1>5, <1>9, <1>10, <1>11, <1>12

(* A request that has been alone with its RequestID before a step may get   *)
(* company, not the other way round; who comes takes another RequestID when *)
(* it stays alone.                                                          *)
LEMMA AloneBefore ==
  ASSUME TypeOK, [Next]_vars, NEW r \in Started, Unshared(r)'
  PROVE  /\ Unshared(r)
         /\ \A q \in Started' \ {r} : requestId'[q] # requestId[r]
         /\ requestId'[r] = requestId[r]
<1>1. /\ Started \subseteq Started'
      /\ \A q \in Started : requestId'[q] = requestId[q]
  BY IdsStay
<1>2. \A q \in Started' \ {r} : requestId'[q] # requestId'[r]
  BY DEF Unshared
<1> QED BY <1>1, <1>2 DEF Unshared

(* Where a request that does not subscribe in this step comes from. *)
LEMMA ComesFrom ==
  ASSUME TypeOK, [Next]_vars, NEW r \in Requests, ~Subscribe(r)
  PROVE  /\ UNCHANGED transport
         /\ pc'[r] \in Sending => pc[r] \in Sending
         /\ pc'[r] \in Working => pc[r] \in Working
         /\ pc'[r] \in {"closing", "returned"}
              => \/ Unsubscribe(r) /\ outcome'[r] = outcome[r]
                 \/ /\ pc[r] \in {"closing", "returned"}
                    /\ outcome'[r] = outcome[r]
                    /\ unsubscribed'[r] = unsubscribed[r]
<1> USE DEF Sending, Working
<1>1. ASSUME NEW q \in Requests, q # r, Subscribe(q) \/ CallerStep(q)
      PROVE  /\ pc'[r] = pc[r] /\ outcome'[r] = outcome[r]
             /\ unsubscribed'[r] = unsubscribed[r] /\ UNCHANGED transport
  BY <1>1, SubscribeStep, MoveStep
<1>2. CASE CallerStep(r)
  BY <1>2 DEF CallerStep, Select, Publish, PublishEnds, TimeOut, ReceiveError,
              ReceiveResponse, Unsubscribe, Close, TypeOK
<1>3. CASE ~ \E q \in Requests : Subscribe(q) \/ CallerStep(q)
  BY <1>3, EnvironmentStep
<1> QED BY <1>1, <1>2, <1>3

(* As long as a request is alone with its RequestID, only its own           *)
(* unsubscribe touches its record, and its route but for re-creating it.    *)
LEMMA OthersKeepOff ==
  ASSUME TypeOK, [Next]_vars, NEW r \in Started, Unshared(r)', ~Unsubscribe(r)
  PROVE  /\ Unshared(r) /\ requestId'[r] = requestId[r]
         /\ route'[requestId[r]] \in {route[requestId[r]],
                                      record[requestId[r]]}
         /\ record'[requestId[r]] = record[requestId[r]]
<1>0. /\ route \in [Ids -> SUBSET Requests]
      /\ record \in [Ids -> SUBSET Requests]
      /\ requestId \in [Requests -> Ids] /\ r \in Requests /\ pc[r] # "idle"
  BY DEF TypeOK, Started
<1>1. /\ Unshared(r)
      /\ \A q \in Started' \ {r} : requestId'[q] # requestId[r]
      /\ requestId'[r] = requestId[r]
  BY AloneBefore
<1>2. ASSUME NEW q \in Requests, Subscribe(q)
      PROVE  /\ route'[requestId[r]] = route[requestId[r]]
             /\ record'[requestId[r]] = record[requestId[r]]
  <2>1. PICK i \in Ids :
          /\ pc[q] = "idle" /\ Started' = Started \union {q}
          /\ requestId' = [requestId EXCEPT ![q] = i]
          /\ \/ route' = route
             \/ route' = [route EXCEPT ![i] = IF transport = "mqtt" THEN {q}
                                              ELSE @ \union {q}]
             \/ route' = [route EXCEPT ![i] = {q}]
          /\ record' = record \/ record' = [record EXCEPT ![i] = {q}]
    BY <1>2, SubscribeStep
  <2>2. i # requestId[r] BY <1>0, <1>1, <2>1
  <2>3. route'[requestId[r]] = route[requestId[r]] BY <1>0, <2>1, <2>2
  <2> QED BY <1>0, <2>1, <2>2, <2>3
<1>3. ASSUME NEW q \in Requests, Unsubscribe(q)
      PROVE  /\ route'[requestId[r]] = route[requestId[r]]
             /\ record'[requestId[r]] = record[requestId[r]]
  <2>1. /\ pc[q] = "unsubscribing"
        /\ \A i \in Ids \ {requestId[q]} :
             route'[i] = route[i] /\ record'[i] = record[i]
    BY <1>3, UnsubscribeStep
  <2>2. q # r /\ q \in Started BY <1>3, <2>1 DEF Started
  <2>3. requestId[q] # requestId[r] BY <1>1, <2>2 DEF Unshared
  <2> QED BY <1>0, <2>1, <2>3
<1>4. ASSUME NEW q \in Requests, CallerStep(q), ~Unsubscribe(q)
      PROVE  UNCHANGED table
  BY <1>4, MoveStep
<1>5. CASE ~ \E q \in Requests : Subscribe(q) \/ CallerStep(q)
  <2>1. UNCHANGED record /\ (UNCHANGED route \/ \E i \in Ids : Resubscribe(i))
    BY <1>5, EnvironmentStep
  <2>2. requestId[r] \in Ids BY <1>0
  <2>3. \/ route'[requestId[r]] = route[requestId[r]]
        \/ route'[requestId[r]] = record[requestId[r]]
    BY <2>1, <2>2, RouteStep
  <2> QED BY <1>1, <2>1, <2>3
<1> QED BY <1>1, <1>2, <1>3, <1>4, <1>5

LEMMA RecordedStep ==
  ASSUME TypeOK, RecordExplained, [Next]_vars
  PROVE  RecordExplained'
<1>0. /\ record \in [Ids -> SUBSET Requests]
      /\ requestId \in [Requests -> Ids]
      /\ unsubscribed \in [Requests -> {"none", "ok", "failed"}]
  BY DEF TypeOK
<1> SUFFICES ASSUME NEW i \in Ids, NEW r \in record'[i]
             PROVE  /\ requestId'[r] = i /\ r \in Started'
                    /\ pc'[r] \in Working \/ unsubscribed'[r] = "failed"
  BY DEF RecordExplained
<1>1. ASSUME r \in Requests, Subscribe(r)
      PROVE  requestId'[r] = i /\ r \in Started' /\ pc'[r] \in Working
  <2>1. PICK j \in Ids :
          /\ pc[r] = "idle" /\ Started' = Started \union {r}
          /\ requestId' = [requestId EXCEPT ![r] = j]
          /\ \/ pc'[r] = "publishing" /\ record' = [record EXCEPT ![j] = {r}]
             \/ record' = record
    BY <1>1, SubscribeStep
  <2>2. r \notin Started BY <2>1 DEF Started
  <2>3. r \notin record[i] BY <2>2 DEF RecordExplained
  <2>4. /\ pc'[r] = "publishing" /\ record' = [record EXCEPT ![j] = {r}]
    BY <2>1, <2>3
  <2>5. i = j BY <1>0, <2>3, <2>4
  <2>6. requestId'[r] = i BY <1>0, <1>1, <2>1, <2>5
  <2>7. pc'[r] \in Working BY <2>4 DEF Working, Sending
  <2> QED BY <2>1, <2>6, <2>7
<1>2. ASSUME r \in record[i], r \in Requests, ~ Subscribe(r)
      PROVE  /\ requestId'[r] = i /\ r \in Started'
             /\ pc'[r] \in Working \/ unsubscribed'[r] = "failed"
  <2>1. /\ requestId[r] = i /\ r \in Started
        /\ pc[r] \in Working \/ unsubscribed[r] = "failed"
    BY <1>2 DEF RecordExplained
  <2>2. requestId'[r] = i /\ r \in Started' BY <2>1, IdsStay
  <2>3. CASE Unsubscribe(r)
    <3>1. \/ unsubscribed'[r] = "failed"
          \/ record'[requestId[r]] = {}
      BY <1>2, <2>3, UnsubscribeStep
    <3> QED BY <2>1, <2>2, <3>1
  <2>4. CASE CallerStep(r) /\ ~Unsubscribe(r)
    <3>1. pc[r] \in {"closing", "returned"} => unsubscribed'[r] = "failed"
      BY <1>2, <2>1, <2>4, MoveStep DEF Working, Sending
    <3>2. pc[r] \in Working => pc'[r] \in Working
      BY <2>4 DEF CallerStep, Select, Publish, PublishEnds, TimeOut,
         ReceiveError, ReceiveResponse, Close, TypeOK, Working, Sending
    <3>3. unsubscribed'[r] = unsubscribed[r] BY <1>2, <2>4, MoveStep
    <3> QED BY <2>1, <2>2, <3>2, <3>3
  <2>5. CASE ~CallerStep(r)
    <3>1. pc'[r] = pc[r] /\ unsubscribed'[r] = unsubscribed[r]
      <4>1. ASSUME NEW q \in Requests, q # r, Subscribe(q) \/ CallerStep(q)
            PROVE  pc'[r] = pc[r] /\ unsubscribed'[r] = unsubscribed[r]
        BY <1>2, <4>1, SubscribeStep, MoveStep
      <4> QED BY <1>2, <2>5, <4>1, EnvironmentStep
    <3> QED BY <2>1, <2>2, <3>1
  <2> QED BY <2>3, <2>4, <2>5
<1>3. ASSUME r \notin record[i]
      PROVE  r \in Requests /\ Subscribe(r)
  <2>1. ASSUME NEW q \in Requests, Subscribe(q)
        PROVE  q = r
    <3>1. PICK j \in Ids :
            record' = record \/ record' = [record EXCEPT ![j] = {q}]
      BY <2>1, SubscribeStep
    <3> QED BY <1>0, <1>3, <3>1
  <2>2. ASSUME NEW q \in Requests, CallerStep(q)
        PROVE  FALSE
    <3>1. CASE Unsubscribe(q)
      <4>1. i = requestId[q] => record'[i] = {} \/ record'[i] = record[i]
        BY <3>1, UnsubscribeStep
      <4>2. i # requestId[q] => record'[i] = record[i]
        BY <3>1, UnsubscribeStep
      <4> QED BY <1>3, <4>1, <4>2
    <3>2. CASE ~Unsubscribe(q) BY <1>3, <2>2, <3>2, MoveStep
    <3> QED BY <3>1, <3>2
  <2> QED BY <1>3, <2>1, <2>2, EnvironmentStep
<1>4. record[i] \subseteq Requests BY <1>0
<1> QED BY <1>1, <1>2, <1>3, <1>4

LEMMA RecordStep ==
  ASSUME TypeOK, RecordIsOwn, [Next]_vars
  PROVE  RecordIsOwn'
<1>1. SUFFICES ASSUME NEW r \in Requests, Unshared(r)', pc'[r] \in Working
               PROVE  record'[requestId'[r]] = {r}
  BY DEF RecordIsOwn
<1>2. CASE Subscribe(r)
  <2>1. PICK i \in Ids :
          /\ requestId' = [requestId EXCEPT ![r] = i]
          /\ \/ record' = [record EXCEPT ![i] = {r}]
             \/ pc'[r] = "returned"
    BY <1>2, SubscribeStep
  <2> QED BY <1>1, <2>1 DEF TypeOK, Working, Sending
<1>3. CASE ~ Subscribe(r)
  <2>1. pc[r] \in Working BY <1>1, <1>3, ComesFrom
  <2>2. r \in Started BY <2>1 DEF Started, Working, Sending
  <2>3. ~Unsubscribe(r) BY <1>1, UnsubscribeStep DEF Working, Sending
  <2>4. /\ Unshared(r) /\ requestId'[r] = requestId[r]
        /\ record'[requestId[r]] = record[requestId[r]]
    BY <1>1, <2>2, <2>3, OthersKeepOff
  <2> QED BY <2>1, <2>4 DEF RecordIsOwn
<1> QED BY <1>2, <1>3

LEMMA InPlaceStep ==
  ASSUME TypeOK, RecordIsOwn, HandlerInPlace, [Next]_vars
  PROVE  HandlerInPlace'
<1>1. SUFFICES ASSUME NEW r \in Requests, Unshared(r)', pc'[r] \in Sending
               PROVE  r \in route'[requestId'[r]]
  BY DEF HandlerInPlace
<1>2. CASE Subscribe(r)
  <2>1. PICK i \in Ids :
          /\ requestId' = [requestId EXCEPT ![r] = i]
          /\ \/ route' = [route EXCEPT ![i] = IF transport = "mqtt" THEN {r}
                                              ELSE @ \union {r}]
             \/ pc'[r] = "returned"
    BY <1>2, SubscribeStep
  <2>2. requestId'[r] = i BY <2>1 DEF TypeOK
  <2>3. r \in (IF transport = "mqtt" THEN {r} ELSE route[i] \union {r})
    OBVIOUS
  <2>4. pc'[r] # "returned" BY <1>1 DEF Sending
  <2>5. r \in route'[i] BY <2>1, <2>3, <2>4 DEF TypeOK
  <2> QED BY <2>2, <2>5
<1>3. CASE ~ Subscribe(r)
  <2>1. pc[r] \in Sending BY <1>1, <1>3, ComesFrom
  <2>2. r \in Started BY <2>1 DEF Started, Sending
  <2>3. ~Unsubscribe(r) BY <1>1, UnsubscribeStep DEF Sending
  <2>4. /\ Unshared(r) /\ requestId'[r] = requestId[r]
        /\ route'[requestId[r]] \in {route[requestId[r]],
                                     record[requestId[r]]}
    BY <1>1, <2>2, <2>3, OthersKeepOff
  <2>5. pc[r] \in Working BY <2>1 DEF Working
  <2>6. r \in route[requestId[r]] /\ r \in record[requestId[r]]
    BY <2>1, <2>4, <2>5 DEF HandlerInPlace, RecordIsOwn
  <2> QED BY <2>4, <2>6
<1> QED BY <1>2, <1>3

(* A request whose own subscription the broker does not serve has           *)
(* onConnectHandler before it, or its error in its channel.                 *)
LEMMA TopicStep ==
  ASSUME TypeOK, RecordIsOwn, TopicInHand, [Next]_vars
  PROVE  TopicInHand'
<1>0. /\ requestId \in [Requests -> Ids] /\ errs \in [Requests -> BOOLEAN]
      /\ due \in Nat /\ reconnects \in Nat
  <2>1. reconnects \in 0..MaxReconnects /\ due \in 0..reconnects
    BY DEF TypeOK
  <2>2. reconnects \in Nat /\ due \in Nat BY <2>1, Reconnects
  <2>3. requestId \in [Requests -> Ids] /\ errs \in [Requests -> BOOLEAN]
    BY DEF TypeOK
  <2> QED BY <2>2, <2>3
<1>1. SUFFICES ASSUME NEW r \in Requests, Unshared(r)', pc'[r] \in Sending,
                      transport' = "mqtt"
               PROVE  InHand(r)'
  BY DEF TopicInHand
<1> USE DEF InHand
<1>2. CASE Subscribe(r)
  <2>1. PICK i \in Ids :
          /\ requestId' = [requestId EXCEPT ![r] = i]
          /\ \/ SubAck(i)
             \/ pc'[r] = "returned" \/ transport # "mqtt"
          /\ UNCHANGED transport
    BY <1>2, SubscribeStep
  <2>2. requestId'[r] = i BY <1>0, <2>1
  <2>3. SubAck(i) BY <1>1, <2>1 DEF Sending
  <2> QED BY <2>2, <2>3 DEF SubAck
<1>3. CASE ~ Subscribe(r)
  <2>1. pc[r] \in Sending /\ pc[r] \in Working /\ transport = "mqtt"
    BY <1>1, <1>3, ComesFrom DEF Working
  <2>2. r \in Started BY <2>1 DEF Started, Sending
  <2>3. ~Unsubscribe(r) BY <1>1, UnsubscribeStep DEF Sending
  <2>4. /\ Unshared(r) /\ requestId'[r] = requestId[r]
        /\ \A q \in Started' \ {r} : requestId'[q] # requestId[r]
    BY <1>1, <2>2, AloneBefore
  <2>5. InHand(r) /\ record[requestId[r]] = {r} /\ requestId[r] \in Ids
    BY <1>0, <2>1, <2>4 DEF TopicInHand, RecordIsOwn
  <2>6. ASSUME NEW q \in Requests, Subscribe(q)
        PROVE  InHand(r)'
    <3>1. PICK i \in Ids :
            /\ requestId' = [requestId EXCEPT ![q] = i]
            /\ SubAck(i) \/ UNCHANGED session
            /\ Started' = Started \union {q}
            /\ UNCHANGED <<errs, hook>>
      BY <2>6, SubscribeStep
    <3>2. i # requestId[r] BY <1>0, <1>3, <2>4, <2>6, <3>1
    <3>3. /\ requestId[r] \in served => requestId[r] \in served'
          /\ requestId[r] \in refused => requestId[r] \in refused'
      BY <3>1, <3>2 DEF SubAck
    <3> QED BY <2>4, <2>5, <3>1, <3>3
  <2>7. ASSUME NEW q \in Requests, CallerStep(q)
        PROVE  InHand(r)'
    <3>1. CASE Unsubscribe(q)
      <4>1. /\ served \ served' \subseteq {requestId[q]}
            /\ refused \ refused' \subseteq {requestId[q]}
            /\ pc[q] = "unsubscribing" /\ UNCHANGED <<errs, hook>>
        BY <3>1, UnsubscribeStep DEF Unsubscribe
      <4>2. q # r /\ q \in Started BY <2>3, <3>1, <4>1 DEF Started
      <4>3. requestId[q] # requestId[r] BY <2>4, <4>2 DEF Unshared
      <4> QED BY <2>4, <2>5, <4>1, <4>3
    <3>2. CASE ~Unsubscribe(q)
      <4>1. UNCHANGED <<session, hook>> BY <2>7, <3>2, MoveStep
      <4>2. errs[r] => errs'[r]
        <5>1. ~ReceiveError(r)
          BY <1>1 DEF ReceiveError, TypeOK, Sending
        <5>2. CASE ReceiveError(q) BY <1>0, <5>1, <5>2 DEF ReceiveError
        <5>3. CASE ~ReceiveError(q)
          BY <2>7, <3>2, <5>3 DEF CallerStep, Select, Publish, PublishEnds,
             TimeOut, ReceiveResponse, Close
        <5> QED BY <5>2, <5>3
      <4> QED BY <2>4, <2>5, <4>1, <4>2
    <3> QED BY <3>1, <3>2
  <2>8. CASE Reconnect BY <1>0, <2>8 DEF Reconnect
  <2>9. CASE OnConnect
    <3>1. requestId[r] \in {i \in Ids : record[i] # {}} BY <2>5
    <3> QED BY <2>4, <2>9, <3>1 DEF OnConnect
  <2>10. ASSUME NEW i \in Ids, Resubscribe(i)
        PROVE  InHand(r)'
    <3>1. /\ SubAck(i) \/ (UNCHANGED <<session, todo>>)
          /\ todo \ todo' \subseteq {i}
          /\ UNCHANGED <<due, errs>>
      BY <2>10 DEF Resubscribe
    <3>2. CASE i = requestId[r] BY <2>4, <2>5, <3>1, <3>2 DEF SubAck
    <3>3. CASE i # requestId[r] BY <2>4, <2>5, <3>1, <3>3 DEF SubAck
    <3> QED BY <3>2, <3>3
  <2>11. ASSUME NEW i \in Ids, NEW q \in Requests, ReportError(i, q)
        PROVE  InHand(r)'
    <3>1. /\ q \in record[i] /\ UNCHANGED <<session, due>>
          /\ \/ errs' = [errs EXCEPT ![q] = TRUE] /\ todo' = todo \ {i}
             \/ UNCHANGED <<errs, todo>>
      BY <2>11 DEF ReportError
    <3>2. errs[r] => errs'[r] BY <1>0, <3>1
    <3>3. i = requestId[r] => q = r BY <2>5, <3>1
    <3>4. \/ UNCHANGED <<errs, todo>> \/ (i = requestId[r] /\ errs'[r])
          \/ i # requestId[r] /\ todo' = todo \ {i}
      BY <1>0, <3>1, <3>3
    <3> QED BY <2>4, <2>5, <3>1, <3>2, <3>4
  <2>12. CASE \/ \E q \in Requests : HandlerStep(q)
              \/ \E m \in Messages : Respond(m)
              \/ \E q \in Requests, m \in Messages : Dispatch(q, m)
              \/ UNCHANGED vars
    <3>1. UNCHANGED <<session, hook>> /\ (errs[r] => errs'[r])
      <4>1. ASSUME NEW q \in Requests, HandlerSend(q)
            PROVE  UNCHANGED <<session, hook>> /\ (errs[r] => errs'[r])
        BY <1>0, <4>1 DEF HandlerSend
      <4> QED BY <2>12, <4>1
              DEF HandlerStep, HandlerPanic, Respond, Dispatch, vars
    <3> QED BY <2>4, <2>5, <3>1
  <2> QED BY <2>6, <2>7, <2>8, <2>9, <2>10, <2>11, <2>12 DEF Next, HookStep
<1> QED BY <1>2, <1>3

LEMMA LeaksStep ==
  ASSUME TypeOK, RecordExplained, RoutedToOwnTopic, RecordIsOwn,
         LeaksExplained, [Next]_vars
  PROVE  LeaksExplained'
<1>0. /\ route \in [Ids -> SUBSET Requests]
      /\ requestId \in [Requests -> Ids]
      /\ transport \in {"mqtt", "jetstream"}
  BY DEF TypeOK
<1>1. SUFFICES ASSUME NEW r \in Requests, pc'[r] \in {"closing", "returned"},
                      r \in route'[requestId'[r]], ~Failed(r)'
               PROVE  transport' = "jetstream" /\ ~Unshared(r)'
  BY DEF LeaksExplained
<1>2. CASE Subscribe(r)
  <2>1. PICK i \in Ids :
          /\ pc[r] = "idle" /\ requestId' = [requestId EXCEPT ![r] = i]
          /\ \/ pc'[r] = "publishing"
             \/ /\ outcome'[r] = "subscribe failed"
                /\ \/ route' = route
                   \/ transport = "mqtt"
          /\ UNCHANGED transport
    BY <1>2, SubscribeStep
  <2>2. transport # "mqtt" /\ route' = route /\ requestId'[r] = i
    BY <1>0, <1>1, <2>1 DEF Failed
  <2>3. r \notin route[i] BY <2>1 DEF RoutedToOwnTopic, Started
  <2> QED BY <1>1, <2>2, <2>3
<1>3. CASE Unsubscribe(r)
  <2>1. pc[r] = "unsubscribing" /\ requestId' = requestId
        /\ transport = "jetstream" /\ UNCHANGED transport
        /\ r \notin record[requestId[r]]
    BY <1>0, <1>1, <1>3, UnsubscribeStep DEF Unsubscribe, Failed
  <2>2. ~Unshared(r) BY <2>1 DEF RecordIsOwn, Working
  <2>3. r \in Started BY <2>1 DEF Started
  <2> QED BY <2>1, <2>2, <2>3, AloneBefore
<1>4. CASE ~Subscribe(r) /\ ~Unsubscribe(r)
  <2>1. /\ pc[r] \in {"closing", "returned"} /\ UNCHANGED transport
        /\ outcome'[r] = outcome[r] /\ unsubscribed'[r] = unsubscribed[r]
    BY <1>1, <1>4, ComesFrom
  <2>2. r \in Started BY <2>1 DEF Started
  <2>3. requestId'[r] = requestId[r] BY <2>2, IdsStay
  <2>4. ~Failed(r) BY <1>1, <2>1 DEF Failed
  <2>5. ASSUME NEW q \in Requests, Subscribe(q)
        PROVE  r \in route'[requestId[r]] => r \in route[requestId[r]]
    <3>1. PICK i \in Ids :
            \/ route' = route
            \/ route' = [route EXCEPT ![i] = IF transport = "mqtt" THEN {q}
                                             ELSE @ \union {q}]
            \/ route' = [route EXCEPT ![i] = {q}]
      BY <2>5, SubscribeStep
    <3>2. q # r BY <1>4, <2>5
    <3> QED BY <1>0, <3>1, <3>2
  <2>6. ASSUME NEW q \in Requests, CallerStep(q)
        PROVE  route'[requestId[r]] \subseteq route[requestId[r]]
    BY <1>0, <2>6, MoveStep, UnsubscribeStep
  <2>7. r \notin record[requestId[r]]
    BY <1>0, <2>1, <2>4 DEF RecordExplained, Failed, Working, Sending
  <2>9. r \in route[requestId[r]]
    <3>1. ASSUME ~ \E q \in Requests : Subscribe(q) \/ CallerStep(q)
          PROVE  r \in route[requestId[r]]
      <4>1. requestId[r] \in Ids BY <1>0
      <4>2. \/ route'[requestId[r]] = route[requestId[r]]
            \/ route'[requestId[r]] = record[requestId[r]]
        BY <3>1, <4>1, EnvironmentStep, RouteStep
      <4> QED BY <1>1, <2>3, <2>7, <4>2
    <3> QED BY <1>1, <2>3, <2>5, <2>6, <3>1
  <2>8. transport = "jetstream" /\ ~Unshared(r)
    BY <2>1, <2>4, <2>9 DEF LeaksExplained
  <2> QED BY <2>1, <2>2, <2>8, AloneBefore
<1> QED BY <1>2, <1>3, <1>4

LEMMA TodoStep ==
  ASSUME TypeOK, TodoRecorded, [Next]_vars
  PROVE  TodoRecorded'
<1> USE DEF TodoRecorded
<1>0. record \in [Ids -> SUBSET Requests] BY DEF TypeOK
<1>1. ASSUME NEW r \in Requests, Subscribe(r) \/ Unsubscribe(r)
      PROVE  TodoRecorded'
  <2>1. UNCHANGED <<transport, hook>> /\ MutexFree
    BY <1>1 DEF Subscribe, Unsubscribe
  <2>2. todo = {} BY <2>1 DEF MutexFree
  <2> QED BY <2>1, <2>2
<1>2. ASSUME NEW r \in Requests, CallerStep(r), ~Unsubscribe(r)
      PROVE  TodoRecorded'
  BY <1>2, MoveStep
<1>3. CASE Reconnect BY <1>3 DEF Reconnect
<1>4. CASE OnConnect BY <1>4 DEF OnConnect
<1>5. ASSUME NEW i \in Ids,
             Resubscribe(i) \/ \E r \in Requests : ReportError(i, r)
      PROVE  TodoRecorded'
  <2>1. todo' \subseteq todo /\ UNCHANGED <<transport, due, record>>
    BY <1>5 DEF Resubscribe, ReportError
  <2> QED BY <2>1
<1>6. ASSUME UNCHANGED <<transport, hook, record>> PROVE TodoRecorded'
  BY <1>6
<1> QED
  BY <1>1, <1>2, <1>3, <1>4, <1>5, <1>6
  DEF Next, HandlerStep, HandlerSend, HandlerPanic, Respond, Dispatch,
      HookStep, vars

LEMMA ServedStep ==
  ASSUME TypeOK, RecordExplained, TodoRecorded, ServedExplained, [Next]_vars
  PROVE  ServedExplained'
<1>0. /\ requestId \in [Requests -> Ids]
      /\ record \in [Ids -> SUBSET Requests]
  BY DEF TypeOK
<1> DEFINE Why(r) == \/ pc[r] \in Working
                     \/ unsubscribed[r] = "failed"
                     \/ outcome[r] = "subscribe failed"
<1>1. SUFFICES ASSUME NEW i \in served'
               PROVE  \E r \in Started' : requestId'[r] = i /\ Why(r)'
  BY DEF ServedExplained
<1>2. ASSUME NEW r \in Started, requestId[r] = i, Why(r),
             ~ (Unsubscribe(r) /\ requestId[r] \notin served')
      PROVE  \E q \in Started' : requestId'[q] = i /\ Why(q)'
  <2>1. r \in Started' /\ requestId'[r] = i BY <1>2, IdsStay
  <2>2. r \in Requests /\ pc[r] # "idle" BY DEF Started
  <2>3. Why(r)'
    <3>1. CASE CallerStep(r)
      <4>1. CASE Unsubscribe(r)
        <5>1. unsubscribed'[r] = "failed" \/ requestId[r] \notin served'
          BY <2>2, <4>1, UnsubscribeStep
        <5> QED BY <1>2, <4>1, <5>1
      <4>2. CASE ~Unsubscribe(r)
        <5>1. unsubscribed'[r] = unsubscribed[r]
          BY <2>2, <3>1, <4>2, MoveStep
        <5>2. pc[r] \in Working => pc'[r] \in Working
          BY <2>2, <3>1, <4>2
          DEF CallerStep, Select, Publish, PublishEnds, TimeOut, ReceiveError,
              ReceiveResponse, Close, TypeOK, Working, Sending
        <5>3. outcome'[r] = outcome[r] \/ pc[r] \in Working
          BY <2>2, <3>1, <4>2
          DEF CallerStep, Select, Publish, PublishEnds, TimeOut, ReceiveError,
              ReceiveResponse, Close, TypeOK, Working, Sending
        <5> QED BY <1>2, <5>1, <5>2, <5>3
      <4> QED BY <4>1, <4>2
    <3>2. CASE ~CallerStep(r)
      <4>1. ~Subscribe(r) BY <2>2, SubscribeStep
      <4>2. ASSUME NEW q \in Requests, q # r, Subscribe(q) \/ CallerStep(q)
            PROVE  /\ pc'[r] = pc[r] /\ unsubscribed'[r] = unsubscribed[r]
                   /\ outcome'[r] = outcome[r]
        BY <2>2, <4>2, SubscribeStep, MoveStep
      <4>3. /\ pc'[r] = pc[r] /\ unsubscribed'[r] = unsubscribed[r]
            /\ outcome'[r] = outcome[r]
        BY <2>2, <3>2, <4>1, <4>2, EnvironmentStep
      <4> QED BY <1>2, <4>3
    <3> QED BY <3>1, <3>2
  <2> QED BY <2>1, <2>3
<1>3. CASE i \in served
  <2>1. PICK r \in Started : requestId[r] = i /\ Why(r)
    BY <1>3 DEF ServedExplained
  <2> QED BY <1>1, <1>2, <2>1
<1>4. CASE i \notin served
  <2>1. ASSUME NEW r \in Requests, Subscribe(r)
        PROVE  \E q \in Started' : requestId'[q] = i /\ Why(q)'
    <3>1. PICK j \in Ids :
            /\ requestId' = [requestId EXCEPT ![r] = j]
            /\ Started' = Started \union {r}
            /\ SubAck(j) \/ UNCHANGED session
            /\ pc'[r] = "publishing" \/ outcome'[r] = "subscribe failed"
      <4>1. PICK j \in Ids :
              /\ requestId' = [requestId EXCEPT ![r] = j]
              /\ Started' = Started \union {r}
              /\ \/ pc'[r] = "publishing"
                 \/ pc'[r] = "returned" /\ outcome'[r] = "subscribe failed"
              /\ SubAck(j) \/ UNCHANGED session
        BY <2>1, SubscribeStep
      <4> QED BY <4>1
    <3>2. j = i
      <4>1. \/ served' = served \union {j} \/ served' = served
        BY <3>1 DEF SubAck
      <4> QED BY <1>4, <4>1
    <3>3. requestId'[r] = i /\ Why(r)'
      BY <1>0, <3>1, <3>2 DEF Working, Sending
    <3> QED BY <3>1, <3>3
  <2>2. ASSUME NEW r \in Requests, CallerStep(r)
        PROVE  FALSE
    BY <1>1, <1>4, <2>2, MoveStep, UnsubscribeStep
  <2>3. ASSUME NEW j \in Ids, Resubscribe(j)
        PROVE  \E q \in Started' : requestId'[q] = i /\ Why(q)'
    <3>1. j = i /\ j \in todo
      BY <1>1, <1>4, <2>3 DEF Resubscribe, SubAck
    <3>2. PICK r : r \in record[j] BY <3>1 DEF TodoRecorded
    <3>3. r \in Requests /\ r \in Started /\ requestId[r] = i
          /\ (pc[r] \in Working \/ unsubscribed[r] = "failed")
      BY <1>0, <3>1, <3>2 DEF RecordExplained
    <3>4. UNCHANGED caller BY <2>3 DEF Resubscribe
    <3> QED BY <3>3, <3>4 DEF Started
  <2>4. ASSUME UNCHANGED session PROVE FALSE BY <1>1, <1>4, <2>4
  <2>5. CASE Reconnect BY <1>1, <1>4, <2>5 DEF Reconnect
  <2>6. \/ \E r \in Requests : Subscribe(r) \/ CallerStep(r)
        \/ \E j \in Ids : Resubscribe(j)
        \/ Reconnect \/ UNCHANGED session
    BY DEF Next, HandlerStep, HandlerSend, HandlerPanic, Respond, Dispatch,
           HookStep, OnConnect, ReportError, vars
  <2> QED BY <2>1, <2>2, <2>3, <2>4, <2>5, <2>6
<1> QED BY <1>3, <1>4

LEMMA Invariance == Spec => []IInv
<1>1. Init => IInv
  <2> SUFFICES ASSUME Init PROVE IInv OBVIOUS
  <2> USE DEF Init
  <2>1. TypeOK
    BY Reconnects DEF TypeOK
  <2>2. OutcomeAtSelect /\ HandlerInPlace /\ LeaksExplained /\ RecordIsOwn
    BY DEF OutcomeAtSelect, HandlerInPlace, LeaksExplained, RecordIsOwn,
           Working, Sending
  <2>3. AskedThenAnswered /\ RoutedToOwnTopic /\ HeldFits
    BY DEF AskedThenAnswered, RoutedToOwnTopic, HeldFits
  <2>4. /\ RecordExplained /\ TopicInHand /\ TodoRecorded
        /\ ServedExplained
    BY DEF RecordExplained, TopicInHand, TodoRecorded, ServedExplained, Sending
  <2> QED BY <2>1, <2>2, <2>3, <2>4 DEF IInv
<1>2. IInv /\ [Next]_vars => IInv'
  BY TypeStep, OutcomeStep, AskedStep, RecordedStep, RoutedStep, HeldStep,
     RecordStep, InPlaceStep, TopicStep, LeaksStep, TodoStep, ServedStep
  DEF IInv
<1> QED BY <1>1, <1>2, PTL DEF Spec

(* Every variable keeps its type; in particular a buffer never holds the    *)
(* item of a failed acknowledgement.                                        *)
THEOREM TypeCorrect == Spec => []TypeOK
<1>1. IInv => TypeOK BY DEF IInv
<1> QED BY <1>1, Invariance, PTL

(* DoRequest subscribes before it publishes, and nobody with another        *)
(* RequestID takes the handler away; a topic that the MQTT broker forgets   *)
(* is re-created, or the request hears of it, or it was refused.            *)
THEOREM HandlerWaits == Spec => []SubscribedWhileWaiting
<1>1. IInv => SubscribedWhileWaiting
  BY DEF IInv, HandlerInPlace, TopicInHand, InHand, Sending,
         SubscribedWhileWaiting
<1> QED BY <1>1, Invariance, PTL

(* A response topic outlives its request only when unsubscribing failed, an *)
(* MQTT subscribe failed halfway, or a second NATS subscription of it hid   *)
(* the first one.                                                           *)
THEOREM LeaksAreExplained == Spec => []RouteLeaksExplained
<1>1. IInv => RouteLeaksExplained
  <2> SUFFICES ASSUME IInv PROVE RouteLeaksExplained OBVIOUS
  <2>1. \A r \in Requests :
          pc[r] = "returned" /\ r \in route[requestId[r]]
            => Failed(r) \/ (transport = "jetstream" /\ ~Unshared(r))
    BY DEF IInv, LeaksExplained
  <2>2. \A i \in served : \E r \in Started :
          /\ requestId[r] = i
          /\ \/ pc[r] \in {"publishing", "sent", "awaiting", "unsubscribing"}
             \/ unsubscribed[r] = "failed" \/ outcome[r] = "subscribe failed"
    <3>1. ServedExplained BY DEF IInv
    <3>2. Working = {"publishing", "sent", "awaiting", "unsubscribing"}
      BY DEF Working, Sending
    <3> QED BY <3>1, <3>2 DEF ServedExplained
  <2> QED BY <2>1, <2>2 DEF Failed, RouteLeaksExplained
<1> QED BY <1>1, Invariance, PTL

(* A step that changes the phase of one request at most. *)
LEMMA PhaseStep ==
  ASSUME NEW r \in Requests, NEW p,
         \A q \in Requests \ {r} : pc'[q] = pc[q] /\ outcome'[q] = outcome[q],
         Phase(r)' = p
  PROVE  [q \in Requests |-> Phase(q)]'
           = [[q \in Requests |-> Phase(q)] EXCEPT ![r] = p]
  BY DEF Phase

(* DoRequest implements RequestReply: it opens with the subscription, asks  *)
(* with the publish, and ends with the select.                              *)
THEOREM ReplyImplemented == Spec => ImplementsReply
<1> USE DEF Reply!Init, Reply!Next, Reply!vars
<1>1. Init => Reply!Init
  <2> SUFFICES ASSUME Init PROVE Reply!Init OBVIOUS
  <2> QED BY DEF Init, Phase
<1>2. IInv /\ [Next]_vars => [Reply!Next]_(Reply!vars)
  <2> SUFFICES ASSUME IInv, [Next]_vars PROVE [Reply!Next]_(Reply!vars)
    OBVIOUS
  <2> USE DEF IInv
  <2> DEFINE phase == [q \in Requests |-> Phase(q)]
  <2>1. ASSUME NEW r \in Requests, Subscribe(r)
        PROVE  Reply!Open(r) \/ Reply!Refuse(r)
    <3>1. PICK i \in Ids :
            /\ pc[r] = "idle"
            /\ requestId' = [requestId EXCEPT ![r] = i]
            /\ \A q \in Requests \ {r} :
                 pc'[q] = pc[q] /\ outcome'[q] = outcome[q]
            /\ \/ pc'[r] = "publishing" /\ outcome'[r] = outcome[r]
               \/ pc'[r] = "returned" /\ outcome'[r] = "subscribe failed"
            /\ UNCHANGED <<asked, net>>
      BY <2>1, SubscribeStep
    <3>2. UNCHANGED response BY <2>1 DEF Subscribe
    <3>3. Phase(r) = "idle" /\ outcome[r] = "none"
      BY <3>1 DEF Phase, OutcomeAtSelect
    <3>4. Phase(r)' \in {"open", "done"} BY <3>1, <3>3 DEF Phase
    <3>5. phase' = [phase EXCEPT ![r] = Phase(r)'] BY <3>1, PhaseStep
    <3>6. CASE Phase(r)' = "open"
      BY <3>1, <3>2, <3>3, <3>5, <3>6 DEF Reply!Open, Phase
    <3>7. CASE Phase(r)' = "done"
      BY <3>1, <3>2, <3>3, <3>5, <3>7 DEF Reply!Refuse, Phase
    <3> QED BY <3>4, <3>6, <3>7
  <2>2. ASSUME NEW r \in Requests, Publish(r) \/ PublishEnds(r)
        PROVE  Reply!Ask(r) \/ Reply!Fail(r) \/ UNCHANGED Reply!vars
    <3>1. /\ \A q \in Requests \ {r} :
               pc'[q] = pc[q] /\ outcome'[q] = outcome[q]
          /\ pc'[r] # "idle"
      BY <2>2, MoveStep DEF CallerStep
    <3>2. phase' = [phase EXCEPT ![r] = Phase(r)'] BY <3>1, PhaseStep
    <3>3. phase[r] = "open"
      BY <2>2 DEF Publish, PublishEnds, Phase, OutcomeAtSelect
    <3>4. UNCHANGED <<requestId, net, response>>
      BY <2>2 DEF Publish, PublishEnds
    <3>5. \/ outcome' = outcome /\ asked' \in {asked, asked \union {r}}
          \/ /\ outcome' = [outcome EXCEPT ![r] = "publish failed"]
             /\ asked' = asked
      BY <2>2 DEF Publish, PublishEnds
    <3>6. CASE outcome' = outcome /\ asked' \in {asked, asked \union {r}}
      <4>1. Phase(r)' = phase[r] BY <3>1, <3>3, <3>6 DEF Phase
      <4>2. phase' = phase BY <3>2, <4>1
      <4> QED BY <3>3, <3>4, <3>6, <4>2 DEF Reply!Ask
    <3>7. CASE /\ outcome' = [outcome EXCEPT ![r] = "publish failed"]
               /\ asked' = asked
      <4>1. Phase(r)' = "done" BY <3>1, <3>7 DEF Phase, TypeOK
      <4> QED BY <3>2, <3>3, <3>4, <3>7, <4>1 DEF Reply!Fail
    <3> QED BY <3>5, <3>6, <3>7
  <2>3. ASSUME NEW r \in Requests, Select(r)
        PROVE  /\ phase[r] = "open"
               /\ phase' = [phase EXCEPT ![r] = "done"]
    <3>1. /\ \A q \in Requests \ {r} :
               pc'[q] = pc[q] /\ outcome'[q] = outcome[q]
          /\ pc'[r] # "idle"
      BY <2>3, MoveStep DEF CallerStep
    <3>2. pc[r] = "awaiting" /\ outcome'[r] # "none"
      BY <2>3 DEF Select, TimeOut, ReceiveError, ReceiveResponse, TypeOK
    <3>3. Phase(r) = "open" BY <3>2 DEF Phase, OutcomeAtSelect
    <3>4. Phase(r)' = "done" BY <3>1, <3>2 DEF Phase
    <3> QED BY <3>1, <3>3, <3>4, PhaseStep
  <2>4. ASSUME NEW r \in Requests, TimeOut(r) \/ ReceiveError(r)
        PROVE  Reply!Fail(r)
    <3>1. UNCHANGED <<requestId, asked, net, response>>
      BY <2>4 DEF TimeOut, ReceiveError
    <3> QED BY <2>3, <2>4, <3>1 DEF Select, Reply!Fail
  <2>5. ASSUME NEW r \in Requests, ReceiveResponse(r)
        PROVE  Reply!Answer(r)
    <3>1. /\ pc[r] = "awaiting"
          /\ response' = [response EXCEPT ![r] = messages[r]]
          /\ UNCHANGED <<requestId, asked, net>>
      BY <2>5 DEF ReceiveResponse
    <3>2. PICK m : m \in messages[r] BY <2>5 DEF ReceiveResponse
    <3>3. messages[r] = {m} /\ Fits(m, r) BY <3>2 DEF HeldFits
    <3>4. r \in asked BY <3>1 DEF AskedThenAnswered
    <3> QED BY <2>3, <2>5, <3>1, <3>3, <3>4
            DEF Select, Reply!Answer, Fits
  <2>6. ASSUME NEW r \in Requests, Unsubscribe(r) \/ Close(r)
        PROVE  UNCHANGED Reply!vars
    <3>1. /\ UNCHANGED <<outcome, requestId, asked, net, response>>
          /\ pc[r] \in {"unsubscribing", "closing"}
      BY <2>6 DEF Unsubscribe, Close
    <3>2. /\ \A q \in Requests \ {r} : pc'[q] = pc[q]
          /\ pc'[r] # "idle"
      BY <2>6, MoveStep DEF CallerStep
    <3>3. \A q \in Requests : Phase(q)' = Phase(q)
      BY <3>1, <3>2 DEF Phase
    <3>4. phase' = phase BY <3>3
    <3> QED BY <3>1, <3>4
  <2>7. ASSUME NEW m \in Messages, Respond(m) PROVE Reply!Produce(m)
    <3>1. /\ m.for \in asked /\ net' = net \union {m}
          /\ UNCHANGED <<pc, outcome, requestId, asked, response>>
      BY <2>7 DEF Respond
    <3>2. \A q \in Requests : Phase(q)' = Phase(q) BY <3>1 DEF Phase
    <3> QED BY <3>1, <3>2 DEF Reply!Produce
  <2>8. ASSUME ~ \E r \in Requests : Subscribe(r) \/ CallerStep(r),
               ~ \E m \in Messages : Respond(m)
        PROVE  UNCHANGED Reply!vars
    <3>1. UNCHANGED <<pc, outcome, requestId, asked, net, response>>
      BY <2>8 DEF Next, HandlerStep, HandlerSend, HandlerPanic, Dispatch,
                  HookStep, Reconnect, OnConnect, Resubscribe, ReportError, vars
    <3>2. \A q \in Requests : Phase(q)' = Phase(q) BY <3>1 DEF Phase
    <3> QED BY <3>1, <3>2
  <2> QED
    BY <2>1, <2>2, <2>4, <2>5, <2>6, <2>7, <2>8 DEF CallerStep, Select
<1> QED BY <1>1, <1>2, Invariance, PTL DEF ImplementsReply, Reply!Spec, Spec
----------------------------------------------------------------------------
(* Why a send finds its channel closed.                                     *)

(* What was delivered answers a request of the same RequestID. *)
AnswersDelivered ==
  \A r \in Requests, m \in Messages :
    <<m, r>> \in delivered
      => m \in net /\ r \in Started /\ requestId[m.for] = requestId[r]

(* What a handler is about to send is a response that was delivered to it,  *)
(* other than those already sent to its request unless it was delivered     *)
(* again, or the error of a JetStream acknowledgement.                      *)
DeliveredOnce ==
  \A r \in Requests :
    /\ \A m \in handling[r] :
         IF m.kind = "ack" THEN transport = "jetstream"
         ELSE /\ <<m, r>> \in delivered
              /\ m \in messages[r] \union response[r] => m \in again
    /\ \A m \in messages[r] \union response[r] : <<m, r>> \in delivered
    /\ outcome[r] = "response" => response[r] # {}

ClosedAtReturn == \A r \in Requests : chans[r] = "closed" => pc[r] = "returned"

PInv == /\ AnswersDelivered /\ DeliveredOnce /\ ClosedAtReturn
        /\ IsFiniteSet(net) /\ PanicExplained

(* What the steps do to the wire. *)
LEMMA WireStep ==
  ASSUME [Next]_vars
  PROVE  /\ UNCHANGED transport
         /\ net \subseteq net'
         /\ net' = net \/ \E m \in Messages : net' = net \union {m}
         /\ delivered \subseteq delivered' /\ again \subseteq again'
         /\ \A d \in delivered' \ delivered :
              \E r \in Requests, m \in Messages : d = <<m, r>> /\ Dispatch(r, m)
<1>1. CASE \E r \in Requests : Subscribe(r) \/ CallerStep(r) \/ HandlerStep(r)
  BY <1>1 DEF CallerStep, Select, HandlerStep, Subscribe, Publish, PublishEnds,
              TimeOut, ReceiveError, ReceiveResponse, Unsubscribe, Close,
              HandlerSend, HandlerPanic
<1>2. CASE \E m \in Messages : Respond(m) BY <1>2 DEF Respond
<1>3. ASSUME NEW r \in Requests, NEW m \in Messages, Dispatch(r, m)
      PROVE  /\ UNCHANGED <<transport, net>>
             /\ delivered' = delivered \union {<<m, r>>}
             /\ again \subseteq again'
  BY <1>3 DEF Dispatch
<1>4. CASE Reconnect \/ HookStep
  BY <1>4 DEF HookStep, Reconnect, OnConnect, Resubscribe, ReportError
<1>5. CASE UNCHANGED vars BY <1>5 DEF vars
<1> QED BY <1>1, <1>2, <1>3, <1>4, <1>5 DEF Next

LEMMA DeliveredStep ==
  ASSUME TypeOK, AskedThenAnswered, RoutedToOwnTopic, AnswersDelivered,
         [Next]_vars
  PROVE  AnswersDelivered'
<1> SUFFICES ASSUME NEW r \in Requests, NEW m \in Messages,
                    <<m, r>> \in delivered'
             PROVE  /\ m \in net' /\ r \in Started'
                    /\ requestId'[m.for] = requestId'[r]
  BY DEF AnswersDelivered
<1>1. m \in net /\ r \in Started /\ requestId[m.for] = requestId[r]
  <2>1. CASE <<m, r>> \in delivered BY <2>1 DEF AnswersDelivered
  <2>2. CASE Dispatch(r, m)
    <3>1. m \in net /\ r \in route[requestId[m.for]] BY <2>2 DEF Dispatch
    <3>2. requestId[m.for] \in Ids BY DEF TypeOK, Messages
    <3> QED BY <3>1, <3>2 DEF RoutedToOwnTopic
  <2> QED BY <2>1, <2>2, WireStep
<1>2. m.for \in Started BY <1>1 DEF AskedThenAnswered
<1> QED BY <1>1, <1>2, WireStep, IdsStay

(* A step that leaves a request's handler and responses alone. *)
LEMMA OnceKept ==
  ASSUME DeliveredOnce, UNCHANGED <<transport, handling, messages, response>>,
         delivered \subseteq delivered', again \subseteq again',
         \A r \in Requests : outcome'[r] = "response" => outcome[r] = "response"
  PROVE  DeliveredOnce'
BY DEF DeliveredOnce

LEMMA OnceStep ==
  ASSUME TypeOK, DeliveredOnce, [Next]_vars
  PROVE  DeliveredOnce'
<1>0. /\ handling \in [Requests -> SUBSET Items]
      /\ messages \in [Requests -> SUBSET Messages]
      /\ response \in [Requests -> SUBSET Messages]
      /\ outcome \in [Requests -> {"none", "subscribe failed",
                         "publish failed", "timeout", "error", "response"}]
  BY DEF TypeOK
<1>1. /\ UNCHANGED transport /\ delivered \subseteq delivered'
      /\ again \subseteq again'
  BY WireStep
<1>2. ASSUME NEW r \in Requests, Subscribe(r) PROVE DeliveredOnce'
  <2>1. /\ UNCHANGED <<handling, messages, response>>
        /\ \/ outcome' = outcome
           \/ outcome' = [outcome EXCEPT ![r] = "subscribe failed"]
    BY <1>2 DEF Subscribe
  <2> QED BY <1>0, <1>1, <2>1, OnceKept
<1>3. ASSUME NEW r \in Requests,
             \/ Publish(r) \/ PublishEnds(r) \/ TimeOut(r) \/ ReceiveError(r)
             \/ Unsubscribe(r) \/ Close(r)
      PROVE  DeliveredOnce'
  <2>1. /\ UNCHANGED <<handling, messages, response>>
        /\ \/ outcome' = outcome
           \/ outcome' = [outcome EXCEPT ![r] = "publish failed"]
           \/ outcome' = [outcome EXCEPT ![r] = "timeout"]
           \/ outcome' = [outcome EXCEPT ![r] = "error"]
    BY <1>3
    DEF Publish, PublishEnds, TimeOut, ReceiveError, Unsubscribe, Close
  <2> QED BY <1>0, <1>1, <2>1, OnceKept
<1>4. ASSUME NEW r \in Requests, ReceiveResponse(r) PROVE DeliveredOnce'
  <2>1. /\ messages[r] # {} /\ UNCHANGED handling
        /\ response' = [response EXCEPT ![r] = messages[r]]
        /\ messages' = [messages EXCEPT ![r] = {}]
        /\ outcome' = [outcome EXCEPT ![r] = "response"]
    BY <1>4 DEF ReceiveResponse
  <2>2. /\ response'[r] = messages[r] /\ messages'[r] = {}
        /\ \A q \in Requests \ {r} : /\ response'[q] = response[q]
                                     /\ messages'[q] = messages[q]
                                     /\ outcome'[q] = outcome[q]
    BY <1>0, <2>1
  <2> QED BY <1>1, <2>1, <2>2 DEF DeliveredOnce
<1>5. ASSUME NEW r \in Requests, HandlerSend(r) PROVE DeliveredOnce'
  <2>1. PICK m \in handling[r] :
          /\ \/ m.kind = "good" /\ messages' = [messages EXCEPT ![r] = {m}]
             \/ messages' = messages
          /\ \E rest \in AfterSend(m) :
               handling' = [handling EXCEPT ![r] = rest]
          /\ UNCHANGED <<response, outcome>>
    BY <1>5 DEF HandlerSend
  <2>2. /\ \A n \in handling'[r] : n.kind = "ack" /\ transport = "jetstream"
        /\ \A q \in Requests \ {r} : /\ handling'[q] = handling[q]
                                     /\ messages'[q] = messages[q]
    <3>1. m \in Items BY <1>0
    <3>2. [m EXCEPT !.kind = "ack"].kind = "ack" BY <3>1 DEF Items
    <3>3. \A rest \in AfterSend(m) : \A n \in rest :
             n.kind = "ack" /\ transport = "jetstream"
      BY <3>2 DEF AfterSend
    <3> QED BY <1>0, <2>1, <3>3
  <2>3. \A n \in messages'[r] :
          n \in messages[r] \/ (n = m /\ m.kind = "good")
    <3>1. CASE messages' = messages BY <3>1
    <3>2. CASE m.kind = "good" /\ messages' = [messages EXCEPT ![r] = {m}]
      <4>1. messages'[r] = {m} BY <1>0, <3>2
      <4> QED BY <3>2, <4>1
    <3> QED BY <2>1, <3>1, <3>2
  <2> QED BY <1>1, <2>1, <2>2, <2>3 DEF DeliveredOnce
<1>6. ASSUME NEW r \in Requests, NEW m \in Messages, Dispatch(r, m)
      PROVE  DeliveredOnce'
  <2>1. /\ <<m, r>> \in delivered => m \in again'
        /\ <<m, r>> \in delivered'
        /\ handling' = [handling EXCEPT ![r] = {m}]
        /\ UNCHANGED <<messages, response, outcome>>
    BY <1>6 DEF Dispatch
  <2>2. m.kind # "ack" BY DEF Messages, Kinds
  <2>3. /\ handling'[r] = {m}
        /\ \A q \in Requests \ {r} : handling'[q] = handling[q]
    BY <1>0, <2>1
  <2>4. m \in messages[r] \union response[r] => m \in again'
    BY <2>1 DEF DeliveredOnce
  <2> QED BY <1>1, <2>1, <2>2, <2>3, <2>4 DEF DeliveredOnce
<1>7. CASE \/ \E r \in Requests : HandlerPanic(r)
           \/ \E m \in Messages : Respond(m)
           \/ Reconnect \/ HookStep \/ UNCHANGED vars
  BY <1>1, <1>7, OnceKept DEF HandlerPanic, Respond, HookStep, Reconnect,
                              OnConnect, Resubscribe, ReportError, vars
<1> QED
  BY <1>2, <1>3, <1>4, <1>5, <1>6, <1>7
  DEF Next, CallerStep, Select, HandlerStep

LEMMA ClosedStep ==
  ASSUME TypeOK, ClosedAtReturn, [Next]_vars
  PROVE  ClosedAtReturn'
<1>0. chans \in [Requests -> {"none", "open", "closed"}] BY DEF TypeOK
<1>1. ASSUME NEW r \in Requests, Subscribe(r) PROVE ClosedAtReturn'
  <2>1. chans' = [chans EXCEPT ![r] = "open"] BY <1>1 DEF Subscribe
  <2>2. \A q \in Requests \ {r} : pc'[q] = pc[q] BY <1>1, SubscribeStep
  <2> QED BY <1>0, <2>1, <2>2 DEF ClosedAtReturn
<1>2. ASSUME NEW r \in Requests, CallerStep(r) PROVE ClosedAtReturn'
  <2>1. \A q \in Requests \ {r} : pc'[q] = pc[q] BY <1>2, MoveStep
  <2>2. CASE Close(r)
    <3>1. /\ chans' = [chans EXCEPT ![r] = "closed"] /\ pc'[r] = "returned"
      BY <2>2 DEF Close, TypeOK
    <3> QED BY <1>0, <2>1, <3>1 DEF ClosedAtReturn
  <2>3. CASE Publish(r) \/ PublishEnds(r) \/ Select(r) \/ Unsubscribe(r)
    <3>1. chans' = chans /\ pc[r] \in Working
      BY <2>3 DEF Publish, PublishEnds, Select, TimeOut, ReceiveError,
                  ReceiveResponse, Unsubscribe, Working, Sending
    <3> QED BY <2>1, <3>1 DEF ClosedAtReturn, Working, Sending
  <2> QED BY <1>2, <2>2, <2>3 DEF CallerStep
<1>3. CASE ~ \E r \in Requests : Subscribe(r) \/ CallerStep(r)
  <2>1. UNCHANGED <<caller, chans>> BY <1>3, EnvironmentStep
  <2> QED BY <2>1 DEF ClosedAtReturn
<1> QED BY <1>1, <1>2, <1>3

(* Two members make a set of more than one. *)
LEMMA TwoMembers ==
  ASSUME NEW S, IsFiniteSet(S), NEW x \in S, NEW y \in S, x # y
  PROVE  Cardinality(S) > 1
<1>1. IsFiniteSet({y}) /\ Cardinality({y}) = 1 BY FS_Singleton
<1>2. Cardinality({y} \union {x}) = 2 BY <1>1, FS_AddElement
<1>3. {y} \union {x} \subseteq S OBVIOUS
<1>4. Cardinality({y} \union {x}) <= Cardinality(S) BY <1>3, FS_Subset
<1>5. Cardinality(S) \in Nat BY FS_CardinalityType
<1> QED BY <1>2, <1>4, <1>5

(* A handler that still has a response to send to a request which is alone  *)
(* with its RequestID and has its response: there were two of them, or one  *)
(* came twice.                                                              *)
LEMMA SecondAnswer ==
  ASSUME TypeOK, AskedThenAnswered, AnswersDelivered, DeliveredOnce,
         IsFiniteSet(net),
         NEW r \in Requests, NEW m \in handling[r], m.kind \in Kinds,
         outcome[r] = "response", Unshared(r),
         \A a \in again : a.for # r
  PROVE  Cardinality({a \in net : a.for = r}) > 1
<1>0. /\ handling[r] \subseteq Items /\ response[r] \subseteq Messages
      /\ messages[r] \subseteq Messages
  BY DEF TypeOK
<1>1. m \in Messages /\ m.kind # "ack"
  BY <1>0 DEF Items, Messages, Kinds
<1>2. ASSUME NEW a \in Messages, <<a, r>> \in delivered
      PROVE  a \in net /\ a.for = r
  <2>1. a \in net /\ requestId[a.for] = requestId[r]
    BY <1>2 DEF AnswersDelivered
  <2>2. a.for \in Started BY <2>1 DEF AskedThenAnswered
  <2> QED BY <2>1, <2>2 DEF Unshared
<1>3. <<m, r>> \in delivered /\ (m \in response[r] => m \in again)
  BY <1>1 DEF DeliveredOnce
<1>4. m \notin response[r] BY <1>1, <1>2, <1>3
<1>5. PICK n \in response[r] : <<n, r>> \in delivered
  BY DEF DeliveredOnce
<1>6. m \in {a \in net : a.for = r} /\ n \in {a \in net : a.for = r}
  BY <1>0, <1>1, <1>2, <1>3, <1>5
<1>7. IsFiniteSet({a \in net : a.for = r}) BY FS_Subset
<1> QED BY <1>4, <1>5, <1>6, <1>7, TwoMembers

LEMMA PanicStep ==
  ASSUME TypeOK, AskedThenAnswered, RecordExplained, PInv, [Next]_vars
  PROVE  PanicExplained'
<1> USE DEF PInv
<1>1. ASSUME NEW r \in Requests, HandlerPanic(r) PROVE PanicExplained'
  <2>1. PICK m \in handling[r] :
          /\ panic' = {[request |-> r, cause |-> m.kind]}
          /\ UNCHANGED <<transport, caller, wire>>
    BY <1>1 DEF HandlerPanic
  <2>2. m.kind \in Kinds \union {"ack"}
    <3>1. m \in Items BY DEF TypeOK
    <3> QED BY <3>1 DEF Items
  <2>3. m.kind = "ack" => transport = "jetstream" BY DEF DeliveredOnce
  <2>4. Unshared(r)' = Unshared(r) BY <2>1 DEF Unshared, Started
  <2>5. m.kind \in Kinds => \/ outcome[r] # "response" \/ ~Unshared(r)
                            \/ Cardinality({a \in net : a.for = r}) > 1
                            \/ \E a \in again : a.for = r
    BY SecondAnswer
  <2>6. ASSUME NEW p \in panic' PROVE p.request = r /\ p.cause = m.kind
    BY <2>1
  <2>7. UNCHANGED <<transport, outcome, net, again>> BY <2>1
  <2> QED BY <2>2, <2>3, <2>4, <2>5, <2>6, <2>7 DEF PanicExplained
<1>2. ASSUME NEW i \in Ids, NEW r \in Requests, ReportError(i, r), panic = {}
      PROVE  PanicExplained'
  <2>1. /\ r \in record[i]
        /\ \/ panic' = panic
           \/ /\ chans[r] = "closed"
              /\ panic' = {[request |-> r, cause |-> "reconnect"]}
        /\ UNCHANGED caller
    BY <1>2 DEF ReportError
  <2>2. chans[r] = "closed" => unsubscribed[r] = "failed"
    BY <2>1 DEF RecordExplained, ClosedAtReturn, Working, Sending
  <2> QED BY <1>2, <2>1, <2>2 DEF PanicExplained
<1>3. ASSUME panic = {}, panic' = panic PROVE PanicExplained'
  BY <1>3 DEF PanicExplained
<1>4. ASSUME NEW r \in Requests, Subscribe(r) \/ CallerStep(r) \/ HandlerSend(r)
      PROVE  panic' = panic
  BY <1>4 DEF CallerStep, Select, Subscribe, Publish, PublishEnds, TimeOut,
              ReceiveError, ReceiveResponse, Unsubscribe, Close, HandlerSend
<1>5. ASSUME NEW r \in Requests, NEW m \in Messages, Dispatch(r, m)
      PROVE  panic' = panic
  BY <1>5 DEF Dispatch
<1>6. ASSUME \/ \E m \in Messages : Respond(m)
             \/ Reconnect \/ OnConnect \/ \E i \in Ids : Resubscribe(i)
      PROVE  panic' = panic
  BY <1>6 DEF Respond, Reconnect, OnConnect, Resubscribe
<1>7. CASE UNCHANGED vars
  <2>1. UNCHANGED <<transport, caller, wire, panic>> BY <1>7 DEF vars
  <2>2. \A r : Unshared(r)' = Unshared(r) BY <2>1 DEF Unshared, Started
  <2> QED BY <2>1, <2>2 DEF PanicExplained
<1> QED BY <1>1, <1>2, <1>3, <1>4, <1>5, <1>6, <1>7
       DEF Next, HandlerStep, HookStep

LEMMA PanicInvariance == Spec => []PInv
<1>1. Init => PInv
  <2> SUFFICES ASSUME Init PROVE PInv OBVIOUS
  <2>1. IsFiniteSet(net) BY FS_EmptySet DEF Init
  <2> QED BY <2>1 DEF Init, PInv, AnswersDelivered, DeliveredOnce,
                      ClosedAtReturn, PanicExplained
<1>2. IInv /\ PInv /\ [Next]_vars => PInv'
  <2> SUFFICES ASSUME IInv, PInv, [Next]_vars PROVE PInv' OBVIOUS
  <2>1. IsFiniteSet(net') BY WireStep, FS_AddElement DEF PInv
  <2> QED BY <2>1, DeliveredStep, OnceStep, ClosedStep, PanicStep
         DEF PInv, IInv
<1> QED BY <1>1, <1>2, Invariance, PTL DEF Spec

(* The process ends by a send on a closed channel only after a request that *)
(* returned without its response, a second response or a shared RequestID,  *)
(* a response that the broker delivered again, a failed acknowledgement, or *)
(* a reconnect after a failed unsubscribe.                                  *)
THEOREM PanicsAreExplained == Spec => []PanicExplained
<1>1. PInv => PanicExplained BY DEF PInv
<1> QED BY <1>1, PanicInvariance, PTL
=============================================================================
