---------------------------- MODULE EnvelopePath ----------------------------
(* A message on its way through the conversions: the constructors and       *)
(* GetMsgPayload of pkg/types/message_envelope.go, Marshal and Unmarshal of *)
(* messaging/envelope, the two marshallers of nats/marshaller.go with the   *)
(* topics of nats/topics.go, the binary path of mqtt/client.go, and what    *)
(* clients/command.go makes of a response.                                  *)
(*                                                                          *)
(* Data is its Go form and the encodings over its content, innermost first: *)
(* a string of layers <<"json", "base64">> is base64 of the JSON of an      *)
(* object.  Content itself is taken to be neither JSON nor CBOR, and a text *)
(* to be valid UTF-8.  A failing conversion has the value {}, another one   *)
(* is the set of its result.                                                *)
EXTENDS SequencesExt

CONSTANTS
  Topics,    \* published topics: sequences of characters
  Queries    \* query parameters: pairs of a key and a value, both such

ASSUME Headers == /\ Topics \subseteq Seq(STRING)
                  /\ Queries \subseteq Seq(STRING) \X Seq(STRING)

(* A map is what a decoder makes of an object for a variable of type any.   *)
Forms == {"object", "map", "bytes", "string"}
Data(form, layers) == [form |-> form, layers |-> layers]
Codecs == {"json", "cbor"}
ContentTypes == Codecs \union {"text", ""}

(* "external" is an MQTT bus outside EdgeX, which carries JSON. *)
Wires   == {"mqtt", "mqtt binary", "external", "nats", "nats json"}
(* GetMsgPayload of a struct, of []byte or of string, or a CommandClient.   *)
Readers == {"object", "bytes", "string", "command"}

(* What a caller may give: an object, the bytes of one, or bytes or a text  *)
(* of its own.                                                              *)
Payloads == {Data("object", <<>>), Data("bytes", <<"json">>),
             Data("bytes", <<"cbor">>), Data("bytes", <<>>),
             Data("string", <<>>)}

(* The largest integer in an object: small enough for a float64, beyond its *)
(* 2^53, or so near the end of its type that rounding takes it over; "none" *)
(* has no integer and no []byte.                                            *)
Numbers == {"none", "small", "wide", "extreme"}

VARIABLES
  via,        \* the constructor: "", "request", "response" or "error"
  given,      \* the payload it is given
  givenType,  \* the content type it is given
  cbor,       \* the sender's EnvMessageCborEncode
  base64,     \* the sender's EDGEX_MSG_BASE64_PAYLOAD
  peerCbor,   \* the receiver's EnvMessageCborEncode
  numbers,    \* of a given object
  uuids,      \* the ids given to the constructor of a response are UUIDs
  word,       \* a text happens to be valid base64
  wire, topic, query, reader,
  stage,      \* "new", "made", "sent", "received", "read" or "failed"
  envelope,   \* Payload, ContentType, ErrorCode, topic and query
  result      \* {} or {what the reader got}

input == <<via, given, givenType, cbor, base64, peerCbor, numbers, uuids, word,
           wire, topic, query, reader>>
vars == <<input, stage, envelope, result>>

Envelope(payload, contentType) ==
  [Payload |-> payload, ContentType |-> contentType,
   ErrorCode |-> IF via = "error" THEN 1 ELSE 0,
   ReceivedTopic |-> topic, QueryParams |-> query]

Init ==
  /\ via \in {"", "request", "response", "error"}
  /\ given \in Payloads /\ givenType \in ContentTypes
  /\ via = "error" => given.form = "string" /\ givenType = "text"
  /\ via = "request" => givenType = "json"
  /\ cbor \in BOOLEAN /\ base64 \in BOOLEAN /\ peerCbor \in BOOLEAN
  /\ numbers \in Numbers /\ (numbers # "none" => given.form = "object")
  /\ uuids \in BOOLEAN /\ (~uuids => via = "response")
  /\ word \in BOOLEAN /\ (word => given.form = "string")
  /\ wire \in Wires /\ topic \in Topics /\ query \in Queries
  /\ wire = "mqtt binary" => via = "" /\ given.form = "bytes"
  /\ reader \in Readers
  /\ stage = "new" /\ result = {}
  /\ envelope = Envelope(given, givenType)
----------------------------------------------------------------------------
ToBytesOfAnyType(contentType, p) ==    \* seeded fault: no default in the switch
  {Data("bytes", IF p.form = "object" THEN <<contentType>> ELSE p.layers)}

(* ConvertMsgPayloadToByteArray *)
ToBytes(contentType, p) ==
  IF p.form # "object" THEN {Data("bytes", p.layers)}
  ELSE IF contentType \in Codecs THEN {Data("bytes", <<contentType>>)} ELSE {}

(* base64.StdEncoding.DecodeString *)
Base64Decode(p) ==
  IF p.layers # <<>> /\ Last(p.layers) = "base64"
  THEN {Data("bytes", Front(p.layers))}
  ELSE IF word THEN {Data("bytes", <<"noise">>)} ELSE {}

(* unmarshalMsgPayload of bytes into a variable of the form wanted.         *)
FromBytes(contentType, p, form) ==
  IF contentType \in Codecs /\ form = "object" /\ p.layers = <<contentType>>
  THEN {Data("object", <<>>)} ELSE {}

(* A payload that was in a JSON envelope: a []byte is base64 in a string.   *)
InJson(p) == CASE p.form = "bytes"  -> Data("string", Append(p.layers, "base64"))
               [] p.form = "object" -> Data("map", <<"json">>)
               [] OTHER             -> p

(* In a CBOR envelope: bytes, integers and floats keep their kind. *)
InCbor(p) == IF p.form = "object" THEN Data("map", <<"cbor">>) ELSE p

(* What %v makes of bytes. *)
Printed(p) == IF p.form = "bytes" THEN Data("string", Append(p.layers, "digits"))
                                  ELSE p

(* strings.Replacer of one character for another, and back. *)
TopicToSubject(t) ==
  LET to == [c \in {"/", "+", "#"} |-> CASE c = "/" -> "." [] c = "+" -> "*"
                                         [] c = "#" -> ">"]
  IN [i \in DOMAIN t |-> IF t[i] \in DOMAIN to THEN to[t[i]] ELSE t[i]]
----------------------------------------------------------------------------
(* The string and the default case of GetMsgPayload. *)
FromString(contentType, p, form) ==
  IF form = "bytes" THEN Base64Decode(p)
  ELSE UNION {FromBytes(contentType, b, form) : b \in Base64Decode(p)}

(* A map is encoded again and decoded into an object.  That of JSON has a   *)
(* float64 for every number and a string for []byte: CBOR takes neither for *)
(* the field they came from, and JSON takes the float when it is in range.  *)
(* json.Marshal takes no map of CBOR.                                       *)
Restorable(contentType, codec) ==
  CASE contentType = "json" -> codec = "json" /\ numbers # "extreme"
    [] contentType = "cbor" -> codec = "cbor" \/ numbers = "none"
    [] OTHER                -> FALSE

Restored(codec) ==
  Data("object", IF codec = "json" /\ numbers = "wide" THEN <<"rounded">>
                                                       ELSE <<>>)

FromAny(contentType, p, form) ==
  IF form = "object" /\ Restorable(contentType, Head(p.layers))
  THEN {Restored(Head(p.layers))} ELSE {}
----------------------------------------------------------------------------
(* Seeded faults: definitions with a plausible slip, used only to show that *)
(* the properties can fail.                                                 *)
PayloadUndecoded(contentType, p, form) == \* a string is taken for its bytes
  IF p.form = form /\ form # "object" THEN {p}
  ELSE CASE p.form = "bytes"  -> FromBytes(contentType, p, form)
         [] p.form = "string" -> IF form = "bytes"
                                 THEN {Data("bytes", p.layers)}
                                 ELSE FromBytes(contentType, p, form)
         [] p.form = "map"    -> FromAny(contentType, p, form)

SubjectKept(s) == s                    \* the subject is not turned back
----------------------------------------------------------------------------
(* GetMsgPayload: a payload of the wanted type as it is; bytes by content   *)
(* type; a string as base64; anything else there and back.                  *)
GetMsgPayload(contentType, p, form) ==
  IF p.form = form /\ form # "object" THEN {p}
  ELSE CASE p.form = "bytes"  -> FromBytes(contentType, p, form)
         [] p.form = "string" -> FromString(contentType, p, form)
         [] p.form = "map"    -> FromAny(contentType, p, form)

SubjectToTopic(s) ==
  LET to == [c \in {".", "*", ">"} |-> CASE c = "." -> "/" [] c = "*" -> "+"
                                         [] c = ">" -> "#"]
  IN [i \in DOMAIN s |-> IF s[i] \in DOMAIN to THEN to[s[i]] ELSE s[i]]

(* A query parameter in a NATS header is key:value, on one line (nats.go    *)
(* makes a line break a blank).  The receiver splits it at colons and trims *)
(* the first two parts.                                                     *)
Breaks == {"\n", "\r"}
Blanks == Breaks \union {" ", "\t"}

Part(s) ==                             \* up to the first colon
  SubSeq(s, 1, Min({i \in DOMAIN s : s[i] = ":"} \union {Len(s) + 1}) - 1)

TrimSpace(s) ==
  LET kept == {i \in DOMAIN s : s[i] \notin Blanks} IN
  IF kept = {} THEN <<>> ELSE SubSeq(s, Min(kept), Max(kept))

OneLine(s) == [i \in DOMAIN s |-> IF s[i] \in Breaks THEN " " ELSE s[i]]

InHeader(q) ==
  LET line  == OneLine(q[1] \o <<":">> \o q[2])
      key   == Part(line)
      value == Part(SubSeq(line, Len(key) + 2, Len(line)))
  IN <<TrimSpace(key), TrimSpace(value)>>

(* The constructors: with the CBOR switch the type is CBOR and the payload  *)
(* is left alone.  The one for errors looks at no switch.                   *)
TypeMade == IF cbor /\ via # "error" THEN "cbor" ELSE givenType

Converted == /\ ~cbor /\ via # "error"
             /\ base64 \/ givenType = "cbor"

Make ==
  LET bytes == ToBytes(TypeMade, given) IN
  /\ stage = "new" /\ wire # "mqtt binary"
  /\ via = "response" => uuids /\ givenType # "" /\ (Converted => bytes # {})
  /\ \E p \in IF Converted /\ bytes # {} THEN bytes ELSE {given} :
       envelope' = Envelope(p, TypeMade)
  /\ stage' = "made"
  /\ UNCHANGED <<input, result>>

(* Only NewMessageEnvelopeForResponse returns its error. *)
MakeFails ==
  /\ stage = "new" /\ via = "response"
  /\ \/ ~uuids \/ givenType = ""
     \/ Converted /\ ToBytes(TypeMade, given) = {}
  /\ stage' = "failed"
  /\ UNCHANGED <<input, envelope, result>>
----------------------------------------------------------------------------
OverNats == wire \in {"nats", "nats json"}

(* The payload on the wire: in the marshalled envelope, or as NATS data.    *)
OnWire == CASE wire = "nats" -> ToBytes(envelope.ContentType, envelope.Payload)
            [] wire = "mqtt" /\ cbor -> {InCbor(envelope.Payload)}
            [] OTHER -> {InJson(envelope.Payload)}

Send ==
  /\ stage = "made"
  /\ \E p \in OnWire :
       envelope' = [envelope EXCEPT
         !.Payload = p,
         !.ReceivedTopic = IF OverNats THEN TopicToSubject(@) ELSE @]
  /\ stage' = "sent"
  /\ UNCHANGED <<input, result>>

SendFails ==
  /\ stage = "made" /\ OnWire = {}
  /\ stage' = "failed"
  /\ UNCHANGED <<input, envelope, result>>

(* NewMessageEnvelopeFromJSON looks at no switch; it wants a RequestID,     *)
(* which only requests and responses have, and the content type JSON.       *)
Decodable == CASE wire = "mqtt" -> cbor = peerCbor
               [] wire = "external" -> /\ via \in {"request", "response"}
                                       /\ envelope.ContentType = "json"
               [] OTHER -> TRUE

(* Decoded with the receiver's switch.  Nobody sets the topic of a message  *)
(* from outside.                                                            *)
Receive ==
  /\ stage = "sent" /\ Decodable
  /\ envelope' = [envelope EXCEPT
       !.ReceivedTopic = IF OverNats THEN SubjectToTopic(@)
                         ELSE IF wire = "external" THEN <<>> ELSE @,
       !.QueryParams = IF wire = "nats" THEN InHeader(@) ELSE @]
  /\ stage' = "received"
  /\ UNCHANGED <<input, result>>

ReceiveFails ==
  /\ stage = "sent" /\ ~Decodable
  /\ stage' = "failed"
  /\ UNCHANGED <<input, envelope, result>>

(* PublishBinaryData sends the bytes alone; the handler of a binary         *)
(* subscription makes a request envelope of them, with its own switches.    *)
SendBinary ==
  /\ stage = "new" /\ wire = "mqtt binary"
  /\ envelope' = [Envelope(given, IF peerCbor THEN "cbor" ELSE "json") EXCEPT
                    !.QueryParams = <<>>]
  /\ stage' = "received"
  /\ UNCHANGED <<input, result>>

(* GetMsgPayload by the receiver.  The CommandClient asks for an object,    *)
(* and prints the payload of an envelope with an error code.                *)
Read ==
  LET p == envelope.Payload  ct == envelope.ContentType IN
  /\ stage = "received"
  /\ result' = IF reader # "command" THEN GetMsgPayload(ct, p, reader)
               ELSE IF envelope.ErrorCode = 1 THEN {Printed(p)}
               ELSE GetMsgPayload(ct, p, "object")
  /\ stage' = "read"
  /\ UNCHANGED <<input, envelope>>
----------------------------------------------------------------------------
Next == \/ Make \/ MakeFails \/ Send \/ SendFails \/ SendBinary
        \/ Receive \/ ReceiveFails \/ Read

Spec == Init /\ [][Next]_vars
----------------------------------------------------------------------------
Layers == {"json", "cbor", "base64", "noise", "digits", "rounded"}

TypeOK ==
  /\ stage \in {"new", "made", "sent", "received", "read", "failed"}
  /\ envelope.ContentType \in ContentTypes /\ envelope.ErrorCode \in {0, 1}
  /\ \A p \in {envelope.Payload} \union result :
       p.form \in Forms /\ p.layers \in Seq(Layers)

Ended == stage \in {"read", "failed"}

(* Both ends of MQTT have the same CBOR switch, what comes from outside is  *)
(* a request or a response in JSON, and a response has its ids and type.    *)
Agreed == /\ wire = "mqtt" => cbor = peerCbor
          /\ wire = "external" => via \in {"request", "response"} /\ TypeMade = "json"
          /\ via = "response" => uuids /\ givenType # ""

(* The content type that the receiver goes by. *)
LastType == IF wire # "mqtt binary" THEN TypeMade
            ELSE IF peerCbor THEN "cbor" ELSE "json"

(* The object itself, not its bytes, is in a JSON envelope. *)
ObjectInJson == /\ given.form = "object" /\ ~Converted
                /\ \/ wire \in {"external", "nats json"}
                   \/ wire = "mqtt" /\ ~cbor

(* An object comes out as it went in, over every wire, constructor and      *)
(* combination of the switches, whether the caller or the library encoded   *)
(* it: the switches of the sender are not known to the receiver.  Only from *)
(* inside a JSON envelope does it not: with an integer beyond 2^53, or with *)
(* the CBOR type and any integer or []byte.                                 *)
ObjectArrives ==
  Ended /\ Agreed /\ reader \in {"object", "command"} /\ LastType \in Codecs
    /\ given \in {Data("object", <<>>), Data("bytes", <<LastType>>)}
  => \/ result = {Data("object", <<>>)}
     \/ ObjectInJson /\ IF LastType = "json" THEN numbers \in {"wide", "extreme"}
                                            ELSE numbers # "none"

(* A caller's own bytes come out as they went in. *)
BytesArrive ==
  Ended /\ Agreed /\ reader = "bytes" /\ given.form = "bytes"
    => result = {given}

(* Nothing is mistaken for the content without an error, but in four cases: *)
(* a string asked of what JSON carried as base64; bytes asked of a text     *)
(* that happens to be base64; an error text over the native NATS format, of *)
(* which the CommandClient prints the bytes as numbers; an integer that a   *)
(* JSON envelope has rounded.                                               *)
MistakesExplained ==
  \A r \in result :
    \/ ToSet(r.layers) \subseteq Codecs
    \/ reader = "string" /\ (given.form # "string" \/ Converted)
    \/ reader = "bytes" /\ word
    \/ reader = "command" /\ via = "error" /\ wire = "nats"
    \/ ObjectInJson /\ LastType = "json" /\ numbers = "wide"

(* What a NATS header carries as it is. *)
Carried(text) ==
  /\ ToSet(text) \cap (Breaks \union {":"}) = {}
  /\ text # <<>> => Head(text) \notin Blanks /\ Last(text) \notin Blanks

(* The receiver sees the published topic, and query parameters, except for  *)
(* the characters that NATS gives a meaning to and, over its native format, *)
(* a key or value with a colon, a line break or white space at an end.      *)
HeadersArrive ==
  stage \in {"received", "read"} /\ wire # "mqtt binary" =>
    /\ \/ wire = "external"
       \/ OverNats /\ ToSet(topic) \cap {".", "*", ">"} # {}
       \/ envelope.ReceivedTopic = topic
    /\ \/ wire = "nats" /\ ~(Carried(query[1]) /\ Carried(query[2]))
       \/ envelope.QueryParams = query
=============================================================================
