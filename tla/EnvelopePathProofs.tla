------------------------- MODULE EnvelopePathProofs -------------------------
(* Proofs about EnvelopePath, for every set of topics and of query          *)
(* parameters: what the receiver sees of topic, query and payload.          *)
EXTENDS EnvelopePath, SequenceTheorems, TLAPS

Fields == {"Payload", "ContentType", "ErrorCode", "ReceivedTopic",
           "QueryParams"}

(* What a message is about when all its encodings are taken off but the one *)
(* of the content type, and whether it can be turned into bytes.            *)
Content   == IF given.form = "object" THEN <<LastType>> ELSE given.layers
Encodable == given.form = "object" => TypeMade \in Codecs
Encoded   == Data("bytes", Content)

(* The payload after the constructor, and on the wire and behind it.        *)
PayloadMade == IF Converted /\ Encodable THEN Encoded ELSE given
PayloadSent == IF wire = "nats" THEN Encoded
               ELSE IF wire = "mqtt binary" THEN given
               ELSE IF wire = "mqtt" /\ cbor THEN InCbor(given)
               ELSE InJson(PayloadMade)

Got == IF reader # "command"
       THEN GetMsgPayload(envelope.ContentType, envelope.Payload, reader)
       ELSE IF envelope.ErrorCode = 1 THEN {Printed(envelope.Payload)}
       ELSE GetMsgPayload(envelope.ContentType, envelope.Payload, "object")

InputsStay ==
  /\ via \in {"", "request", "response", "error"}
  /\ given \in Payloads /\ givenType \in ContentTypes
  /\ via = "error" => given.form = "string" /\ givenType = "text"
  /\ {cbor, base64, peerCbor, uuids, word} \subseteq BOOLEAN
  /\ numbers \in Numbers /\ (word => given.form = "string")
  /\ wire \in Wires /\ topic \in Topics /\ query \in Queries
  /\ wire = "mqtt binary" => via = "" /\ given.form = "bytes"
  /\ reader \in Readers

(* What every stage has of the headers. *)
HeadersByStage ==
  /\ DOMAIN envelope = Fields
  /\ envelope.ErrorCode = IF via = "error" THEN 1 ELSE 0
  /\ stage = "new" => envelope.ContentType = givenType
  /\ stage \in {"made", "sent"} => envelope.ContentType = TypeMade
  /\ stage \in {"received", "read"} => envelope.ContentType = LastType
  /\ stage \in {"new", "made"} => /\ envelope.ReceivedTopic = topic
                                  /\ envelope.QueryParams = query
  /\ stage = "sent" =>
       /\ envelope.ReceivedTopic = IF OverNats THEN TopicToSubject(topic)
                                   ELSE topic
       /\ envelope.QueryParams = query
  /\ stage \in {"received", "read"} =>
       /\ envelope.ReceivedTopic =
            IF OverNats THEN SubjectToTopic(TopicToSubject(topic))
            ELSE IF wire = "external" THEN <<>> ELSE topic
       /\ envelope.QueryParams = IF wire = "nats" THEN InHeader(query)
                                 ELSE IF wire = "mqtt binary" THEN <<>>
                                 ELSE query

(* What every stage has of the payload, and what the reader made of it. *)
PayloadByStage ==
  /\ stage = "new" => envelope.Payload = given
  /\ stage = "made" => envelope.Payload = PayloadMade
  /\ stage \in {"sent", "received", "read"} =>
       envelope.Payload = PayloadSent /\ (wire = "nats" => Encodable)
  /\ stage \in {"made", "sent"} => wire # "mqtt binary"
  /\ result = IF stage = "read" THEN Got ELSE {}

(* A message fails where an object has no encoding, a response no type, or  *)
(* the two ends do not agree.                                               *)
FailedFor ==
  stage = "failed" => wire # "mqtt binary" /\ (~Encodable \/ ~Agreed)

PayloadOK(p) == p.form \in Forms /\ p.layers \in Seq(Layers)

PathInv ==
  /\ InputsStay
  /\ stage \in {"new", "made", "sent", "received", "read", "failed"}
  /\ envelope.ContentType \in ContentTypes /\ PayloadOK(envelope.Payload)
  /\ HeadersByStage /\ PayloadByStage /\ FailedFor
----------------------------------------------------------------------------
(* Of the operators. *)

(* SubjectToTopic takes back what TopicToSubject did, unless the topic has  *)
(* one of the characters that a subject has a use for.                      *)
LEMMA SubjectAndBack ==
  ASSUME NEW t \in Seq(STRING), ToSet(t) \cap {".", "*", ">"} = {}
  PROVE  SubjectToTopic(TopicToSubject(t)) = t
<1> DEFINE to   == [c \in {"/", "+", "#"} |-> CASE c = "/" -> "."
                                               [] c = "+" -> "*"
                                               [] c = "#" -> ">"]
           back == [c \in {".", "*", ">"} |-> CASE c = "." -> "/"
                                               [] c = "*" -> "+"
                                               [] c = ">" -> "#"]
           s    == [i \in DOMAIN t |-> IF t[i] \in DOMAIN to THEN to[t[i]]
                                       ELSE t[i]]
           u    == [i \in DOMAIN s |-> IF s[i] \in DOMAIN back THEN back[s[i]]
                                       ELSE s[i]]
<1>1. s = TopicToSubject(t) /\ u = SubjectToTopic(s)
  BY DEF TopicToSubject, SubjectToTopic
<1>2. /\ to["/"] = "." /\ to["+"] = "*" /\ to["#"] = ">"
      /\ back["."] = "/" /\ back["*"] = "+" /\ back[">"] = "#"
      /\ DOMAIN to = {"/", "+", "#"} /\ DOMAIN back = {".", "*", ">"}
  OBVIOUS
<1>3. DOMAIN s = DOMAIN t /\ DOMAIN u = DOMAIN t
  OBVIOUS
<1>4. ASSUME NEW i \in DOMAIN t PROVE u[i] = t[i]
  <2>1. t[i] \notin {".", "*", ">"} BY DEF ToSet
  <2>2. s[i] = IF t[i] \in DOMAIN to THEN to[t[i]] ELSE t[i] OBVIOUS
  <2>3. u[i] = IF s[i] \in DOMAIN back THEN back[s[i]] ELSE s[i] BY <1>3
  <2> HIDE DEF to, back, s, u
  <2> QED BY <1>2, <2>1, <2>2, <2>3
<1>5. u \in Seq(STRING)
  <2>1. DOMAIN t = 1..Len(t) /\ Len(t) \in Nat
        /\ \A i \in DOMAIN t : t[i] \in STRING
    OBVIOUS
  <2>2. \A i \in 1..Len(t) : u[i] \in STRING BY <1>4, <2>1
  <2>3. u = [i \in 1..Len(t) |-> u[i]] BY <1>3, <2>1
  <2> HIDE DEF u
  <2> QED BY <2>1, <2>2, <2>3
<1>6. Len(u) = Len(t)
  <2> HIDE DEF u
  <2> QED BY <1>3, <1>5
<1>7. u = t
  <2> HIDE DEF u
  <2>1. \A i \in 1..Len(t) : u[i] = t[i] BY <1>4
  <2> QED BY <1>5, <1>6, <2>1, SeqEqual
<1> QED BY <1>1, <1>7

(* What was appended comes off again. *)
LEMMA OffAgain ==
  ASSUME NEW S, NEW s \in Seq(S), NEW e \in S
  PROVE  /\ Append(s, e) \in Seq(S) /\ Append(s, e) # <<>>
         /\ Last(Append(s, e)) = e /\ Front(Append(s, e)) = s
<1>1. /\ Append(s, e) \in Seq(S) /\ Len(Append(s, e)) = Len(s) + 1
      /\ Len(s) \in Nat /\ Append(s, e)[Len(s) + 1] = e
      /\ \A i \in 1..Len(s) : Append(s, e)[i] = s[i]
  OBVIOUS
<1>2. Append(s, e) # <<>> BY <1>1
<1>3. Last(Append(s, e)) = e BY <1>1 DEF Last
<1>4. Front(Append(s, e)) = s
  <2> DEFINE f == SubSeq(Append(s, e), 1, Len(s))
  <2>1. f = Front(Append(s, e)) BY <1>1 DEF Front
  <2>2. /\ f \in Seq(S) /\ Len(f) = Len(s)
        /\ \A i \in 1..Len(s) : f[i] = Append(s, e)[i]
    BY <1>1
  <2> HIDE DEF f
  <2> QED BY <1>1, <2>1, <2>2, SeqEqual
<1> QED BY <1>1, <1>2, <1>3, <1>4

LEMMA LeastAndGreatest ==
  ASSUME NEW S \in SUBSET Int, NEW m \in S
  PROVE  /\ (\A x \in S : m <= x) => Min(S) = m
         /\ (\A x \in S : x <= m) => Max(S) = m
<1>1. ASSUME \A x \in S : m <= x PROVE Min(S) = m
  <2>1. \A x \in S : (\A y \in S : x <= y) => x = m BY <1>1
  <2> QED BY <1>1, <2>1 DEF Min
<1>2. ASSUME \A x \in S : x <= m PROVE Max(S) = m
  <2>1. \A x \in S : (\A y \in S : x >= y) => x = m BY <1>2
  <2>2. \A y \in S : m >= y BY <1>2
  <2> QED BY <2>1, <2>2 DEF Max
<1> QED BY <1>1, <1>2

(* A text that a header carries keeps its ends. *)
LEMMA NothingToTrim ==
  ASSUME NEW S, NEW s \in Seq(S), Carried(s)
  PROVE  TrimSpace(s) = s
<1> DEFINE kept == {i \in DOMAIN s : s[i] \notin Blanks}
<1>1. TrimSpace(s) = IF kept = {} THEN <<>> ELSE SubSeq(s, Min(kept), Max(kept))
  BY DEF TrimSpace
<1>2. CASE s = <<>> BY <1>1, <1>2
<1>3. CASE s # <<>>
  <2>1. Len(s) \in Nat \ {0} /\ DOMAIN s = 1..Len(s) BY <1>3
  <2>2. Head(s) = s[1] /\ Last(s) = s[Len(s)] BY <1>3 DEF Last
  <2>3. /\ kept \in SUBSET Int /\ 1 \in kept /\ Len(s) \in kept
        /\ \A x \in kept : 1 <= x /\ x <= Len(s)
    BY <1>3, <2>1, <2>2 DEF Carried
  <2> HIDE DEF kept
  <2>4. Min(kept) = 1 /\ Max(kept) = Len(s) BY <2>3, LeastAndGreatest
  <2>5. TrimSpace(s) = SubSeq(s, 1, Len(s)) BY <1>1, <2>3, <2>4
  <2> QED BY <2>5
<1> QED BY <1>2, <1>3

(* The part before the first colon, where line is s, or s and then a colon. *)
LEMMA UpToColon ==
  ASSUME NEW S, NEW s \in Seq(S), NEW line \in Seq(S),
         \A i \in 1..Len(s) : s[i] # ":" /\ line[i] = s[i],
         \/ Len(line) = Len(s)
         \/ Len(line) > Len(s) /\ line[Len(s) + 1] = ":"
  PROVE  Part(line) = s
<1> DEFINE ends == {i \in DOMAIN line : line[i] = ":"} \union {Len(line) + 1}
<1>1. Len(s) \in Nat /\ Len(line) \in Nat /\ DOMAIN line = 1..Len(line)
  OBVIOUS
<1>2. ends \in SUBSET Int BY <1>1
<1>3. Len(s) + 1 \in ends BY <1>1
<1>4. ASSUME NEW x \in ends PROVE Len(s) + 1 <= x
  <2>1. (x \in 1..Len(line) /\ line[x] = ":") \/ x = Len(line) + 1 BY <1>1
  <2>2. x \notin 1..Len(s) BY <1>1, <2>1
  <2> QED BY <1>1, <2>1, <2>2
<1>5. Part(line) = SubSeq(line, 1, Min(ends) - 1) BY DEF Part
<1> HIDE DEF ends
<1>6. Min(ends) = Len(s) + 1 BY <1>2, <1>3, <1>4, LeastAndGreatest
<1>7. Part(line) = SubSeq(line, 1, Len(s)) BY <1>1, <1>5, <1>6
<1> DEFINE p == SubSeq(line, 1, Len(s))
<1>8. /\ p \in Seq(S) /\ Len(p) = Len(s)
      /\ \A i \in 1..Len(s) : p[i] = line[i]
  BY <1>1
<1> HIDE DEF p
<1>9. p = s BY <1>8, SeqEqual
<1> QED BY <1>7, <1>9 DEF p

LEMMA Joined ==
  ASSUME NEW S, NEW s \in Seq(S), NEW t \in Seq(S), NEW u, u = s \o t
  PROVE  /\ u \in Seq(S) /\ Len(u) = Len(s) + Len(t)
         /\ Len(s) \in Nat /\ Len(t) \in Nat
         /\ \A i \in 1..Len(s) : u[i] = s[i]
         /\ \A i \in 1..Len(t) : u[Len(s) + i] = t[i]
<1>1. /\ u \in Seq(S) /\ Len(u) = Len(s) + Len(t)
      /\ \A i \in 1..(Len(s) + Len(t)) :
           u[i] = IF i <= Len(s) THEN s[i] ELSE t[i - Len(s)]
  BY ConcatProperties
<1>2. Len(s) \in Nat /\ Len(t) \in Nat OBVIOUS
<1> QED BY <1>1, <1>2

(* A key, a character and a value in one line. *)
LEMMA LineOf ==
  ASSUME NEW S, NEW key \in Seq(S), NEW value \in Seq(S), NEW c \in S,
         NEW colon, colon = <<c>>, NEW first, first = key \o colon,
         NEW line, line = first \o value
  PROVE  /\ line \in Seq(S) /\ Len(key) \in Nat /\ Len(value) \in Nat
         /\ Len(line) = Len(key) + 1 + Len(value)
         /\ \A i \in 1..Len(key) : line[i] = key[i]
         /\ line[Len(key) + 1] = c
         /\ \A i \in 1..Len(value) : line[Len(key) + 1 + i] = value[i]
<1>1. colon \in Seq(S) /\ Len(colon) = 1 /\ colon[1] = c OBVIOUS
<1>2. /\ first \in Seq(S) /\ Len(first) = Len(key) + Len(colon)
      /\ Len(key) \in Nat
      /\ \A i \in 1..Len(key) : first[i] = key[i]
      /\ \A i \in 1..Len(colon) : first[Len(key) + i] = colon[i]
  BY <1>1, Joined
<1>3. /\ line \in Seq(S) /\ Len(line) = Len(first) + Len(value)
      /\ Len(value) \in Nat
      /\ \A i \in 1..Len(first) : line[i] = first[i]
      /\ \A i \in 1..Len(value) : line[Len(first) + i] = value[i]
  BY <1>2, Joined
<1> QED BY <1>1, <1>2, <1>3

LEMMA PairOf ==
  ASSUME NEW S, NEW q \in S \X S
  PROVE  q[1] \in S /\ q[2] \in S /\ q = <<q[1], q[2]>>
OBVIOUS

(* Key and value come out of the header as they went in. *)
LEMMA QueryAndBack ==
  ASSUME NEW S, ":" \in S, NEW key \in Seq(S), NEW value \in Seq(S),
         Carried(key), Carried(value)
  PROVE  InHeader(<<key, value>>) = <<key, value>>
<1> DEFINE line == key \o <<":">> \o value
           rest == SubSeq(line, Len(key) + 2, Len(line))
<1>1. ASSUME NEW s \in Seq(S), Carried(s), NEW i \in 1..Len(s)
      PROVE  s[i] # ":" /\ s[i] \notin Breaks
  <2>1. s[i] \in ToSet(s) BY DEF ToSet
  <2> QED BY <1>1, <2>1 DEF Carried
<1>2. /\ line \in Seq(S) /\ Len(key) \in Nat /\ Len(value) \in Nat
      /\ Len(line) = Len(key) + 1 + Len(value)
      /\ \A i \in 1..Len(key) : line[i] = key[i]
      /\ line[Len(key) + 1] = ":"
      /\ \A i \in 1..Len(value) : line[Len(key) + 1 + i] = value[i]
  <2>1. PICK c : c = ":" OBVIOUS
  <2>2. PICK colon : colon = <<c>> OBVIOUS
  <2>3. PICK first : first = key \o colon OBVIOUS
  <2>4. line = first \o value BY <2>1, <2>2, <2>3
  <2> HIDE DEF line
  <2>5. c \in S BY <2>1
  <2>6. /\ line \in Seq(S) /\ Len(key) \in Nat /\ Len(value) \in Nat
        /\ Len(line) = Len(key) + 1 + Len(value)
        /\ \A i \in 1..Len(key) : line[i] = key[i]
        /\ line[Len(key) + 1] = c
        /\ \A i \in 1..Len(value) : line[Len(key) + 1 + i] = value[i]
    BY <2>2, <2>3, <2>4, <2>5, LineOf
  <2> QED BY <2>1, <2>6
<1> HIDE DEF line
<1>3. OneLine(line) = line
  <2>1. ASSUME NEW i \in 1..Len(line) PROVE line[i] \notin Breaks
    <3>1. \/ i \in 1..Len(key) \/ i = Len(key) + 1
          \/ i - (Len(key) + 1) \in 1..Len(value)
      <4>1. \A k, v \in Nat : \A n \in 1..(k + 1 + v) :
              n \in 1..k \/ n = k + 1 \/ n - (k + 1) \in 1..v
        OBVIOUS
      <4>2. i \in 1..(Len(key) + 1 + Len(value)) BY <1>2
      <4> QED BY <1>2, <4>1, <4>2
    <3>2. CASE i \in 1..Len(key) BY <1>1, <1>2, <3>2
    <3>3. CASE i = Len(key) + 1 BY <1>2, <3>3 DEF Breaks
    <3>4. CASE i - (Len(key) + 1) \in 1..Len(value)
      <4>1. line[Len(key) + 1 + (i - (Len(key) + 1))]
              = value[i - (Len(key) + 1)]
        BY <1>2, <3>4
      <4>2. Len(key) + 1 + (i - (Len(key) + 1)) = i BY <1>2
      <4> QED BY <1>1, <3>4, <4>1, <4>2
    <3> QED BY <3>1, <3>2, <3>3, <3>4
  <2> DEFINE o == OneLine(line)
  <2>2. DOMAIN line = 1..Len(line) /\ Len(line) \in Nat
        /\ \A i \in 1..Len(line) : line[i] \in S
    BY <1>2
  <2>3. o = [i \in 1..Len(line) |-> line[i]] BY <2>1, <2>2 DEF OneLine
  <2> QED BY <1>2, <2>2, <2>3
<1>4. Part(line) = key
  <2>1. \A i \in 1..Len(key) : key[i] # ":" /\ line[i] = key[i] BY <1>1, <1>2
  <2>2. Len(line) = Len(key) \/ (Len(line) > Len(key) /\ line[Len(key) + 1] = ":")
    BY <1>2
  <2> QED BY <1>2, <2>1, <2>2, UpToColon
<1>5. rest = value
  <2>1. /\ rest \in Seq(S) /\ Len(rest) = Len(value)
        /\ \A i \in 1..Len(value) : rest[i] = line[Len(key) + 1 + i]
    BY <1>2
  <2> HIDE DEF rest
  <2> QED BY <1>2, <2>1, SeqEqual
<1>6. Part(value) = value BY <1>1, <1>2, UpToColon
<1>7. TrimSpace(key) = key /\ TrimSpace(value) = value BY NothingToTrim
<1>8. InHeader(<<key, value>>) =
        <<TrimSpace(Part(OneLine(line))),
          TrimSpace(Part(SubSeq(OneLine(line), Len(Part(OneLine(line))) + 2,
                                Len(OneLine(line)))))>>
  BY DEF InHeader, line
<1> HIDE DEF rest
<1>9. InHeader(<<key, value>>) = <<TrimSpace(key), TrimSpace(Part(rest))>>
  BY <1>3, <1>4, <1>8 DEF rest
<1> QED BY <1>5, <1>6, <1>7, <1>9

LEMMA DataFields ==
  ASSUME NEW form, NEW layers
  PROVE  Data(form, layers).form = form /\ Data(form, layers).layers = layers
BY DEF Data

LEMMA GivenForms ==
  ASSUME InputsStay
  PROVE  /\ given = Data(given.form, given.layers)
         /\ \/ given.form = "object" /\ given.layers = <<>>
            \/ /\ given.form = "bytes"
               /\ given.layers \in {<<>>, <<"json">>, <<"cbor">>}
            \/ given.form = "string" /\ given.layers = <<>>
<1>1. PICK form, layers : /\ given = Data(form, layers)
                          /\ \/ form \in {"object", "string"} /\ layers = <<>>
                             \/ /\ form = "bytes"
                                /\ layers \in {<<>>, <<"json">>, <<"cbor">>}
  BY DEF InputsStay, Payloads
<1>2. given.form = form /\ given.layers = layers BY <1>1, DataFields
<1> QED BY <1>1, <1>2

(* A []byte comes out of JSON, and of base64, as it went in. *)
LEMMA JsonAndBack ==
  ASSUME NEW layers \in Seq(Layers)
  PROVE  LET carried == InJson(Data("bytes", layers)) IN
         /\ carried = Data("string", Append(layers, "base64"))
         /\ carried.form = "string" /\ carried.layers \in Seq(Layers)
         /\ Base64Decode(carried) = {Data("bytes", layers)}
<1>1. InJson(Data("bytes", layers)) = Data("string", Append(layers, "base64"))
  BY DataFields DEF InJson
<1> DEFINE carried == Data("string", Append(layers, "base64"))
<1>2. "base64" \in Layers BY DEF Layers
<1>3. /\ Append(layers, "base64") \in Seq(Layers)
      /\ Append(layers, "base64") # <<>>
      /\ Last(Append(layers, "base64")) = "base64"
      /\ Front(Append(layers, "base64")) = layers
  BY <1>2, OffAgain
<1>4. carried.form = "string" /\ carried.layers = Append(layers, "base64")
  BY DataFields
<1>5. Base64Decode(carried) = {Data("bytes", layers)}
  <2> HIDE DEF carried
  <2> QED BY <1>3, <1>4 DEF Base64Decode
<1> HIDE DEF carried
<1>6. carried.form = "string" /\ carried.layers \in Seq(Layers)
  BY <1>3, <1>4
<1> QED BY <1>1, <1>5, <1>6 DEF carried

(* What GetMsgPayload makes of each payload that arrives. *)
LEMMA FromEncoded ==
  ASSUME NEW ct \in ContentTypes, NEW layers \in Seq(Layers)
  PROVE  LET bytes   == Data("bytes", layers)
             carried == InJson(bytes)
             object  == IF ct \in Codecs /\ layers = <<ct>>
                        THEN {Data("object", <<>>)} ELSE {}
         IN /\ GetMsgPayload(ct, bytes, "object") = object
            /\ GetMsgPayload(ct, bytes, "bytes") = {bytes}
            /\ GetMsgPayload(ct, bytes, "string") = {}
            /\ GetMsgPayload(ct, carried, "object") = object
            /\ GetMsgPayload(ct, carried, "bytes") = {bytes}
            /\ GetMsgPayload(ct, carried, "string") = {carried}
<1> DEFINE bytes   == Data("bytes", layers)
           carried == InJson(bytes)
           object  == IF ct \in Codecs /\ layers = <<ct>>
                      THEN {Data("object", <<>>)} ELSE {}
<1>1. bytes.form = "bytes" /\ bytes.layers = layers BY DataFields
<1>2. carried.form = "string" /\ Base64Decode(carried) = {bytes}
  BY JsonAndBack
<1> HIDE DEF bytes, carried
<1>3. /\ FromBytes(ct, bytes, "object") = object
      /\ FromBytes(ct, bytes, "string") = {}
  BY <1>1 DEF FromBytes
<1>4. /\ FromString(ct, carried, "bytes") = {bytes}
      /\ FromString(ct, carried, "object") = object
  <2> HIDE DEF object
  <2> QED BY <1>2, <1>3 DEF FromString
<1> HIDE DEF object
<1>5. /\ GetMsgPayload(ct, bytes, "object") = object
      /\ GetMsgPayload(ct, bytes, "bytes") = {bytes}
      /\ GetMsgPayload(ct, bytes, "string") = {}
  BY <1>1, <1>3 DEF GetMsgPayload
<1>6. /\ GetMsgPayload(ct, carried, "object") = object
      /\ GetMsgPayload(ct, carried, "bytes") = {bytes}
      /\ GetMsgPayload(ct, carried, "string") = {carried}
  BY <1>2, <1>4 DEF GetMsgPayload
<1> QED BY <1>5, <1>6 DEF bytes, carried, object

LEMMA FromText ==
  ASSUME NEW ct \in ContentTypes
  PROVE  LET text == Data("string", <<>>)
         IN /\ GetMsgPayload(ct, text, "object") = {}
            /\ GetMsgPayload(ct, text, "bytes") =
                 IF word THEN {Data("bytes", <<"noise">>)} ELSE {}
            /\ GetMsgPayload(ct, text, "string") = {text}
<1> DEFINE text  == Data("string", <<>>)
           noise == Data("bytes", <<"noise">>)
<1>1. text.form = "string" /\ text.layers = <<>> BY DataFields
<1>2. noise.layers = <<"noise">> BY DataFields
<1> HIDE DEF text
<1>3. Base64Decode(text) = IF word THEN {noise} ELSE {}
  BY <1>1 DEF Base64Decode
<1> HIDE DEF noise
<1>4. FromBytes(ct, noise, "object") = {}
  <2>1. \A c \in Codecs : <<"noise">> # <<c>> BY DEF Codecs
  <2> QED BY <1>2, <2>1 DEF FromBytes
<1>5. FromString(ct, text, "object") = {}
  BY <1>3, <1>4 DEF FromString
<1>6. FromString(ct, text, "bytes") = IF word THEN {noise} ELSE {}
  BY <1>3 DEF FromString
<1>7. /\ GetMsgPayload(ct, text, "object") = {}
      /\ GetMsgPayload(ct, text, "bytes") = IF word THEN {noise} ELSE {}
      /\ GetMsgPayload(ct, text, "string") = {text}
  BY <1>1, <1>5, <1>6 DEF GetMsgPayload
<1> QED BY <1>7 DEF text, noise

LEMMA FromMap ==
  ASSUME NEW ct \in ContentTypes, NEW codec \in Codecs
  PROVE  LET map == Data("map", <<codec>>)
         IN /\ GetMsgPayload(ct, map, "object") =
                 IF Restorable(ct, codec) THEN {Restored(codec)} ELSE {}
            /\ GetMsgPayload(ct, map, "bytes") = {}
            /\ GetMsgPayload(ct, map, "string") = {}
<1> DEFINE map == Data("map", <<codec>>)
<1>1. map.form = "map" /\ Head(map.layers) = codec
  <2>1. Head(<<codec>>) = codec OBVIOUS
  <2> QED BY <2>1, DataFields
<1> HIDE DEF map
<1>2. /\ FromAny(ct, map, "object") =
           IF Restorable(ct, codec) THEN {Restored(codec)} ELSE {}
      /\ FromAny(ct, map, "bytes") = {}
      /\ FromAny(ct, map, "string") = {}
  BY <1>1 DEF FromAny
<1>3. /\ GetMsgPayload(ct, map, "object") =
           IF Restorable(ct, codec) THEN {Restored(codec)} ELSE {}
      /\ GetMsgPayload(ct, map, "bytes") = {}
      /\ GetMsgPayload(ct, map, "string") = {}
  BY <1>1, <1>2 DEF GetMsgPayload
<1> QED BY <1>3 DEF map
----------------------------------------------------------------------------
(* Of the payload on its way. *)

LEMMA Types ==
  ASSUME InputsStay
  PROVE  /\ TypeMade \in ContentTypes /\ LastType \in ContentTypes
         /\ wire # "mqtt binary" => LastType = TypeMade
         /\ via = "error" => TypeMade = "text"
BY DEF InputsStay, TypeMade, LastType, ContentTypes, Codecs

LEMMA Contents ==
  ASSUME InputsStay, Encodable
  PROVE  Content \in {<<>>, <<"json">>, <<"cbor">>} /\ Content \in Seq(Layers)
<1>1. Content \in {<<>>, <<"json">>, <<"cbor">>}
  <2>1. CASE given.form = "object"
    <3>1. LastType \in {"json", "cbor"}
      BY <2>1, Types DEF InputsStay, Encodable, Codecs
    <3> QED BY <2>1, <3>1 DEF Content
  <2>2. CASE given.form # "object"
    BY <2>2, GivenForms DEF Content
  <2> QED BY <2>1, <2>2
<1>2. {<<>>, <<"json">>, <<"cbor">>} \subseteq Seq(Layers)
  BY DEF Layers
<1> QED BY <1>1, <1>2

(* ConvertMsgPayloadToByteArray of what the caller gave. *)
LEMMA GivenEncoded ==
  ASSUME InputsStay, wire # "mqtt binary"
  PROVE  /\ ToBytes(TypeMade, given) = IF Encodable THEN {Encoded} ELSE {}
         /\ given.form = "bytes" => given = Encoded
<1>1. LastType = TypeMade BY Types
<1>2. given.form # "object" => Encoded = Data("bytes", given.layers)
  BY DEF Encoded, Content
<1>3. given.form = "object" => Encoded = Data("bytes", <<TypeMade>>)
  BY <1>1 DEF Encoded, Content
<1>4. given.form = "bytes" => given = Encoded
  BY <1>2, GivenForms
<1> QED BY <1>2, <1>3, <1>4 DEF ToBytes, Encodable

LEMMA MadeEncoded ==
  ASSUME InputsStay, wire # "mqtt binary"
  PROVE  ToBytes(TypeMade, PayloadMade) = IF Encodable THEN {Encoded} ELSE {}
<1>1. CASE Converted /\ Encodable
  <2>1. Encoded.form = "bytes" /\ Encoded = Data("bytes", Encoded.layers)
    BY DataFields DEF Encoded
  <2>2. ToBytes(TypeMade, Encoded) = {Encoded}
    <3> HIDE DEF Encoded
    <3> QED BY <2>1 DEF ToBytes
  <2> QED BY <1>1, <2>2 DEF PayloadMade
<1>2. CASE ~(Converted /\ Encodable)
  BY <1>2, GivenEncoded DEF PayloadMade
<1> QED BY <1>1, <1>2

(* What Send finds to send. *)
LEMMA SentIs ==
  ASSUME InputsStay, HeadersByStage, PayloadByStage, stage = "made"
  PROVE  OnWire = IF wire = "nats" /\ ~Encodable THEN {} ELSE {PayloadSent}
<1>1. /\ envelope.ContentType = TypeMade /\ envelope.Payload = PayloadMade
      /\ wire # "mqtt binary"
  BY DEF HeadersByStage, PayloadByStage
<1>2. CASE wire = "nats"
  BY <1>1, <1>2, MadeEncoded DEF OnWire, PayloadSent
<1>3. CASE wire = "mqtt" /\ cbor
  <2>1. PayloadMade = given BY <1>3 DEF PayloadMade, Converted
  <2> QED BY <1>1, <1>3, <2>1 DEF OnWire, PayloadSent
<1>4. CASE wire # "nats" /\ ~(wire = "mqtt" /\ cbor)
  BY <1>1, <1>4 DEF OnWire, PayloadSent
<1> QED BY <1>2, <1>3, <1>4

LEMMA PayloadsOK ==
  ASSUME InputsStay
  PROVE  /\ PayloadOK(given) /\ PayloadOK(PayloadMade)
         /\ (wire = "nats" => Encodable) => PayloadOK(PayloadSent)
<1>1. PayloadOK(given)
  <2>1. given.form \in Forms BY GivenForms DEF Forms
  <2>2. {<<>>, <<"json">>, <<"cbor">>} \subseteq Seq(Layers) BY DEF Layers
  <2>3. given.layers \in Seq(Layers) BY <2>2, GivenForms
  <2> QED BY <2>1, <2>3 DEF PayloadOK
<1>2. ASSUME Encodable PROVE PayloadOK(Encoded)
  BY <1>2, Contents, DataFields DEF PayloadOK, Encoded, Forms
<1>3. PayloadOK(PayloadMade)
  BY <1>1, <1>2 DEF PayloadMade
<1>5. ASSUME NEW codec \in Codecs PROVE PayloadOK(Data("map", <<codec>>))
  <2>1. <<codec>> \in Seq(Layers) BY DEF Codecs, Layers
  <2> QED BY <2>1, DataFields DEF PayloadOK, Forms
<1>4. "json" \in Codecs /\ "cbor" \in Codecs BY DEF Codecs
<1>7. PayloadOK(InJson(PayloadMade))
  <2>1. CASE PayloadMade.form \notin {"bytes", "object"}
    BY <1>3, <2>1 DEF InJson
  <2>3. CASE PayloadMade.form = "object"
    BY <1>4, <1>5, <2>3 DEF InJson
  <2>2. CASE PayloadMade.form = "bytes"
    <3>1. InJson(PayloadMade)
            = Data("string", Append(PayloadMade.layers, "base64"))
      BY <2>2 DEF InJson
    <3>2. "base64" \in Layers /\ PayloadMade.layers \in Seq(Layers)
      BY <1>3 DEF Layers, PayloadOK
    <3>3. Append(PayloadMade.layers, "base64") \in Seq(Layers)
      BY <3>2, OffAgain
    <3>4. ASSUME NEW l \in Seq(Layers) PROVE PayloadOK(Data("string", l))
      BY DataFields DEF PayloadOK, Forms
    <3> QED BY <3>1, <3>3, <3>4
  <2> QED BY <2>1, <2>2, <2>3
<1>6. PayloadOK(InCbor(given))
  BY <1>1, <1>4, <1>5 DEF InCbor
<1> QED BY <1>1, <1>2, <1>3, <1>6, <1>7 DEF PayloadSent
----------------------------------------------------------------------------
LEMMA PathInvInit == Init => PathInv
<1> SUFFICES ASSUME Init PROVE PathInv OBVIOUS
<1>1. InputsStay BY DEF Init, InputsStay
<1>2. /\ envelope = Envelope(given, givenType) /\ stage = "new"
      /\ result = {} /\ givenType \in ContentTypes
  BY DEF Init
<1>3. /\ DOMAIN envelope = Fields /\ envelope.Payload = given
      /\ envelope.ContentType = givenType
      /\ envelope.ErrorCode = IF via = "error" THEN 1 ELSE 0
      /\ envelope.ReceivedTopic = topic /\ envelope.QueryParams = query
  BY <1>2 DEF Envelope, Fields
<1>4. PayloadOK(envelope.Payload) BY <1>1, <1>3, PayloadsOK
<1> QED
  BY <1>1, <1>2, <1>3, <1>4
  DEF PathInv, HeadersByStage, PayloadByStage, FailedFor

(* The inputs stay, and with them what is made of them. *)
LEMMA InputsKept ==
  ASSUME UNCHANGED input
  PROVE  /\ InputsStay => InputsStay'
         /\ UNCHANGED <<TypeMade, LastType, Encodable, PayloadMade, PayloadSent,
                       OverNats, Agreed>>
         /\ UNCHANGED <<via, given, givenType, wire, topic, query, reader>>
<1>1. UNCHANGED <<via, given, givenType, cbor, base64, peerCbor, numbers, uuids,
                  word, wire, topic, query, reader>>
  BY DEF input
<1>2. InputsStay => InputsStay' BY <1>1 DEF InputsStay
<1>3. UNCHANGED <<TypeMade, LastType, Converted, OverNats>>
  BY <1>1 DEF TypeMade, LastType, Converted, OverNats
<1>4. UNCHANGED <<Encodable, Encoded, Agreed>>
  BY <1>1, <1>3 DEF Encodable, Encoded, Agreed, Content
<1>5. UNCHANGED PayloadMade
  BY <1>1, <1>3, <1>4 DEF PayloadMade
<1>6. UNCHANGED PayloadSent
  BY <1>1, <1>4, <1>5 DEF PayloadSent
<1> QED BY <1>1, <1>2, <1>3, <1>4, <1>5, <1>6

(* The constructor: the payload is encoded when it must be and can be. *)
LEMMA MakeKeeps == PathInv /\ Make => PathInv'
<1> SUFFICES ASSUME PathInv, Make PROVE PathInv' OBVIOUS
<1>1. /\ stage = "new" /\ wire # "mqtt binary" /\ stage' = "made"
      /\ UNCHANGED <<input, result>> /\ InputsStay /\ result = {}
  BY DEF Make, PathInv, PayloadByStage
<1>2. PICK p \in IF Converted /\ ToBytes(TypeMade, given) # {}
                 THEN ToBytes(TypeMade, given) ELSE {given} :
        envelope' = Envelope(p, TypeMade)
  BY DEF Make
<1>3. p = PayloadMade
  BY <1>1, <1>2, GivenEncoded DEF PayloadMade
<1>4. /\ DOMAIN envelope' = Fields /\ envelope'.Payload = PayloadMade
      /\ envelope'.ContentType = TypeMade
      /\ envelope'.ErrorCode = IF via = "error" THEN 1 ELSE 0
      /\ envelope'.ReceivedTopic = topic /\ envelope'.QueryParams = query
  BY <1>2, <1>3 DEF Envelope, Fields
<1>5. PayloadOK(PayloadMade) /\ TypeMade \in ContentTypes
  BY <1>1, PayloadsOK, Types
<1>6. /\ InputsStay'
      /\ UNCHANGED <<TypeMade, LastType, Encodable, PayloadMade, PayloadSent,
                    OverNats, Agreed>>
      /\ UNCHANGED <<via, given, givenType, wire, topic, query, reader>>
  BY <1>1, InputsKept
<1>7. HeadersByStage'
  BY <1>1, <1>4, <1>5, <1>6 DEF HeadersByStage, PathInv
<1>8. PayloadByStage'
  BY <1>1, <1>4, <1>5, <1>6 DEF PayloadByStage, PathInv
<1>9. FailedFor'
  BY <1>1, <1>4, <1>5, <1>6 DEF FailedFor, PathInv
<1>10. envelope'.ContentType \in ContentTypes /\ PayloadOK(envelope'.Payload)
  BY <1>1, <1>4, <1>5 DEF PathInv
<1> QED
  BY <1>1, <1>6, <1>7, <1>8, <1>9, <1>10 DEF PathInv, PayloadOK

LEMMA SendKeeps == PathInv /\ Send => PathInv'
<1> SUFFICES ASSUME PathInv, Send PROVE PathInv' OBVIOUS
<1>1. /\ stage = "made" /\ wire # "mqtt binary" /\ stage' = "sent"
      /\ UNCHANGED <<input, result>> /\ InputsStay /\ result = {}
      /\ DOMAIN envelope = Fields
  BY DEF Send, PathInv, PayloadByStage, HeadersByStage
<1>2. PICK p \in OnWire :
        envelope' = [envelope EXCEPT
          !.Payload = p,
          !.ReceivedTopic = IF OverNats
                            THEN TopicToSubject(envelope.ReceivedTopic)
                            ELSE envelope.ReceivedTopic]
  BY DEF Send
<1>3. p = PayloadSent /\ (wire = "nats" => Encodable)
  BY <1>1, <1>2, SentIs DEF PathInv
<1>4. /\ envelope.ContentType = TypeMade
      /\ envelope.ErrorCode = IF via = "error" THEN 1 ELSE 0
      /\ envelope.ReceivedTopic = topic /\ envelope.QueryParams = query
  BY <1>1 DEF PathInv, HeadersByStage
<1>5. /\ DOMAIN envelope' = Fields /\ envelope'.Payload = PayloadSent
      /\ envelope'.ContentType = TypeMade
      /\ envelope'.ErrorCode = IF via = "error" THEN 1 ELSE 0
      /\ envelope'.ReceivedTopic = IF OverNats THEN TopicToSubject(topic)
                                   ELSE topic
      /\ envelope'.QueryParams = query
  BY <1>1, <1>2, <1>3, <1>4 DEF Fields
<1>6. PayloadOK(PayloadSent) /\ TypeMade \in ContentTypes
  BY <1>1, <1>3, PayloadsOK, Types
<1>7. /\ InputsStay'
      /\ UNCHANGED <<TypeMade, LastType, Encodable, PayloadMade, PayloadSent,
                    OverNats, Agreed>>
      /\ UNCHANGED <<via, given, givenType, wire, topic, query, reader>>
  BY <1>1, InputsKept
<1>8. HeadersByStage'
  BY <1>1, <1>3, <1>5, <1>6, <1>7 DEF HeadersByStage, PathInv
<1>9. PayloadByStage'
  BY <1>1, <1>3, <1>5, <1>6, <1>7 DEF PayloadByStage, PathInv
<1>10. FailedFor'
  BY <1>1, <1>3, <1>5, <1>6, <1>7 DEF FailedFor, PathInv
<1>11. envelope'.ContentType \in ContentTypes /\ PayloadOK(envelope'.Payload)
  BY <1>1, <1>3, <1>5, <1>6 DEF PathInv
<1> QED
  BY <1>1, <1>7, <1>8, <1>9, <1>10, <1>11 DEF PathInv, PayloadOK

LEMMA ReceiveKeeps == PathInv /\ Receive => PathInv'
<1> SUFFICES ASSUME PathInv, Receive PROVE PathInv' OBVIOUS
<1>1. /\ stage = "sent" /\ wire # "mqtt binary" /\ stage' = "received"
      /\ UNCHANGED <<input, result>> /\ InputsStay /\ result = {}
      /\ DOMAIN envelope = Fields
  BY DEF Receive, PathInv, PayloadByStage, HeadersByStage
<1>2. envelope' = [envelope EXCEPT
        !.ReceivedTopic = IF OverNats
                          THEN SubjectToTopic(envelope.ReceivedTopic)
                          ELSE IF wire = "external" THEN <<>>
                          ELSE envelope.ReceivedTopic,
        !.QueryParams = IF wire = "nats" THEN InHeader(envelope.QueryParams)
                        ELSE envelope.QueryParams]
  BY DEF Receive
<1>3. /\ envelope.ContentType = TypeMade /\ TypeMade = LastType
      /\ envelope.ErrorCode = IF via = "error" THEN 1 ELSE 0
      /\ envelope.ReceivedTopic = IF OverNats THEN TopicToSubject(topic)
                                  ELSE topic
      /\ envelope.QueryParams = query /\ envelope.Payload = PayloadSent
      /\ wire = "nats" => Encodable
  BY <1>1, Types DEF PathInv, HeadersByStage, PayloadByStage
<1>4. /\ DOMAIN envelope' = Fields /\ envelope'.Payload = PayloadSent
      /\ envelope'.ContentType = LastType
      /\ envelope'.ErrorCode = IF via = "error" THEN 1 ELSE 0
      /\ envelope'.ReceivedTopic =
            IF OverNats THEN SubjectToTopic(TopicToSubject(topic))
            ELSE IF wire = "external" THEN <<>> ELSE topic
      /\ envelope'.QueryParams = IF wire = "nats" THEN InHeader(query)
                                 ELSE query
  BY <1>1, <1>2, <1>3 DEF Fields
<1>5. PayloadOK(PayloadSent) /\ LastType \in ContentTypes
  BY <1>1, <1>3, PayloadsOK, Types
<1>6. /\ InputsStay'
      /\ UNCHANGED <<TypeMade, LastType, Encodable, PayloadMade, PayloadSent,
                    OverNats, Agreed>>
      /\ UNCHANGED <<via, given, givenType, wire, topic, query, reader>>
  BY <1>1, InputsKept
<1>7. HeadersByStage'
  BY <1>1, <1>3, <1>4, <1>5, <1>6 DEF HeadersByStage, PathInv
<1>8. PayloadByStage'
  BY <1>1, <1>3, <1>4, <1>5, <1>6 DEF PayloadByStage, PathInv
<1>9. FailedFor'
  BY <1>1, <1>3, <1>4, <1>5, <1>6 DEF FailedFor, PathInv
<1>10. envelope'.ContentType \in ContentTypes /\ PayloadOK(envelope'.Payload)
  BY <1>1, <1>3, <1>4, <1>5 DEF PathInv
<1> QED
  BY <1>1, <1>6, <1>7, <1>8, <1>9, <1>10 DEF PathInv, PayloadOK

LEMMA SendBinaryKeeps == PathInv /\ SendBinary => PathInv'
<1> SUFFICES ASSUME PathInv, SendBinary PROVE PathInv' OBVIOUS
<1>1. /\ stage = "new" /\ wire = "mqtt binary" /\ stage' = "received"
      /\ UNCHANGED <<input, result>> /\ InputsStay /\ result = {}
      /\ ~OverNats
  BY DEF SendBinary, PathInv, PayloadByStage, OverNats
<1>2. envelope' = [Envelope(given, LastType) EXCEPT !.QueryParams = <<>>]
  BY <1>1 DEF SendBinary, LastType
<1>3. /\ DOMAIN envelope' = Fields /\ envelope'.Payload = given
      /\ envelope'.ContentType = LastType
      /\ envelope'.ErrorCode = IF via = "error" THEN 1 ELSE 0
      /\ envelope'.ReceivedTopic = topic /\ envelope'.QueryParams = <<>>
  BY <1>2 DEF Envelope, Fields
<1>4. PayloadOK(given) /\ LastType \in ContentTypes /\ PayloadSent = given
  BY <1>1, PayloadsOK, Types DEF PayloadSent
<1>5. /\ InputsStay'
      /\ UNCHANGED <<TypeMade, LastType, Encodable, PayloadMade, PayloadSent,
                    OverNats, Agreed>>
      /\ UNCHANGED <<via, given, givenType, wire, topic, query, reader>>
  BY <1>1, InputsKept
<1>6. HeadersByStage'
  BY <1>1, <1>3, <1>4, <1>5 DEF HeadersByStage, PathInv
<1>7. PayloadByStage'
  BY <1>1, <1>3, <1>4, <1>5 DEF PayloadByStage, PathInv
<1>8. FailedFor'
  BY <1>1, <1>3, <1>4, <1>5 DEF FailedFor, PathInv
<1>9. envelope'.ContentType \in ContentTypes /\ PayloadOK(envelope'.Payload)
  BY <1>1, <1>3, <1>4 DEF PathInv
<1> QED
  BY <1>1, <1>5, <1>6, <1>7, <1>8, <1>9 DEF PathInv, PayloadOK

(* Each failure has its reason. *)
LEMMA FailureKeeps ==
  PathInv /\ (MakeFails \/ SendFails \/ ReceiveFails) => PathInv'
<1> SUFFICES ASSUME PathInv, MakeFails \/ SendFails \/ ReceiveFails
             PROVE  PathInv'
  OBVIOUS
<1>1. /\ stage \in {"new", "made", "sent"} /\ stage' = "failed"
      /\ UNCHANGED <<input, envelope, result>> /\ InputsStay /\ result = {}
      /\ DOMAIN envelope = Fields /\ wire # "mqtt binary"
  BY DEF MakeFails, SendFails, ReceiveFails, PathInv, PayloadByStage,
         HeadersByStage, InputsStay
<1>2. ~Encodable \/ ~Agreed
  <2>1. CASE MakeFails
    BY <1>1, <2>1, GivenEncoded DEF MakeFails, Agreed
  <2>2. CASE SendFails
    BY <1>1, <2>2, SentIs DEF SendFails, PathInv
  <2>3. CASE ReceiveFails
    BY <1>1, <2>3 DEF ReceiveFails, Decodable, Agreed, PathInv, HeadersByStage
  <2> QED BY <2>1, <2>2, <2>3
<1>3. /\ InputsStay'
      /\ UNCHANGED <<TypeMade, LastType, Encodable, PayloadMade, PayloadSent,
                    OverNats, Agreed>>
      /\ UNCHANGED <<via, given, givenType, wire, topic, query, reader>>
  BY <1>1, InputsKept
<1>4. HeadersByStage'
  BY <1>1, <1>2, <1>3 DEF HeadersByStage, PathInv
<1>5. PayloadByStage'
  BY <1>1, <1>2, <1>3 DEF PayloadByStage, PathInv
<1>6. FailedFor'
  BY <1>1, <1>2, <1>3 DEF FailedFor, PathInv
<1>7. envelope'.ContentType \in ContentTypes /\ PayloadOK(envelope'.Payload)
  BY <1>1, <1>2 DEF PathInv
<1> QED
  BY <1>1, <1>3, <1>4, <1>5, <1>6, <1>7 DEF PathInv, PayloadOK

LEMMA ReadKeeps == PathInv /\ Read => PathInv'
<1> SUFFICES ASSUME PathInv, Read PROVE PathInv' OBVIOUS
<1>1. /\ stage = "received" /\ stage' = "read" /\ result' = Got
      /\ UNCHANGED <<input, envelope>> /\ InputsStay
  BY DEF Read, PathInv, Got
<1>2. UNCHANGED Got
  BY <1>1 DEF Got, input, GetMsgPayload, FromString, FromAny,
         Restorable, Restored, Base64Decode
<1>3. /\ InputsStay'
      /\ UNCHANGED <<TypeMade, LastType, Encodable, PayloadMade, PayloadSent,
                    OverNats, Agreed>>
      /\ UNCHANGED <<via, given, givenType, wire, topic, query, reader>>
  BY <1>1, InputsKept
<1>4. HeadersByStage'
  BY <1>1, <1>2, <1>3 DEF HeadersByStage, PathInv
<1>5. PayloadByStage'
  BY <1>1, <1>2, <1>3 DEF PayloadByStage, PathInv
<1>6. FailedFor'
  BY <1>1, <1>2, <1>3 DEF FailedFor, PathInv
<1>7. envelope'.ContentType \in ContentTypes /\ PayloadOK(envelope'.Payload)
  BY <1>1, <1>2 DEF PathInv
<1> QED
  BY <1>1, <1>3, <1>4, <1>5, <1>6, <1>7 DEF PathInv, PayloadOK

LEMMA PathInvHolds == Spec => []PathInv
<1>1. PathInv /\ UNCHANGED vars => PathInv'
  <2> SUFFICES ASSUME PathInv, UNCHANGED vars PROVE PathInv' OBVIOUS
  <2>1. UNCHANGED <<input, stage, envelope, result>> /\ InputsStay
    BY DEF vars, PathInv
  <2>2. UNCHANGED Got
    BY <2>1 DEF Got, input, GetMsgPayload, FromString, FromAny,
         Restorable, Restored, Base64Decode
  <2>3. /\ InputsStay'
        /\ UNCHANGED <<TypeMade, LastType, Encodable, PayloadMade, PayloadSent,
                      OverNats, Agreed>>
        /\ UNCHANGED <<via, given, givenType, wire, topic, query, reader>>
    BY <2>1, InputsKept
  <2>4. HeadersByStage'
    BY <2>1, <2>2, <2>3 DEF HeadersByStage, PathInv
  <2>5. PayloadByStage'
    BY <2>1, <2>2, <2>3 DEF PayloadByStage, PathInv
  <2>6. FailedFor'
    BY <2>1, <2>2, <2>3 DEF FailedFor, PathInv
  <2>7. envelope'.ContentType \in ContentTypes /\ PayloadOK(envelope'.Payload)
    BY <2>1, <2>2 DEF PathInv
  <2> QED
    BY <2>1, <2>3, <2>4, <2>5, <2>6, <2>7 DEF PathInv, PayloadOK
<1>2. PathInv /\ [Next]_vars => PathInv'
  BY <1>1, MakeKeeps, SendKeeps, ReceiveKeeps, SendBinaryKeeps, FailureKeeps,
     ReadKeeps DEF Next
<1> QED BY <1>2, PathInvInit, PTL DEF Spec
----------------------------------------------------------------------------
(* The payload as it arrives. *)
LEMMA ArrivesAs ==
  ASSUME InputsStay, wire = "nats" => Encodable
  PROVE  \/ PayloadSent = Encoded /\ Encodable
         \/ /\ PayloadSent = InJson(Encoded) /\ Encodable
            /\ given.form # "string" \/ Converted
         \/ PayloadSent = given /\ given.form = "string" /\ wire # "nats"
         \/ /\ PayloadSent = Data("map", <<"json">>) /\ given.form = "object"
            /\ ObjectInJson \/ ~Encodable
         \/ /\ PayloadSent = Data("map", <<"cbor">>) /\ given.form = "object"
            /\ cbor
<1>1. given.form = "bytes" => given = Encoded /\ Encodable
  BY GivenForms DEF Encoded, Content, Encodable
<1>2. CASE wire = "nats" BY <1>2 DEF PayloadSent
<1>3. CASE wire = "mqtt binary"
  BY <1>1, <1>3 DEF PayloadSent, InputsStay
<1>4. CASE wire = "mqtt" /\ cbor
  <2>1. PayloadSent = InCbor(given) BY <1>4 DEF PayloadSent
  <2> QED BY <1>1, <1>4, <2>1, GivenForms DEF InCbor
<1>5. CASE wire \notin {"nats", "mqtt binary"} /\ ~(wire = "mqtt" /\ cbor)
  <2>1. PayloadSent = InJson(PayloadMade) BY <1>5 DEF PayloadSent
  <2>2. CASE Converted /\ Encodable
    BY <2>1, <2>2 DEF PayloadMade
  <2>3. CASE ~(Converted /\ Encodable)
    <3>1. PayloadMade = given BY <2>3 DEF PayloadMade
    <3>2. CASE given.form = "bytes" BY <1>1, <2>1, <3>1, <3>2
    <3>3. CASE given.form = "string" BY <1>5, <2>1, <3>1, <3>3 DEF InJson
    <3>4. CASE given.form = "object"
      <4>1. PayloadSent = Data("map", <<"json">>)
        BY <2>1, <3>1, <3>4 DEF InJson
      <4>2. ObjectInJson \/ ~Encodable
        BY <1>5, <2>3, <3>4 DEF ObjectInJson, InputsStay, Wires
      <4> QED BY <3>4, <4>1, <4>2
    <3> QED BY <3>2, <3>3, <3>4, GivenForms
  <2> QED BY <2>2, <2>3
<1> QED BY <1>2, <1>3, <1>4, <1>5

(* What was read, as the reader's variable and the way of the message say.  *)
LEMMA ReadAs ==
  ASSUME PathInv, stage = "read"
  PROVE  /\ reader # "command" =>
              result = GetMsgPayload(LastType, PayloadSent, reader)
         /\ reader = "command" /\ via = "error" =>
              result = {Printed(PayloadSent)}
         /\ reader = "command" /\ via # "error" =>
              result = GetMsgPayload(LastType, PayloadSent, "object")
         /\ wire = "nats" => Encodable
<1>1. envelope.ContentType = LastType /\ envelope.Payload = PayloadSent
      /\ (wire = "nats" => Encodable) /\ result = Got
  BY DEF PathInv, HeadersByStage, PayloadByStage
<1>2. envelope.ErrorCode = IF via = "error" THEN 1 ELSE 0
  BY DEF PathInv, HeadersByStage
<1> QED BY <1>1, <1>2 DEF Got

(* Where a JSON envelope does not give an object back. *)
Worn == ObjectInJson /\ IF LastType = "json" THEN numbers \in {"wide", "extreme"}
                                            ELSE numbers # "none"

(* An object, encoded by the caller or by the library. *)
LEMMA ObjectRead ==
  ASSUME PathInv, stage = "read", reader \in {"object", "command"},
         LastType \in Codecs,
         given \in {Data("object", <<>>), Data("bytes", <<LastType>>)}
  PROVE  result = {Data("object", <<>>)} \/ Worn
<1>1. InputsStay /\ LastType \in ContentTypes /\ (wire = "nats" => Encodable)
  BY ReadAs, Types DEF PathInv
<1>2. given.form # "string" /\ Content = <<LastType>>
  BY DataFields DEF Content
<1>3. via # "error" BY <1>1, <1>2 DEF InputsStay
<1>4. result = GetMsgPayload(LastType, PayloadSent, "object")
  BY <1>3, ReadAs
<1>5. CASE PayloadSent \in {Encoded, InJson(Encoded)} /\ Encodable
  <2>1. Content \in Seq(Layers) BY <1>1, <1>5, Contents
  <2> QED BY <1>1, <1>2, <1>4, <1>5, <2>1, FromEncoded DEF Encoded
<1>6. ASSUME NEW codec \in Codecs, PayloadSent = Data("map", <<codec>>)
      PROVE  result = IF Restorable(LastType, codec) THEN {Restored(codec)}
                                                     ELSE {}
  BY <1>1, <1>4, <1>6, FromMap
<1>7. CASE PayloadSent = Data("map", <<"json">>) /\ given.form = "object"
           /\ (ObjectInJson \/ ~Encodable)
  <2>1. ObjectInJson
    <3>1. wire # "mqtt binary" => Encodable
      BY <1>1, Types DEF Encodable
    <3>2. wire # "mqtt binary" BY <1>1, <1>7 DEF InputsStay
    <3> QED BY <1>7, <3>1, <3>2
  <2>2. result = IF Restorable(LastType, "json") THEN {Restored("json")} ELSE {}
    BY <1>6, <1>7 DEF Codecs
  <2>3. ~Worn => Restorable(LastType, "json") /\ numbers # "wide"
    BY <1>1, <2>1 DEF Worn, Restorable, InputsStay, Numbers, Codecs
  <2> QED BY <2>2, <2>3 DEF Restored
<1>8. CASE PayloadSent = Data("map", <<"cbor">>) /\ cbor
  <2>1. wire # "mqtt binary"
    <3>1. given.form # "map" BY <1>1, GivenForms
    <3>2. PayloadSent.form = "map" BY <1>8, DataFields
    <3> QED BY <3>1, <3>2 DEF PayloadSent
  <2>2. LastType = "cbor" BY <1>3, <1>8, <2>1 DEF LastType, TypeMade
  <2>3. Restorable(LastType, "cbor") /\ Restored("cbor") = Data("object", <<>>)
    BY <2>2 DEF Restorable, Restored
  <2> QED BY <1>6, <1>8, <2>3 DEF Codecs
<1> QED BY <1>1, <1>2, <1>5, <1>7, <1>8, ArrivesAs

LEMMA BytesRead ==
  ASSUME PathInv, stage = "read", reader = "bytes", given.form = "bytes"
  PROVE  result = {given}
<1>1. InputsStay /\ LastType \in ContentTypes /\ (wire = "nats" => Encodable)
  BY ReadAs, Types DEF PathInv
<1>2. Encodable /\ given = Encoded
  BY <1>1, GivenForms DEF Encoded, Content, Encodable
<1>3. Content \in Seq(Layers) BY <1>1, <1>2, Contents
<1>4. PayloadSent \in {Encoded, InJson(Encoded)}
  <2>1. given.form \notin {"object", "string"} OBVIOUS
  <2> QED BY <1>1, <2>1, ArrivesAs
<1> QED BY <1>1, <1>2, <1>3, <1>4, ReadAs, FromEncoded DEF Encoded

(* Everything that any reader may get. *)
LEMMA ResultIs ==
  ASSUME PathInv, NEW r \in result
  PROVE  \/ r \in {Data("object", <<>>), Data("string", <<>>)}
         \/ r = Encoded /\ Encodable
         \/ /\ r = InJson(Encoded) /\ Encodable /\ reader = "string"
            /\ given.form # "string" \/ Converted
         \/ r = Data("bytes", <<"noise">>) /\ reader = "bytes" /\ word
         \/ /\ r = Data("string", <<"digits">>) /\ reader = "command"
            /\ via = "error" /\ wire = "nats"
         \/ /\ r = Data("object", <<"rounded">>) /\ ObjectInJson
            /\ LastType = "json" /\ numbers = "wide"
<1>1. stage = "read" /\ InputsStay /\ LastType \in ContentTypes
      /\ (wire = "nats" => Encodable) /\ reader \in Readers
  <2>1. stage = "read" BY DEF PathInv, PayloadByStage
  <2> QED BY <2>1, ReadAs, Types DEF PathInv, InputsStay
<1>2. \/ /\ reader \in {"object", "bytes", "string"}
         /\ r \in GetMsgPayload(LastType, PayloadSent, reader)
      \/ /\ reader = "command" /\ via = "error" /\ r = Printed(PayloadSent)
      \/ /\ reader = "command"
         /\ r \in GetMsgPayload(LastType, PayloadSent, "object")
  BY <1>1, ReadAs DEF Readers
<1>3. CASE reader = "command" /\ via = "error" /\ r = Printed(PayloadSent)
  <2>1. given.form = "string" /\ ~Converted /\ given = Data("string", <<>>)
    BY <1>1, <1>3, GivenForms DEF InputsStay, Converted
  <2>2. CASE wire = "nats"
    <3>1. PayloadSent = Data("bytes", <<>>)
      <4>1. Content = <<>> BY <1>1, <2>1, GivenForms DEF Content
      <4> QED BY <2>2, <4>1 DEF PayloadSent, Encoded
    <3>2. Printed(Data("bytes", <<>>)) = Data("string", Append(<<>>, "digits"))
      BY DataFields DEF Printed
    <3>3. Append(<<>>, "digits") = <<"digits">> OBVIOUS
    <3> QED BY <1>3, <2>2, <3>1, <3>2, <3>3
  <2>3. CASE wire # "nats"
    <3>1. PayloadSent = given
      <4>1. PayloadMade = given /\ InJson(given) = given /\ InCbor(given) = given
        BY <2>1 DEF PayloadMade, InJson, InCbor
      <4> QED BY <2>3, <4>1 DEF PayloadSent
    <3> QED BY <1>3, <2>1, <3>1 DEF Printed
  <2> QED BY <2>2, <2>3
<1>4. ASSUME NEW form \in {"object", "bytes", "string"},
             r \in GetMsgPayload(LastType, PayloadSent, form),
             form = reader \/ form = "object"
      PROVE  \/ r \in {Data("object", <<>>), Data("string", <<>>)}
             \/ r = Encoded /\ Encodable
             \/ /\ r = InJson(Encoded) /\ Encodable /\ reader = "string"
                /\ given.form # "string" \/ Converted
             \/ r = Data("bytes", <<"noise">>) /\ reader = "bytes" /\ word
             \/ /\ r = Data("object", <<"rounded">>) /\ ObjectInJson
                /\ LastType = "json" /\ numbers = "wide"
  <2>1. CASE PayloadSent = Encoded /\ Encodable
    <3>1. Content \in Seq(Layers) BY <1>1, <2>1, Contents
    <3>2. r \in {Data("object", <<>>), Encoded}
      BY <1>1, <1>4, <2>1, <3>1, FromEncoded DEF Encoded
    <3> QED BY <2>1, <3>2
  <2>2. CASE /\ PayloadSent = InJson(Encoded) /\ Encodable
             /\ given.form # "string" \/ Converted
    <3>1. Content \in Seq(Layers) BY <1>1, <2>2, Contents
    <3>2. \/ r \in {Data("object", <<>>), Encoded}
          \/ r = InJson(Encoded) /\ form = "string"
      BY <1>1, <1>4, <2>2, <3>1, FromEncoded DEF Encoded
    <3> QED BY <1>4, <2>2, <3>2
  <2>3. CASE PayloadSent = given /\ given.form = "string"
    <3>1. given = Data("string", <<>>) BY <1>1, <2>3, GivenForms
    <3> QED BY <1>1, <1>4, <2>3, <3>1, FromText
  <2>4. ASSUME NEW codec \in Codecs, PayloadSent = Data("map", <<codec>>)
        PROVE  r = Restored(codec) /\ Restorable(LastType, codec)
    BY <1>1, <1>4, <2>4, FromMap
  <2>5. CASE /\ PayloadSent = Data("map", <<"json">>) /\ given.form = "object"
             /\ ObjectInJson \/ ~Encodable
    <3>1. r = Restored("json") /\ Restorable(LastType, "json")
      BY <2>4, <2>5 DEF Codecs
    <3>2. CASE numbers = "wide"
      <4>1. LastType = "json" BY <3>1, <3>2 DEF Restorable
      <4>2. Encodable
        BY <1>1, <4>1, <2>5, Types DEF Encodable, Codecs, InputsStay
      <4> QED BY <2>5, <3>1, <3>2, <4>1, <4>2 DEF Restored
    <3>3. CASE numbers # "wide" BY <3>1, <3>3 DEF Restored
    <3> QED BY <3>2, <3>3
  <2>6. CASE PayloadSent = Data("map", <<"cbor">>) /\ cbor
    BY <2>4, <2>6 DEF Restored, Codecs
  <2> QED BY <1>1, <2>1, <2>2, <2>3, <2>5, <2>6, ArrivesAs
<1> QED BY <1>2, <1>3, <1>4
----------------------------------------------------------------------------
(* Type correctness. *)
THEOREM TypeCorrect == Spec => []TypeOK
<1>1. PathInv => TypeOK
  <2> SUFFICES ASSUME PathInv PROVE TypeOK OBVIOUS
  <2>1. ASSUME NEW r \in result PROVE PayloadOK(r)
    <3>1. Encodable => PayloadOK(Encoded) /\ PayloadOK(InJson(Encoded))
      <4>1. Encodable => Content \in Seq(Layers) BY Contents DEF PathInv
      <4> QED BY <4>1, DataFields, JsonAndBack DEF Encoded, PayloadOK, Forms
    <3>2. ASSUME NEW form \in Forms
          PROVE  /\ PayloadOK(Data(form, <<>>))
                 /\ PayloadOK(Data(form, <<"noise">>))
                 /\ PayloadOK(Data(form, <<"digits">>))
                 /\ PayloadOK(Data(form, <<"rounded">>))
      <4>1. {<<>>, <<"noise">>, <<"digits">>, <<"rounded">>} \subseteq Seq(Layers)
        BY DEF Layers
      <4>2. ASSUME NEW l \in Seq(Layers) PROVE PayloadOK(Data(form, l))
        BY DataFields DEF PayloadOK
      <4> QED BY <4>1, <4>2
    <3>3. {"object", "string", "bytes"} \subseteq Forms BY DEF Forms
    <3> QED BY <3>1, <3>2, <3>3, ResultIs
  <2>2. envelope.ErrorCode \in {0, 1} BY DEF PathInv, HeadersByStage
  <2> QED BY <2>1, <2>2 DEF PathInv, PayloadOK, TypeOK
<1> QED BY <1>1, PathInvHolds, PTL

(* publishNats, subscribe and both marshallers: the receiver sees the       *)
(* published topic and query, whatever they are, but for the characters     *)
(* that a subject uses and, over the native format, a key or value with a   *)
(* colon, a line break or white space at an end.                            *)
THEOREM TopicsArrive == Spec => []HeadersArrive
<1>1. PathInv => HeadersArrive
  <2> SUFFICES ASSUME PathInv, stage \in {"received", "read"},
                      wire # "mqtt binary"
               PROVE  /\ \/ wire = "external"
                         \/ OverNats /\ ToSet(topic) \cap {".", "*", ">"} # {}
                         \/ envelope.ReceivedTopic = topic
                      /\ \/ wire = "nats" /\ ~(Carried(query[1])
                                              /\ Carried(query[2]))
                         \/ envelope.QueryParams = query
    BY DEF HeadersArrive
  <2>1. topic \in Seq(STRING) /\ query \in Seq(STRING) \X Seq(STRING)
    BY Headers DEF PathInv, InputsStay
  <2>2. /\ envelope.ReceivedTopic =
              IF OverNats THEN SubjectToTopic(TopicToSubject(topic))
              ELSE IF wire = "external" THEN <<>> ELSE topic
        /\ envelope.QueryParams = IF wire = "nats" THEN InHeader(query)
                                  ELSE query
    BY DEF PathInv, HeadersByStage
  <2>3. Carried(query[1]) /\ Carried(query[2]) => InHeader(query) = query
    <3>1. /\ query[1] \in Seq(STRING) /\ query[2] \in Seq(STRING)
          /\ query = <<query[1], query[2]>>
      BY <2>1, PairOf
    <3>2. /\ ":" \in STRING \union {":"}
          /\ \A s \in Seq(STRING) : s \in Seq(STRING \union {":"})
      BY SeqMonotonic
    <3> QED BY <3>1, <3>2, QueryAndBack
  <2> QED BY <2>1, <2>2, <2>3, SubjectAndBack
<1> QED BY <1>1, PathInvHolds, PTL

(* NewMessageEnvelope*, Marshal and Unmarshal, GetMsgPayload, and the       *)
(* CommandClient: an object comes out as it went in wherever both ends      *)
(* agree, whatever the sender's other switches are, but for the integers    *)
(* (and with the CBOR type the []byte) that it has inside a JSON envelope.  *)
THEOREM ObjectsArrive == Spec => []ObjectArrives
<1>1. PathInv => ObjectArrives
  <2> SUFFICES ASSUME PathInv, Ended, Agreed, LastType \in Codecs,
                      reader \in {"object", "command"},
                      given \in {Data("object", <<>>),
                                Data("bytes", <<LastType>>)}
               PROVE  result = {Data("object", <<>>)} \/ Worn
    BY DEF ObjectArrives, Worn
  <2>1. Encodable
    BY Types DEF Encodable, PathInv, InputsStay
  <2>2. stage = "read"
    BY <2>1 DEF Ended, PathInv, FailedFor
  <2> QED BY <2>2, ObjectRead
<1> QED BY <1>1, PathInvHolds, PTL

(* The same of the bytes that a caller encoded himself. *)
THEOREM BytesDoArrive == Spec => []BytesArrive
<1>1. PathInv => BytesArrive
  <2> SUFFICES ASSUME PathInv, Ended, Agreed, reader = "bytes",
                      given.form = "bytes"
               PROVE  result = {given}
    BY DEF BytesArrive
  <2>1. stage = "read"
    BY DEF Ended, PathInv, FailedFor, Encodable
  <2> QED BY <2>1, BytesRead
<1> QED BY <1>1, PathInvHolds, PTL

(* GetMsgPayload gives an error or the content, over every wire and with    *)
(* every switch, but in four cases: a string asked of what JSON carried as  *)
(* base64, bytes asked of a text that is valid base64, the text of an error *)
(* that the CommandClient prints after the native NATS format, and an       *)
(* object with an integer beyond 2^53 in a JSON envelope, which is rounded. *)
THEOREM MistakesAreExplained == Spec => []MistakesExplained
<1>1. PathInv => MistakesExplained
  <2> SUFFICES ASSUME PathInv, NEW r \in result
               PROVE  \/ ToSet(r.layers) \subseteq Codecs
                      \/ /\ reader = "string"
                         /\ given.form # "string" \/ Converted
                      \/ reader = "bytes" /\ word
                      \/ reader = "command" /\ via = "error" /\ wire = "nats"
                      \/ /\ ObjectInJson /\ LastType = "json"
                         /\ numbers = "wide"
    BY DEF MistakesExplained
  <2>1. \A l \in {<<>>, <<"json">>, <<"cbor">>} : ToSet(l) \subseteq Codecs
    BY DEF ToSet, Codecs
  <2>2. Encodable => ToSet(Encoded.layers) \subseteq Codecs
    BY <2>1, Contents, DataFields DEF Encoded, PathInv
  <2>3. r \in {Data("object", <<>>), Data("string", <<>>)} => r.layers = <<>>
    BY DataFields
  <2> QED BY <2>1, <2>2, <2>3, ResultIs
<1> QED BY <1>1, PathInvHolds, PTL
=============================================================================
