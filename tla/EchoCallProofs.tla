--------------------------- MODULE EchoCallProofs ---------------------------
(***************************************************************************)
(* Theorems about EchoCall, for any texts, limit and greeting, and for     *)
(* calls with bodies of any length.  What the codec does with a whole      *)
(* buffer is proved in EchoMessageProofs, for the same codec.              *)
(***************************************************************************)
EXTENDS EchoCall, SequenceTheorems, TLAPS

\* Only the lemmas on the codec are used, which mention none of the parameters.
M == INSTANCE EchoMessageProofs WITH
  Fed <- {}, MaxFields <- 0, owned <- Default, view <- Default, fed <- <<>>,
  Buffers <- {}, Documents <- {}, Extensions <- {}, MaxUnknown <- 0, MaxSize <- 0,
  request <- Default, handle <- Default, res <- None

UnknownFields == {f \in Fields : f.num # 1}

CanRead(f) == f.good /\ (f.num = 1 => f.wire = "len")

\* What decode_view accepts.
Accepts(b) ==
  (\A i \in DOMAIN b : CanRead(b[i])) /\ Len(UnknownIn(b)) <= UnknownLimit

LEMMA CodecAssumptions ==
  M!CodecAssumption /\ M!JsonAssumption /\ M!FedAssumption /\ M!HandlesAssumption
<1>1. M!CodecAssumption /\ M!FedAssumption
  BY CodecAssumption DEF CodecAssumption, M!CodecAssumption, M!FedAssumption, None, M!None
<1>2. M!JsonAssumption
  BY JsonAssumption DEF JsonAssumption, M!JsonAssumption, Null, M!Null
<1>3. M!HandlesAssumption
  BY DEF M!HandlesAssumption
<1> QED BY <1>1, <1>2, <1>3

LEMMA Limits == UnknownLimit \in Nat
BY Zenon, CodecAssumption DEF CodecAssumption

LEMMA Lengths ==
  ASSUME NEW t \in Texts PROVE TextLen[t] \in Nat /\ (TextLen[t] < 1 <=> t = "")
<1>1. TextLen \in [Texts -> Nat] /\ (TextLen[t] = 0 <=> t = "")
  BY Zenon, CodecAssumption DEF CodecAssumption
<1>2. TextLen[t] \in Nat
  BY <1>1
<1>3. \A n \in Nat : n < 1 <=> n = 0
  OBVIOUS
<1>4. TextLen[t] < 1 <=> TextLen[t] = 0
  BY <1>2, <1>3
<1> QED BY <1>1, <1>2, <1>4, Zenon

LEMMA SameFields == Fields = M!Fields /\ UnknownFields = M!UnknownFields
BY DEF Fields, M!Fields, WireTypes, M!WireTypes, UnknownFields, M!UnknownFields

LEMMA SameDefault == Default = M!Default /\ None = M!None
BY DEF Default, M!Default, None, M!None

LEMMA SameFilters ==
  /\ \A b : TextsIn(b) = M!TextsIn(b)
  /\ \A b : UnknownIn(b) = M!UnknownIn(b)
BY DEF TextsIn, M!TextsIn, UnknownIn, M!UnknownIn, Keep, M!Keep, FoldLeft, M!FoldLeft,
       MapThenFoldSet, M!MapThenFoldSet, Max, M!Max

LEMMA SameCount == \A b : CountAll(b) = M!CountAll(b)
BY DEF CountAll, M!CountAll, Count, M!Count, FoldLeft, M!FoldLeft,
       MapThenFoldSet, M!MapThenFoldSet, Max, M!Max

LEMMA SameWriter == \A m : WriteTo(m) = M!WriteTo(m)
BY DEF WriteTo, M!WriteTo, TextField, M!TextField, None, M!None

LEMMA SameReader == \A b : DecodeView(b) = M!DecodeView(b)
BY DEF DecodeView, M!DecodeView, MergeViewField, M!MergeViewField, RefusesText, M!RefusesText,
       Failed, M!Failed, Kept, M!Kept, WithMessage, M!WithMessage, WithUnknown, M!WithUnknown,
       Begun, M!Begun, Default, M!Default, None, M!None, FoldLeft, M!FoldLeft,
       MapThenFoldSet, M!MapThenFoldSet, Max, M!Max

LEMMA SameMeaning == \A b : Meaning(b) = M!Meaning(b)
BY SameFilters DEF Meaning, M!Meaning, None, M!None, Last, M!Last

LEMMA SameAccepts == \A b : Accepts(b) <=> M!Accepts(b)
BY SameFilters DEF Accepts, M!Accepts, CanRead, M!CanRead

-----------------------------------------------------------------------------
(* The codec on whole buffers. *)

LEMMA ReadsBuffer ==
  ASSUME NEW b \in Seq(Fields)
  PROVE  /\ DecodeView(b).err <=> ~Accepts(b)
         /\ Accepts(b) => DecodeView(b).msg = Meaning(b)
<1>1. b \in Seq(M!Fields)
  BY SameFields
<1>2. /\ M!DecodeView(b).err <=> ~M!Accepts(b)
      /\ M!Accepts(b) => M!DecodeView(b).msg = M!Meaning(b)
  BY <1>1, M!DecodeViewFacts, CodecAssumptions
<1> QED BY <1>2, SameReader, SameMeaning, SameAccepts

\* A message without unknown fields is read back from what is written of it.
LEMMA ReadsWritten ==
  ASSUME NEW t \in Texts \cup {None}, NEW m, m = [message |-> t, unknown |-> <<>>]
  PROVE  /\ WriteTo(m) \in Seq(Fields) /\ ~DecodeView(WriteTo(m)).err
         /\ DecodeView(WriteTo(m)).msg = m
<1>1. m \in M!Messages /\ m.unknown = <<>>
  BY EmptySeq, SameDefault DEF M!Messages
<1>2. m.unknown \in Seq(M!ReadUnknown) /\ Len(m.unknown) = 0 /\ 0 <= UnknownLimit
  BY <1>1, Limits, EmptySeq
<1>3. /\ M!WriteTo(m) \in Seq(M!Fields)
      /\ M!Accepts(M!WriteTo(m)) <=> Len(m.unknown) <= UnknownLimit
      /\ ~M!DecodeView(M!WriteTo(m)).err <=> Len(m.unknown) <= UnknownLimit
      /\ ~M!DecodeView(M!WriteTo(m)).err => M!DecodeView(M!WriteTo(m)).msg = m
  BY <1>1, <1>2, M!WrittenIsRead, CodecAssumptions
<1>4. M!Accepts(M!WriteTo(m)) /\ M!DecodeView(M!WriteTo(m)).msg = m
  BY <1>2, <1>3
<1>5. /\ WriteTo(m) \in Seq(Fields) /\ Accepts(WriteTo(m))
      /\ DecodeView(WriteTo(m)).msg = m
  BY <1>3, <1>4, SameWriter, SameFields, SameAccepts, SameReader
<1> QED BY <1>5, ReadsBuffer

\* The records of unknown fields are no more than the fields they decode to.
LEMMA CountsRecords ==
  ASSUME NEW b \in Seq(Fields)
  PROVE  /\ CountAll(UnknownIn(b)) \in Nat /\ Len(UnknownIn(b)) \in Nat
         /\ Len(UnknownIn(b)) <= CountAll(UnknownIn(b))
<1>1. b \in Seq(M!Fields)
  BY SameFields
<1>2. M!UnknownIn(b) \in Seq(M!UnknownFields)
  BY <1>1, M!UnknownType, CodecAssumptions
<1>3. M!UnknownIn(b) \in Seq(M!Fields)
  BY <1>2, M!UnknownAreFields, CodecAssumptions
<1>4. M!CountAll(M!UnknownIn(b)) \in Nat /\ Len(M!UnknownIn(b)) <= M!CountAll(M!UnknownIn(b))
  BY <1>3, M!CountAtLeast, CodecAssumptions
<1> QED BY <1>3, <1>4, SameFilters, SameCount, LenProperties

LEMMA CountsNothing == CountAll(<<>>) = 0
BY M!CountEmpty, CodecAssumptions, SameCount

\* The texts of a body that carries names are names.
LEMMA TextsAreNames ==
  ASSUME NEW b \in Seq(Fields), \A i \in DOMAIN b : b[i].num = 1 => b[i].text \in Names
  PROVE  TextsIn(b) \in Seq({f \in Fields : f.num = 1 /\ f.text \in Names})
<1> DEFINE X == {f \in Fields : f.num = 1 => f.text \in Names}
           Y == {f \in X : f.num = 1}
<1>1. b \in Seq(X)
  <2>1. \A i \in 1..Len(b) : b[i] \in X
    BY LenProperties
  <2> HIDE DEF X
  <2> QED BY <2>1
<1>2. X \in SUBSET M!Fields
  BY SameFields
<1> HIDE DEF X
<1>3. M!TextsIn(b) \in Seq({f \in X : f.num = 1})
  BY <1>1, <1>2, M!TextsWithin, CodecAssumptions
<1>4. Y \subseteq {f \in Fields : f.num = 1 /\ f.text \in Names}
  BY DEF X
<1> QED BY <1>3, <1>4, SameFilters, SeqMonotonic

-----------------------------------------------------------------------------
(* JSON documents. *)

LEMMA SameJson ==
  /\ \A doc : MessageMembers(doc) = M!MessageMembers(doc)
  /\ \A doc : FromJson(doc) = M!FromJson(doc)
  /\ \A m : Json(m) = M!Json(m)
<1>1. \A doc : MessageMembers(doc) = M!MessageMembers(doc)
  BY DEF MessageMembers, M!MessageMembers, Keep, M!Keep, FoldLeft, M!FoldLeft,
         MapThenFoldSet, M!MapThenFoldSet, Max, M!Max
<1>2. \A doc : FromJson(doc) = M!FromJson(doc)
  BY <1>1, SameDefault DEF FromJson, M!FromJson, WithMessage, M!WithMessage, Null, M!Null
<1>3. \A m : Json(m) = M!Json(m)
  BY SameDefault DEF Json, M!Json, Member, M!Member
<1> QED BY <1>1, <1>2, <1>3

\* The values of a document that carries names are names, null or of another type.
LEMMA MembersAreNames ==
  ASSUME NEW doc \in Seq(Members),
         \A i \in DOMAIN doc : doc[i].key = "message" => doc[i].value \in Names \cup {Null, "number"}
  PROVE  MessageMembers(doc) \in
           Seq({p \in Members : p.key = "message" /\ p.value \in Names \cup {Null, "number"}})
<1> DEFINE X == {p \in Members : p.key = "message" => p.value \in Names \cup {Null, "number"}}
           Y == {p \in Members : p.key = "message" /\ p.value \in Names \cup {Null, "number"}}
<1>1. doc \in Seq(X)
  <2>1. \A i \in 1..Len(doc) : doc[i] \in X
    BY LenProperties
  <2> HIDE DEF X
  <2> QED BY <2>1
<1>2. {p \in X : p.key = "message"} \subseteq Y
  OBVIOUS
<1> HIDE DEF X, Y
<1>3. M!MessageMembers(doc) \in Seq({p \in X : p.key = "message"})
  BY <1>1, M!MembersWithin, CodecAssumptions
<1>4. MessageMembers(doc) \in Seq(Y)
  BY <1>2, <1>3, SameJson, SeqMonotonic
<1> QED BY <1>4 DEF Y

\* A text that is set comes back from its JSON.
LEMMA JsonIsRead ==
  ASSUME NEW t \in Texts
  PROVE  FromJson(Json(WithMessage(Default, t))) = WithMessage(Default, t)
<1>1. WithMessage(Default, t) = [message |-> t, unknown |-> <<>>]
  BY DEF WithMessage, Default
<1> DEFINE m == [message |-> t, unknown |-> <<>>]
<1>2. m \in M!Messages /\ m.message = t
  BY EmptySeq DEF M!Messages
<1> HIDE DEF m
<1>3. M!FromJson(M!Json(m)) = [message |-> m.message, unknown |-> <<>>]
  BY <1>2, M!JsonDrops, CodecAssumptions
<1> QED BY <1>1, <1>2, <1>3, SameJson DEF m

-----------------------------------------------------------------------------
(* The call so far. *)

\* What is sent to the handler, whether it gets there, and in which bytes.
Sent(c) == IF c.format = "json" THEN FromJson(c.body) ELSE Meaning(c.body)
Arrives(c) == IF c.format = "json" THEN ReadsJson(c.body) ELSE Accepts(c.body)
Wire(c) == IF c.format = "proto" THEN c.body ELSE WriteTo(FromJson(c.body))

Served(c) == Wanted(c) /\ Readable(c) /\ Said(c) \in Names \ {""}

Typed ==
  /\ call \in Calls
  /\ stage \in {"arrived", "routed", "transcoded", "decoded", "valid", "returned",
                "encoded", "logged", "answered", "read"}
  /\ view.message \in Names \cup {None}

\* Before the handler returns nothing is answered, and only the method is called.
Pending == {"arrived", "routed", "transcoded", "decoded", "valid"}

Undecided ==
  /\ stage \in Pending => code = "none"
  /\ stage \in Pending \ {"arrived"} => Wanted(call)

\* What was made of the request so far is what it means.
Understood ==
  /\ stage = "transcoded" => bytes = Wire(call) /\ (call.format = "json" => Arrives(call))
  /\ stage \in {"decoded", "valid"} => view = Sent(call) /\ Arrives(call)
  /\ stage = "valid" => Served(call)

\* The answer that the call deserves.
Deserved ==
  \/ code = "ok" /\ Served(call) /\ reply = WithMessage(Default, Greeting[Said(call)])
  \/ code = "unimplemented" /\ ~Wanted(call)
  \/ code \in Unreadable /\ Wanted(call) /\ ~Readable(call)
  \/ code = "invalid_argument" /\ Wanted(call) /\ Readable(call) /\ Said(call) \in {None, ""}

Decided ==
  /\ stage \notin Pending => Deserved
  /\ stage \in {"returned", "read"} => code = "ok"

\* The body of a reply, until the client has read it.
Replied ==
  stage \in {"encoded", "logged", "answered"} /\ code = "ok" =>
    wire = IF call.format = "json" THEN Json(reply) ELSE WriteTo(reply)

\* The interceptor has logged at most once, and not before the reply is encoded.
Logged ==
  /\ stage \in Pending \cup {"returned", "encoded"} => log = <<>>
  /\ log = <<>> \/ log = <<code>>

Printed == text = IF stage = "read" THEN Greeting[Said(call)] ELSE None

IInv == Typed /\ Undecided /\ Understood /\ Decided /\ Replied /\ Logged /\ Printed

-----------------------------------------------------------------------------
(* What a body means, in the two formats. *)

\* A document in JSON: it arrives when it is readable, and its text is the one said.
LEMMA JsonFacts ==
  ASSUME NEW c \in Calls, c.format = "json"
  PROVE  /\ Readable(c) => Said(c) \in Names \cup {None}
         /\ Readable(c) <=> ReadsJson(c.body)
         /\ ReadsJson(c.body) => FromJson(c.body) = [message |-> Said(c), unknown |-> <<>>]
<1> DEFINE ms == MessageMembers(c.body)
           Y == {p \in Members : p.key = "message" /\ p.value \in Names \cup {Null, "number"}}
<1>1. /\ c.body \in Seq(Members)
      /\ \A i \in DOMAIN c.body : c.body[i].key = "message" => c.body[i].value \in Names \cup {Null, "number"}
  BY CallAssumption DEF CallAssumption, WellFormed
<1>2. ms \in Seq(Y)
  BY <1>1, MembersAreNames
<1>3. Carriers(c) = ms
  BY DEF Carriers
<1>4. \A p \in Y : p.value \in Names \cup {Null, "number"}
  OBVIOUS
<1>12. FromJson(c.body) = IF ms = <<>> \/ Head(ms).value = Null THEN Default
                          ELSE WithMessage(Default, Head(ms).value)
  BY Zenon DEF FromJson
<1>13. ReadsJson(c.body) <=>
         Len(ms) <= 1 /\ \A i \in DOMAIN ms : ms[i].value \in Texts \cup {Null}
  BY DEF ReadsJson
<1> HIDE DEF ms, Y
<1>5. \A i \in DOMAIN ms : ms[i].value \in Names \cup {Null, "number"}
  BY <1>2, <1>4
<1>6. /\ Names \subseteq Texts /\ Null \notin Texts /\ "number" \notin Texts
      /\ Null # "number" /\ None \notin Texts /\ None # Null
  <2>1. Names \subseteq Texts
    BY CallAssumption, Zenon DEF CallAssumption
  <2>2. None \notin Texts
    BY CodecAssumption, Zenon DEF CodecAssumption
  <2>3. Null \notin Texts /\ "number" \notin Texts
    BY JsonAssumption DEF JsonAssumption
  <2>4. Null # "number" /\ None # Null
    BY DEF Null, None
  <2> QED BY <2>1, <2>2, <2>3, <2>4
<1>7. Readable(c) <=> ReadsJson(c.body)
  BY <1>3, <1>5, <1>6, <1>13 DEF Readable
<1>8. Default = [message |-> None, unknown |-> <<>>]
  BY DEF Default
<1>9. \A t : WithMessage(Default, t) = [message |-> t, unknown |-> <<>>]
  BY DEF WithMessage, Default
<1>10. CASE ms = <<>>
  <2>1. Said(c) = None
    BY <1>3, <1>10 DEF Said
  <2>2. FromJson(c.body) = Default
    BY <1>10, <1>12
  <2> QED BY <2>1, <2>2, <1>7, <1>8
<1>11. CASE ms # <<>>
  <2>1. Len(ms) \in Nat /\ Len(ms) >= 1 /\ 1 \in DOMAIN ms /\ Len(ms) \in DOMAIN ms
    BY <1>2, <1>11
  <2>2. /\ Last(ms) = ms[Len(ms)] /\ Head(ms) = ms[1]
    BY <1>2, <1>11 DEF Last
  <2>3. Said(c) = IF Last(ms).value = Null THEN None ELSE Last(ms).value
    BY <1>3, <1>11 DEF Said
  <2>4. ReadsJson(c.body) => Len(ms) = 1 /\ ms[1].value # "number"
    <3>1. ReadsJson(c.body) => Len(ms) <= 1 /\ ms[1].value \in Texts \cup {Null}
      BY <2>1, <1>13
    <3>2. ReadsJson(c.body) => Len(ms) = 1
      <4>1. ASSUME NEW n \in Nat, n >= 1, n <= 1 PROVE n = 1
        BY <4>1
      <4> HIDE DEF ms
      <4> QED BY <4>1, <3>1, <2>1
    <3>3. "number" \notin Texts \cup {Null}
      BY <1>6
    <3> QED BY <3>1, <3>2, <3>3
  <2>5. ReadsJson(c.body) => FromJson(c.body) = [message |-> Said(c), unknown |-> <<>>]
    <3>1. CASE ms[1].value = Null
      BY <3>1, <2>2, <2>3, <2>4, <1>8, <1>11, <1>12
    <3>2. CASE ms[1].value # Null
      BY <3>2, <2>2, <2>3, <2>4, <1>9, <1>11, <1>12
    <3> QED BY <3>1, <3>2
  <2>6. ReadsJson(c.body) => Said(c) \in Names \cup {None}
    <3>1. Last(ms).value \in Names \cup {Null, "number"}
      BY <2>1, <2>2, <1>5
    <3>2. ReadsJson(c.body) => Last(ms).value # "number"
      BY <2>1, <2>2, <2>4
    <3> QED BY <3>1, <3>2, <2>3
  <2> QED BY <2>5, <2>6, <1>7
<1> QED BY <1>10, <1>11

\* A binary body: it is readable when a view of it can be decoded and then owned.
LEMMA ProtoFacts ==
  ASSUME NEW c \in Calls, c.format = "proto"
  PROVE  /\ c.body \in Seq(Fields)
         /\ Said(c) \in Names \cup {None}
         /\ Readable(c) <=> Accepts(c.body) /\ Rematerializes(Meaning(c.body))
         /\ Meaning(c.body).message = Said(c)
<1> DEFINE ts == TextsIn(c.body)
           Y == {f \in Fields : f.num = 1 /\ f.text \in Names}
<1>1. /\ c.body \in Seq(Fields)
      /\ \A i \in DOMAIN c.body : c.body[i].num = 1 => c.body[i].text \in Names
  BY CallAssumption DEF CallAssumption, WellFormed
<1>2. ts \in Seq(Y)
  BY <1>1, TextsAreNames
<1>3. Carriers(c) = ts
  BY DEF Carriers
<1>4. Said(c) = IF ts = <<>> THEN None ELSE Last(ts).text
  BY <1>3 DEF Said
<1>5. Meaning(c.body) = [message |-> IF ts = <<>> THEN None ELSE Last(ts).text,
                         unknown |-> UnknownIn(c.body)]
  BY Zenon DEF Meaning
<1>6. Rematerializes(Meaning(c.body)) <=> CountAll(UnknownIn(c.body)) <= UnknownLimit
  BY <1>5 DEF Rematerializes
<1>7. CountAll(UnknownIn(c.body)) <= UnknownLimit => Len(UnknownIn(c.body)) <= UnknownLimit
  BY <1>1, CountsRecords, Limits
<1>8. Readable(c) <=> Accepts(c.body) /\ Rematerializes(Meaning(c.body))
  BY <1>6, <1>7 DEF Readable, Accepts, CanRead
<1>9. \A f \in Y : f.text \in Names
  OBVIOUS
<1> HIDE DEF ts, Y
<1>10. ts # <<>> => Last(ts).text \in Names
  <2>1. ts # <<>> => Last(ts) \in Y
    BY <1>2 DEF Last
  <2> QED BY <2>1, <1>9
<1>11. Said(c) \in Names \cup {None}
  BY <1>4, <1>10
<1> QED BY <1>1, <1>4, <1>5, <1>8, <1>11

\* What arrives, and its text; it is readable when it can also be owned.
LEMMA SentFacts ==
  ASSUME NEW c \in Calls
  PROVE  /\ Readable(c) <=> Arrives(c) /\ Rematerializes(Sent(c))
         /\ Arrives(c) => Sent(c).message = Said(c) /\ Said(c) \in Names \cup {None}
<1>1. CASE c.format = "json"
  <2>1. Sent(c) = FromJson(c.body) /\ (Arrives(c) <=> ReadsJson(c.body))
    BY <1>1 DEF Sent, Arrives
  <2>2. ASSUME Arrives(c) PROVE Sent(c).message = Said(c) /\ Rematerializes(Sent(c))
    <3>1. Sent(c) = [message |-> Said(c), unknown |-> <<>>]
      BY <1>1, <2>1, <2>2, JsonFacts
    <3>2. CountAll(<<>>) <= UnknownLimit
      BY CountsNothing, Limits
    <3> QED BY <3>1, <3>2 DEF Rematerializes
  <2> QED BY <1>1, <2>1, <2>2, JsonFacts
<1>2. CASE c.format = "proto"
  <2>1. Sent(c) = Meaning(c.body) /\ (Arrives(c) <=> Accepts(c.body))
    BY <1>2 DEF Sent, Arrives
  <2> QED BY <1>2, <2>1, ProtoFacts
<1> QED BY <1>1, <1>2, CallAssumption DEF CallAssumption, WellFormed

\* What either dispatcher makes of a body decodes to what was sent.
LEMMA TranscodedIsRead ==
  ASSUME NEW c \in Calls, c.format = "json" => Arrives(c)
  PROVE  /\ DecodeView(Wire(c)).err <=> ~Arrives(c)
         /\ Arrives(c) => DecodeView(Wire(c)).msg = Sent(c)
<1>1. CASE c.format = "json"
  <2>1. /\ Sent(c) = FromJson(c.body) /\ Arrives(c) /\ ReadsJson(c.body)
        /\ Wire(c) = WriteTo(Sent(c))
    BY <1>1 DEF Sent, Arrives, Wire
  <2>2. /\ Sent(c) = [message |-> Said(c), unknown |-> <<>>]
        /\ Said(c) \in Texts \cup {None}
    BY <1>1, <2>1, JsonFacts, CallAssumption DEF CallAssumption
  <2> QED BY <2>1, <2>2, ReadsWritten
<1>2. CASE c.format = "proto"
  <2>1. Sent(c) = Meaning(c.body) /\ (Arrives(c) <=> Accepts(c.body)) /\ Wire(c) = c.body
    BY <1>2 DEF Sent, Arrives, Wire
  <2> QED BY <1>2, <2>1, ProtoFacts, ReadsBuffer
<1> QED BY <1>1, <1>2, CallAssumption DEF CallAssumption, WellFormed

-----------------------------------------------------------------------------
(* The validators. *)

LEMMA Verdicts ==
  ASSUME NEW m, m.message \in Texts \cup {None}
  PROVE  Verdict(RequestViolations(m)) =
           IF m.message \in {None, ""} THEN "invalid_argument" ELSE "ok"
<1>1. None \notin Texts /\ "" \in Texts
  BY CodecAssumption, Zenon DEF CodecAssumption
<1>2. \A v : Contains(<<v>>, "__cel_runtime_error__") <=> v = "__cel_runtime_error__"
  BY DEF Contains
<1>3. ~Contains(<<>>, "__cel_runtime_error__")
  BY DEF Contains
<1>4. RequestViolations(m) =
        IF m.message = None THEN <<"required">>
        ELSE IF m.message = "" THEN <<"string.min_len">> ELSE <<>>
  BY Lengths DEF RequestViolations
<1>5. CASE m.message = None
  BY <1>2, <1>4, <1>5 DEF Verdict
<1>6. CASE m.message # None /\ m.message = ""
  <2>1. RequestViolations(m) = <<"string.min_len">>
    BY <1>4, <1>6, Zenon
  <2>2. ~Contains(RequestViolations(m), "__cel_runtime_error__")
    BY <1>2, <2>1
  <2>3. Verdict(RequestViolations(m)) = "invalid_argument"
    BY <2>1, <2>2 DEF Verdict
  <2> QED BY <2>3, <1>6
<1>7. CASE m.message \notin {None, ""}
  BY <1>3, <1>4, <1>7 DEF Verdict
<1> QED BY <1>5, <1>6, <1>7

\* A message with a text that is not empty satisfies the rules.
LEMMA TextsAreAccepted ==
  ASSUME NEW t \in Texts \ {""} PROVE ResponseAccepted(WithMessage(Default, t))
<1>1. WithMessage(Default, t).message = t /\ t # None
  BY CodecAssumption DEF WithMessage, Default, CodecAssumption
<1> QED BY <1>1, Verdicts DEF ResponseAccepted, ResponseViolations

-----------------------------------------------------------------------------
(* The invariant. *)

LEMMA IInvInit == Init => IInv
<1> SUFFICES ASSUME Init PROVE IInv
  OBVIOUS
<1>1. view.message = None
  BY DEF Init, Default
<1> QED BY <1>1 DEF Init, IInv, Typed, Pending, Undecided, Understood, Decided, Replied, Logged, Printed

\* The router and the monomorphic dispatcher find the same method.
LEMMA Finding == ASSUME NEW c \in Calls, c.kind = "unary" PROVE Finds(c) <=> Wanted(c)
<1>1. c.path \in Methods
  BY CallAssumption DEF CallAssumption, WellFormed
<1> QED BY <1>1 DEF Finds, Wanted, Routes, Lookup, Methods

\* Its second match, after lookup, finds what lookup found.
LEMMA MatchesWanted == ASSUME NEW c \in Calls, Wanted(c) PROVE Matches(c.path)
BY DEF Matches, Wanted

\* An error is decided while the call is pending, and is what the call deserves.
LEMMA Refusing ==
  ASSUME IInv, NEW codes, Refuse(codes), stage \in Pending,
         \A e \in codes : e # "ok",
         \A e \in codes :
           \/ e \in Unreadable /\ Wanted(call) /\ ~Readable(call)
           \/ e = "invalid_argument" /\ Wanted(call) /\ Readable(call) /\ Said(call) \in {None, ""}
  PROVE  IInv'
<1> USE DEF Refuse, Pending
<1>1. Typed'
  BY DEF IInv, Typed
<1>2. Undecided' /\ Understood'
  BY DEF Undecided, Understood
<1>3. Decided'
  BY DEF Decided, Deserved
<1>4. Replied' /\ Logged' /\ Printed'
  BY DEF IInv, Replied, Logged, Printed
<1> QED BY <1>1, <1>2, <1>3, <1>4 DEF IInv

LEMMA Invariance == IInv /\ [Next]_vars => IInv'
<1> SUFFICES ASSUME IInv, [Next]_vars PROVE IInv'
  OBVIOUS
<1>1. ASSUME Route PROVE IInv'
  <2> USE <1>1 DEF Route
  <2>1. Wanted(call)
    BY Finding DEF IInv, Typed
  <2>2. Typed'
    BY DEF IInv, Typed
  <2>3. Undecided' /\ Understood' /\ Decided'
    BY <2>1 DEF IInv, Pending, Undecided, Understood, Decided
  <2>4. Replied' /\ Logged' /\ Printed'
    BY DEF IInv, Pending, Replied, Logged, Printed
  <2> QED BY <2>2, <2>3, <2>4 DEF IInv
<1>2. ASSUME NoMethod \/ CallStreaming PROVE IInv'
  <2>1. Unimplemented /\ stage = "arrived" /\ ~Wanted(call)
    BY <1>2, Finding DEF NoMethod, CallStreaming, IInv, Typed, Wanted
  <2> USE <2>1 DEF Unimplemented
  <2>2. Typed'
    BY DEF IInv, Typed
  <2>3. Undecided' /\ Understood' /\ Decided'
    BY DEF Pending, Undecided, Understood, Decided, Deserved
  <2>4. Replied' /\ Logged' /\ Printed'
    BY DEF IInv, Pending, Replied, Logged, Printed
  <2> QED BY <2>2, <2>3, <2>4 DEF IInv
<1>2a. ASSUME DecodeOwnedView PROVE IInv'
  <2> DEFINE b == IF call.format = "json" THEN WriteTo(FromJson(call.body)) ELSE call.body
  <2>1. /\ call \in Calls /\ stage = "routed" /\ Wanted(call) /\ stage \in Pending
        /\ code = "none" /\ b = Wire(call)
    BY <1>2a, CallAssumption
       DEF DecodeOwnedView, IInv, Typed, Undecided, Pending, Wire, CallAssumption, WellFormed
  <2>2. IF (call.format = "json" /\ ~ReadsJson(call.body)) \/ DecodeView(b).err
        THEN Refuse(Unreadable)
        ELSE /\ stage' = "decoded" /\ bytes' = b /\ view' = DecodeView(b).msg
             /\ UNCHANGED <<call, reply, code, wire, log, text>>
    BY <1>2a, Zenon DEF DecodeOwnedView
  <2> HIDE DEF b
  <2>3. CASE call.format = "json" /\ ~ReadsJson(call.body)
    <3>1. Refuse(Unreadable) /\ ~Readable(call)
      BY <2>1, <2>2, <2>3, JsonFacts
    <3> QED BY <2>1, <3>1, Refusing DEF Unreadable
  <2>4. CASE ~(call.format = "json" /\ ~ReadsJson(call.body)) /\ DecodeView(b).err
    <3>1. Refuse(Unreadable) /\ (call.format = "json" => Arrives(call))
      BY <2>2, <2>4 DEF Arrives
    <3>2. ~Readable(call)
      BY <2>1, <2>4, <3>1, TranscodedIsRead, SentFacts
    <3> QED BY <2>1, <3>1, <3>2, Refusing DEF Unreadable
  <2>5. CASE ~(call.format = "json" /\ ~ReadsJson(call.body)) /\ ~DecodeView(b).err
    <3>1. /\ stage' = "decoded" /\ view' = DecodeView(b).msg
          /\ UNCHANGED <<call, reply, code, wire, log, text>>
          /\ (call.format = "json" => Arrives(call))
      BY <2>2, <2>5 DEF Arrives
    <3>2. Arrives(call) /\ view' = Sent(call)
      BY <2>1, <2>5, <3>1, TranscodedIsRead
    <3>3. Typed'
      BY <2>1, <3>1, <3>2, SentFacts DEF Typed
    <3>4. Undecided' /\ Understood' /\ Decided'
      BY <2>1, <3>1, <3>2 DEF Pending, Undecided, Understood, Decided
    <3>5. Replied' /\ Logged' /\ Printed'
      BY <2>1, <3>1 DEF IInv, Pending, Replied, Logged, Printed
    <3> QED BY <3>3, <3>4, <3>5 DEF IInv
  <2> QED BY <2>3, <2>4, <2>5
<1>3. ASSUME Transcode PROVE IInv'
  <2>1. /\ call \in Calls /\ stage = "routed" /\ Wanted(call) /\ stage \in Pending
        /\ code = "none" /\ Matches(call.path)
    BY <1>3, MatchesWanted DEF Transcode, IInv, Typed, Undecided, Pending
  <2>2. CASE call.format = "json" /\ ~ReadsJson(call.body)
    <3>1. Refuse(Unreadable)
      BY <1>3, <2>1, <2>2 DEF Transcode
    <3>2. ~Readable(call)
      BY <2>1, <2>2, JsonFacts
    <3> QED BY <2>1, <3>1, <3>2, Refusing DEF Unreadable
  <2>3. CASE ~(call.format = "json" /\ ~ReadsJson(call.body))
    <3>1. /\ stage' = "transcoded" /\ bytes' = Wire(call)
          /\ UNCHANGED <<call, view, reply, code, wire, log, text>>
      BY <1>3, <2>1, <2>3 DEF Transcode, Wire
    <3>2. call.format = "json" => Arrives(call)
      BY <2>3 DEF Arrives
    <3>3. Typed'
      BY <3>1 DEF IInv, Typed
    <3>4. Undecided' /\ Understood' /\ Decided'
      BY <2>1, <3>1, <3>2 DEF Pending, Undecided, Understood, Decided
    <3>5. Replied' /\ Logged' /\ Printed'
      BY <2>1, <3>1 DEF IInv, Pending, Replied, Logged, Printed
    <3> QED BY <3>3, <3>4, <3>5 DEF IInv
  <2> QED BY <2>2, <2>3
<1>4. ASSUME DecodeRequest PROVE IInv'
  <2>1. /\ call \in Calls /\ stage = "transcoded" /\ Wanted(call) /\ stage \in Pending
        /\ code = "none" /\ bytes = Wire(call) /\ (call.format = "json" => Arrives(call))
    BY <1>4 DEF DecodeRequest, IInv, Typed, Undecided, Understood, Pending
  <2>2. CASE DecodeView(bytes).err
    <3>1. Refuse(Unreadable)
      BY <1>4, <2>2 DEF DecodeRequest
    <3>2. ~Readable(call)
      BY <2>1, <2>2, TranscodedIsRead, SentFacts
    <3> QED BY <2>1, <3>1, <3>2, Refusing DEF Unreadable
  <2>3. CASE ~DecodeView(bytes).err
    <3>1. /\ stage' = "decoded" /\ view' = DecodeView(bytes).msg
          /\ UNCHANGED <<call, bytes, reply, code, wire, log, text>>
      BY <1>4, <2>3 DEF DecodeRequest
    <3>2. Arrives(call) /\ view' = Sent(call)
      BY <2>1, <2>3, <3>1, TranscodedIsRead
    <3>3. Typed'
      BY <2>1, <3>1, <3>2, SentFacts DEF Typed
    <3>4. Undecided' /\ Understood' /\ Decided'
      BY <2>1, <3>1, <3>2 DEF Pending, Undecided, Understood, Decided
    <3>5. Replied' /\ Logged' /\ Printed'
      BY <2>1, <3>1 DEF IInv, Pending, Replied, Logged, Printed
    <3> QED BY <3>3, <3>4, <3>5 DEF IInv
  <2> QED BY <2>2, <2>3
<1>5. ASSUME Validate PROVE IInv'
  <2>1. /\ call \in Calls /\ stage = "decoded" /\ Wanted(call) /\ stage \in Pending
        /\ code = "none" /\ view = Sent(call) /\ Arrives(call)
    BY <1>5 DEF Validate, IInv, Typed, Undecided, Understood, Pending
  <2>2. /\ Readable(call) <=> Rematerializes(view)
        /\ view.message = Said(call) /\ Said(call) \in Names \cup {None}
    BY <2>1, SentFacts
  <2>3. Verdict(RequestViolations(ToOwned(view))) =
          IF Said(call) \in {None, ""} THEN "invalid_argument" ELSE "ok"
    <3>1. ToOwned(view).message = Said(call)
      BY <2>2 DEF ToOwned
    <3>2. Said(call) \in Texts \cup {None}
      BY <2>2, CallAssumption DEF CallAssumption
    <3> QED BY <3>1, <3>2, Verdicts
  <2>4. CASE ~Rematerializes(view)
    <3>1. Refuse(Unreadable)
      BY <1>5, <2>4 DEF Validate
    <3> QED BY <2>1, <2>2, <2>4, <3>1, Refusing DEF Unreadable
  <2>5. CASE Rematerializes(view) /\ Said(call) \in {None, ""}
    <3>1. Refuse({"invalid_argument"})
      BY <1>5, <2>3, <2>5, ZenonT(40) DEF Validate
    <3> QED BY <2>1, <2>2, <2>5, <3>1, Refusing
  <2>6. CASE Rematerializes(view) /\ Said(call) \notin {None, ""}
    <3>1. /\ stage' = "valid"
          /\ UNCHANGED <<call, bytes, view, reply, code, wire, log, text>>
      BY <1>5, <2>3, <2>6, ZenonT(40) DEF Validate
    <3>2. Served(call)
      BY <2>1, <2>2, <2>6 DEF Served
    <3>3. Typed'
      BY <3>1 DEF IInv, Typed
    <3>4. Undecided' /\ Understood' /\ Decided'
      BY <2>1, <3>1, <3>2 DEF Pending, Undecided, Understood, Decided
    <3>5. Replied' /\ Logged' /\ Printed'
      BY <2>1, <3>1 DEF IInv, Pending, Replied, Logged, Printed
    <3> QED BY <3>3, <3>4, <3>5 DEF IInv
  <2> QED BY <2>4, <2>5, <2>6
<1>6. ASSUME Echo PROVE IInv'
  <2>1. /\ call \in Calls /\ stage = "valid" /\ Served(call) /\ view = Sent(call) /\ Arrives(call)
    BY <1>6 DEF Echo, IInv, Typed, Understood
  <2>2. view.message = Said(call) /\ Said(call) # None
    BY <2>1, SentFacts, CallAssumption, CodecAssumption
       DEF Served, CallAssumption, CodecAssumption
  <2>3. reply' = WithMessage(Default, Greeting[Said(call)])
    BY <1>6, <2>2 DEF Echo
  <2>4. stage' = "returned" /\ code' = "ok" /\ UNCHANGED <<call, bytes, view, wire, log, text>>
    BY <1>6 DEF Echo
  <2>5. Typed'
    BY <2>4 DEF IInv, Typed
  <2>6. Undecided' /\ Understood' /\ Decided'
    BY <2>1, <2>3, <2>4 DEF Pending, Undecided, Understood, Decided, Deserved
  <2>7. Replied' /\ Logged' /\ Printed'
    BY <2>1, <2>4 DEF IInv, Pending, Replied, Logged, Printed
  <2> QED BY <2>5, <2>6, <2>7 DEF IInv
<1>7. ASSUME EncodeReply PROVE IInv'
  <2> USE <1>7 DEF EncodeReply
  <2>1. Typed'
    BY DEF IInv, Typed
  <2>2. Undecided' /\ Understood' /\ Decided'
    BY DEF IInv, Pending, Undecided, Understood, Decided, Deserved
  <2>3. Replied'
    BY DEF Replied
  <2>4. Logged' /\ Printed'
    BY DEF IInv, Pending, Logged, Printed
  <2> QED BY <2>1, <2>2, <2>3, <2>4 DEF IInv
<1>8. ASSUME Log PROVE IInv'
  <2> USE <1>8 DEF Log
  <2>1. Typed'
    BY DEF IInv, Typed
  <2>2. Undecided' /\ Understood' /\ Decided'
    BY DEF IInv, Pending, Undecided, Understood, Decided, Deserved
  <2>3. log' = <<code>>
    BY DEF IInv, Logged
  <2>4. Replied' /\ Logged' /\ Printed'
    BY <2>3 DEF IInv, Pending, Replied, Logged, Printed
  <2> QED BY <2>1, <2>2, <2>4 DEF IInv
<1>9. ASSUME Respond PROVE IInv'
  <2> USE <1>9 DEF Respond
  <2>1. Typed'
    BY DEF IInv, Typed
  <2>2. Undecided' /\ Understood' /\ Decided'
    BY DEF IInv, Pending, Undecided, Understood, Decided, Deserved
  <2>3. Replied' /\ Logged' /\ Printed'
    BY DEF IInv, Pending, Replied, Logged, Printed
  <2> QED BY <2>1, <2>2, <2>3 DEF IInv
<1>10. ASSUME ReadReply PROVE IInv'
  <2>1. /\ stage = "answered" /\ code = "ok" /\ Served(call)
        /\ reply = WithMessage(Default, Greeting[Said(call)])
        /\ wire = IF call.format = "json" THEN Json(reply) ELSE WriteTo(reply)
    BY <1>10 DEF ReadReply, IInv, Decided, Deserved, Replied, Pending, Unreadable
  <2>2. Greeting[Said(call)] \in Texts /\ Greeting[Said(call)] # None
    BY <2>1, CallAssumption, CodecAssumption DEF Served, CallAssumption, CodecAssumption
  <2>3. reply = [message |-> Greeting[Said(call)], unknown |-> <<>>]
    BY <2>1 DEF WithMessage, Default
  <2>4. (IF call.format = "json" THEN FromJson(wire) ELSE DecodeView(wire).msg) = reply
    <3>1. CASE call.format = "json"
      BY <2>1, <2>2, <3>1, JsonIsRead
    <3>2. CASE call.format # "json"
      BY <2>1, <2>2, <2>3, <3>2, ReadsWritten
    <3> QED BY <3>1, <3>2
  <2>5. /\ stage' = "read" /\ UNCHANGED <<call, bytes, view, reply, code, wire, log>>
        /\ text' = IF reply.message = None THEN "" ELSE reply.message
    BY <1>10, <2>4 DEF ReadReply
  <2>6. text' = Greeting[Said(call)]
    BY <2>2, <2>3, <2>5
  <2>7. Typed'
    BY <2>5 DEF IInv, Typed
  <2>8. Undecided' /\ Understood' /\ Decided'
    BY <2>1, <2>5 DEF IInv, Pending, Undecided, Understood, Decided, Deserved
  <2>9. Replied' /\ Logged' /\ Printed'
    BY <2>1, <2>5, <2>6 DEF IInv, Pending, Replied, Logged, Printed
  <2> QED BY <2>7, <2>8, <2>9 DEF IInv
<1>11. CASE UNCHANGED vars
  BY <1>11, ZenonT(40) DEF vars, IInv, Typed, Undecided, Understood, Decided, Deserved, Replied, Logged, Printed
<1> QED
  BY <1>1, <1>2, <1>3, <1>4, <1>5, <1>6, <1>7, <1>8, <1>9, <1>10, <1>11, <1>2a DEF Next

\* Throughout, a call has got as far as its meaning allows, and is answered so.
THEOREM Correct == Spec => []IInv
<1> QED BY IInvInit, Invariance, PTL DEF Spec

-----------------------------------------------------------------------------

\* Each call has its stage, and the interceptor logs it at most once.
THEOREM TypeCorrect == Spec => []TypeOK
<1>1. IInv => TypeOK
  <2> SUFFICES ASSUME IInv PROVE TypeOK
    OBVIOUS
  <2>1. call \in Calls /\ view.message \in Names \cup {None}
    BY DEF IInv, Typed
  <2>2. stage \in {"arrived", "routed", "transcoded", "decoded", "valid", "returned",
                   "encoded", "logged", "answered", "read"}
    BY DEF IInv, Typed
  <2>3. code \in {"none", "ok", "unimplemented"} \cup Unreadable
    BY DEF IInv, Undecided, Decided, Deserved, Unreadable
  <2>4. text \in Texts \cup {None}
    <3>1. CASE stage = "read"
      <4>1. Served(call)
        BY <3>1 DEF IInv, Decided, Deserved, Pending, Unreadable
      <4> QED BY <3>1, <4>1, CallAssumption DEF Served, CallAssumption, IInv, Printed
    <3>2. CASE stage # "read"
      BY <3>2 DEF IInv, Printed
    <3> QED BY <3>1, <3>2
  <2>5. Len(log) <= 1
    <3>1. log = <<>> \/ log = <<code>>
      BY DEF IInv, Logged
    <3>2. CASE log = <<>>
      <4>1. Len(log) = 0
        BY <3>2
      <4> QED BY <4>1
    <3>3. CASE log = <<code>>
      <4>1. Len(log) = 1
        BY <3>3
      <4> QED BY <4>1
    <3> QED BY <3>1, <3>2, <3>3
  <2> QED BY <2>1, <2>2, <2>3, <2>4, <2>5 DEF TypeOK
<1> QED BY <1>1, Correct, PTL

\* What a call is answered depends on what it means, and on neither the dispatcher
\* nor the format; what the client prints is the greeting of the text it said last.
THEOREM AnswersDependOnMeaning == Spec => []AnswersByMeaning
<1>1. IInv => AnswersByMeaning
  <2> SUFFICES ASSUME IInv, stage \in {"answered", "read"} PROVE
        /\ code = "unimplemented" <=> ~Wanted(call)
        /\ Wanted(call) =>
             /\ code = "ok" <=> Readable(call) /\ Said(call) \notin {None, ""}
             /\ Readable(call) /\ code # "ok" => code = "invalid_argument"
        /\ stage = "read" => text = Greeting[Said(call)]
    BY DEF AnswersByMeaning
  <2>1. Deserved
    BY DEF IInv, Decided, Pending
  <2>2. None \notin Names
    BY CallAssumption, CodecAssumption, Zenon DEF CallAssumption, CodecAssumption
  <2>3. code = "unimplemented" <=> ~Wanted(call)
    BY <2>1 DEF Deserved, Served, Unreadable
  <2>4. Wanted(call) => (code = "ok" <=> Readable(call) /\ Said(call) \notin {None, ""})
    BY <2>1, <2>2 DEF Deserved, Served, Unreadable
  <2>5. Wanted(call) /\ Readable(call) /\ code # "ok" => code = "invalid_argument"
    BY <2>1 DEF Deserved
  <2>6. stage = "read" => text = Greeting[Said(call)]
    BY DEF IInv, Printed
  <2> QED BY <2>3, <2>4, <2>5, <2>6
<1> QED BY <1>1, Correct, PTL

\* The handler returns, and the client reads, only what the rules of the response
\* accept, although the server does not validate its responses.
THEOREM RepliesAreAccepted == Spec => []RepliesSatisfyRules
<1>1. IInv => RepliesSatisfyRules
  <2> SUFFICES ASSUME IInv PROVE RepliesSatisfyRules
    OBVIOUS
  <2>1. Served(call) => Greeting[Said(call)] \in Texts \ {""}
    BY CallAssumption DEF Served, CallAssumption
  <2>2. code = "ok" => Served(call) /\ reply = WithMessage(Default, Greeting[Said(call)])
    BY DEF IInv, Undecided, Decided, Deserved, Unreadable
  <2>3. stage = "read" => code = "ok" /\ text = Greeting[Said(call)]
    BY DEF IInv, Decided, Printed
  <2> QED BY <2>1, <2>2, <2>3, TextsAreAccepted DEF RepliesSatisfyRules
<1> QED BY <1>1, Correct, PTL
-----------------------------------------------------------------------------
(* The steps of EchoServer that a call c takes, from what becomes of Mapped,   *)
(* the code, the greeting and the log.                                         *)

LEMMA OneUpdate ==
  ASSUME NEW c, NEW u, NEW v
  PROVE  [[r \in {c} |-> u] EXCEPT ![c] = v] = [r \in {c} |-> v]
OBVIOUS

LEMMA RoutedStep ==
  ASSUME NEW c, Wanted(c), Mapped = "arrived", Mapped' = "routed",
         UNCHANGED <<code, Greeted, log>>
  PROVE  Server(c)!Routed(c)
BY OneUpdate DEF Server!Routed, Server!Intercepted, Server!Decodes

LEMMA BypassStep ==
  ASSUME NEW c, ~Wanted(c), Mapped = "arrived", Mapped' = "answered",
         code # "ok", code' = "unimplemented", Greeted' = <<>>, log' = log
  PROVE  Server(c)!Bypass(c)
BY OneUpdate
   DEF Server!Bypass, Server!Bypassed, Server!Intercepted, Server!Answer, Server!NoBody

LEMMA RefuseStep ==
  ASSUME NEW c, Wanted(c), Mapped = "routed", Mapped' = "returned",
         code # "ok", Greeted' = <<>>, log' = log,
         \/ Class(c) = "garbled" /\ code' \in Unreadable
         \/ Class(c) \in {"absent", "empty"} /\ code' = "invalid_argument"
  PROVE  Server(c)!Validate(c)
BY OneUpdate, ZenonT(40)
   DEF Server!Validate, Server!Decodes, Server!Satisfies, Server!Refused, Server!Answer,
       Server!NoBody, Server!Codes, Unreadable

LEMMA ValidStep ==
  ASSUME NEW c, Wanted(c), Class(c) = "Jane", Mapped = "routed", Mapped' = "valid",
         UNCHANGED <<code, Greeted, log>>
  PROVE  Server(c)!Validate(c)
BY OneUpdate DEF Server!Validate, Server!Decodes, Server!Satisfies

LEMMA EchoStep ==
  ASSUME NEW c, Class(c) = "Jane", Mapped = "valid", Mapped' = "returned",
         code # "ok", code' = "ok", Greeted' = <<"Hello", "Jane">>, log' = log
  PROVE  Server(c)!Echo(c)
<1>1. [r \in {c} |-> IF code' = "ok" THEN 1 ELSE 0] =
        [[r \in {c} |-> IF code = "ok" THEN 1 ELSE 0] EXCEPT ![c] = @ + 1]
  OBVIOUS
<1> QED BY <1>1, OneUpdate, ZenonT(40) DEF Server!Echo, Server!Answer, Server!Hello

LEMMA LogStep ==
  ASSUME NEW c, Mapped = "returned", Mapped' = "logged",
         UNCHANGED <<code, Greeted>>, log' = Append(log, code)
  PROVE  Server(c)!Log(c)
BY OneUpdate DEF Server!Log, Server!Logs

LEMMA RespondStep ==
  ASSUME NEW c, Mapped = "logged", Mapped' = "answered", UNCHANGED <<code, Greeted, log>>
  PROVE  Server(c)!Respond(c)
BY OneUpdate DEF Server!Respond

LEMMA Classes ==
  ASSUME NEW c
  PROVE  /\ ~Readable(c) => Class(c) = "garbled"
         /\ Readable(c) /\ Said(c) \in {None, ""} => Class(c) \in {"absent", "empty"}
         /\ Served(c) => Class(c) = "Jane"
<1>1. ~Readable(c) => Class(c) = "garbled"
  BY Zenon DEF Class
<1>2. Readable(c) /\ Said(c) \in {None, ""} => Class(c) \in {"absent", "empty"}
  BY Zenon DEF Class
<1>3. Served(c) => Said(c) # None /\ Said(c) # ""
  BY CallAssumption, CodecAssumption, Zenon DEF Served, CallAssumption, CodecAssumption
<1>4. Readable(c) /\ Said(c) # None /\ Said(c) # "" => Class(c) = "Jane"
  BY Zenon DEF Class
<1>5. Served(c) => Readable(c)
  BY DEF Served
<1> QED BY <1>1, <1>2, <1>3, <1>4, <1>5

\* Only a text that is not empty is greeted, and not as the empty one would be.
LEMMA GreetedFacts ==
  /\ code # "ok" => Greeted = <<>>
  /\ IInv /\ code = "ok" => Greeted = <<"Hello", "Jane">>
<1>1. code # "ok" => Greeted = <<>>
  BY Zenon DEF Greeted
<1>2. ASSUME IInv, code = "ok" PROVE Greeted = <<"Hello", "Jane">>
  <2>1. /\ Said(call) \in Names \ {""}
        /\ reply = WithMessage(Default, Greeting[Said(call)])
    BY <1>2 DEF IInv, Undecided, Decided, Deserved, Unreadable, Served
  <2>2. WithMessage(Default, Greeting[Said(call)]).message = Greeting[Said(call)]
    BY DEF WithMessage, Default
  <2>3. Greeting[Said(call)] # Greeting[""]
    BY <2>1, CallAssumption, Zenon DEF CallAssumption
  <2>4. reply.message # Greeting[""]
    BY <2>1, <2>2, <2>3, Zenon
  <2> QED BY <1>2, <2>4, Zenon DEF Greeted
<1> QED BY <1>1, <1>2

LEMMA GreetedNext == (IInv /\ code = "ok" => Greeted = <<"Hello", "Jane">>)'
BY GreetedFacts, PTL

LEMMA NotGreetedNext == (code # "ok" => Greeted = <<>>)'
BY GreetedFacts, PTL

\* What is greeted changes with the code only.
LEMMA GreetedWithCode == ASSUME IInv, IInv' PROVE code' = code => Greeted' = Greeted
BY GreetedFacts, GreetedNext, NotGreetedNext

\* An error is what EchoServer's validation answers, whatever has found it.
LEMMA RefusedStep ==
  ASSUME IInv, IInv', NEW c, c = call, NEW codes, Refuse(codes), \A e \in codes : e # "ok",
         stage \in {"routed", "transcoded", "decoded"}
  PROVE  Server(c)!Validate(c)
<1>1. Wanted(c) /\ code = "none"
  BY DEF IInv, Undecided, Pending
<1>2. Mapped = "routed" /\ Mapped' = "returned" /\ code' # "ok" /\ log' = log /\ call' = call
  BY DEF Refuse, Mapped
<1>3. stage' = "encoded"
  BY DEF Refuse
<1>4. Deserved'
  BY <1>3 DEF IInv, Decided, Pending
<1>5. \/ ~Readable(c) /\ code' \in Unreadable
      \/ Readable(c) /\ Said(c) \in {None, ""} /\ code' = "invalid_argument"
  <2>1. Wanted(call)
    BY <1>1
  <2> QED BY <1>2, <1>4, <2>1, Zenon DEF Deserved
<1>6. \/ Class(c) = "garbled" /\ code' \in Unreadable
      \/ Class(c) \in {"absent", "empty"} /\ code' = "invalid_argument"
  BY <1>5, Classes, Zenon
<1>7. Greeted' = <<>>
  BY <1>2, NotGreetedNext
<1> QED BY <1>1, <1>2, <1>6, <1>7, RefuseStep

\* Every step of a call is a step of EchoServer for it, or one that it does not see.
LEMMA Steps ==
  ASSUME IInv, IInv', [Next]_vars, NEW c, c = call
  PROVE  Server(c)!Serve(c) \/ UNCHANGED <<Mapped, code, Greeted, log>>
<1>1. /\ stage \in Pending => code = "none"
      /\ stage \in Pending \ {"arrived"} => Wanted(c)
      /\ stage = "valid" => Served(c)
  BY DEF IInv, Undecided, Understood, Pending
<1>2. code' = code => Greeted' = Greeted
  BY GreetedWithCode
<1>3. ASSUME Route PROVE Server(c)!Routed(c)
  <2>1. Mapped = "arrived" /\ Mapped' = "routed" /\ UNCHANGED <<code, log>>
    BY <1>3 DEF Route, Mapped
  <2>2. Finds(c) /\ c \in Calls /\ c.kind = "unary"
    BY <1>3 DEF Route, IInv, Typed
  <2> QED BY <2>1, <2>2, <1>2, Finding, RoutedStep
<1>4. ASSUME NoMethod \/ CallStreaming PROVE Server(c)!Bypass(c)
  <2>1. Unimplemented /\ stage = "arrived" /\ ~Wanted(c)
    BY <1>4, Finding DEF NoMethod, CallStreaming, IInv, Typed, Wanted
  <2>2. /\ Mapped = "arrived" /\ Mapped' = "answered" /\ log' = log
        /\ code = "none" /\ code' = "unimplemented"
    BY <2>1, <1>1 DEF Unimplemented, Mapped, Pending
  <2> QED BY <2>1, <2>2, NotGreetedNext, BypassStep
<1>5. ASSUME Transcode PROVE Server(c)!Validate(c) \/ UNCHANGED <<Mapped, code, Greeted, log>>
  <2>1. CASE Refuse(Unreadable)
    BY <1>5, <2>1, RefusedStep DEF Transcode, Unreadable
  <2>2. CASE stage' = "transcoded" /\ UNCHANGED <<code, log>>
    BY <1>5, <2>2, <1>2 DEF Transcode, Mapped
  <2>3. Matches(call.path)
    BY <1>1, <1>5, MatchesWanted DEF Transcode, Pending, IInv, Typed
  <2> QED BY <1>5, <2>1, <2>2, <2>3 DEF Transcode
<1>4a. ASSUME DecodeOwnedView
       PROVE  Server(c)!Validate(c) \/ UNCHANGED <<Mapped, code, Greeted, log>>
  <2>1. CASE Refuse(Unreadable)
    BY <1>4a, <2>1, RefusedStep DEF DecodeOwnedView, Unreadable
  <2>2. CASE stage' = "decoded" /\ UNCHANGED <<code, log>>
    BY <1>4a, <2>2, <1>2 DEF DecodeOwnedView, Mapped
  <2> QED BY <1>4a, <2>1, <2>2 DEF DecodeOwnedView
<1>6. ASSUME DecodeRequest PROVE Server(c)!Validate(c) \/ UNCHANGED <<Mapped, code, Greeted, log>>
  <2>1. CASE Refuse(Unreadable)
    BY <1>6, <2>1, RefusedStep DEF DecodeRequest, Unreadable
  <2>2. CASE stage' = "decoded" /\ UNCHANGED <<code, log>>
    BY <1>6, <2>2, <1>2 DEF DecodeRequest, Mapped
  <2> QED BY <1>6, <2>1, <2>2 DEF DecodeRequest
<1>7. ASSUME Validate PROVE Server(c)!Validate(c)
  <2>1. CASE \E codes : Refuse(codes) /\ \A e \in codes : e # "ok"
    BY <1>7, <2>1, RefusedStep DEF Validate
  <2>2. CASE stage' = "valid" /\ UNCHANGED <<call, code, log>>
    <3>1. Mapped = "routed" /\ Mapped' = "valid" /\ Wanted(c)
      BY <1>1, <1>7, <2>2 DEF Validate, Mapped, Pending
    <3>2. Served(c)
      BY <2>2 DEF IInv, Understood
    <3> QED BY <2>2, <3>1, <3>2, <1>2, Classes, ValidStep
  <2>3. \/ \E codes : Refuse(codes) /\ \A e \in codes : e # "ok"
        \/ stage' = "valid" /\ UNCHANGED <<call, code, log>>
    <3>1. \A e \in Unreadable : e # "ok"
      BY DEF Unreadable
    <3>2. CASE ~Rematerializes(view)
      BY <1>7, <3>1, <3>2 DEF Validate
    <3>3. CASE Rematerializes(view)
      <4> DEFINE verdict == Verdict(RequestViolations(ToOwned(view)))
      <4> HIDE DEF verdict
      <4>1. IF verdict # "ok" THEN Refuse({verdict})
            ELSE stage' = "valid" /\ UNCHANGED <<call, code, log>>
        BY <1>7, <3>3 DEF Validate, verdict
      <4>2. CASE verdict # "ok"
        <5>1. Refuse({verdict}) /\ \A e \in {verdict} : e # "ok"
          BY <4>1, <4>2
        <5> QED BY <5>1
      <4>3. CASE verdict = "ok"
        BY <4>1, <4>3
      <4> QED BY <4>2, <4>3
    <3> QED BY <3>2, <3>3
  <2> QED BY <2>1, <2>2, <2>3
<1>8. ASSUME Echo PROVE Server(c)!Echo(c)
  <2>1. /\ Mapped = "valid" /\ Mapped' = "returned" /\ log' = log
        /\ code = "none" /\ code' = "ok" /\ Served(c)
    BY <1>1, <1>8 DEF Echo, Mapped, Pending
  <2>2. Class(c) = "Jane" /\ Greeted' = <<"Hello", "Jane">>
    BY <2>1, Classes, GreetedNext
  <2> QED BY <2>1, <2>2, EchoStep
<1>9. ASSUME EncodeReply \/ ReadReply PROVE UNCHANGED <<Mapped, code, Greeted, log>>
  <2>1. UNCHANGED <<Mapped, code, log>>
    BY <1>9 DEF EncodeReply, ReadReply, Mapped
  <2> QED BY <2>1, <1>2
<1>10. ASSUME Log PROVE Server(c)!Log(c)
  <2>1. /\ Mapped = "returned" /\ Mapped' = "logged" /\ code' = code
        /\ log' = Append(log, code)
    BY <1>10 DEF Log, Mapped
  <2> QED BY <2>1, <1>2, LogStep
<1>11. ASSUME Respond PROVE Server(c)!Respond(c)
  <2>1. Mapped = "logged" /\ Mapped' = "answered" /\ UNCHANGED <<code, log>>
    BY <1>11 DEF Respond, Mapped
  <2> QED BY <2>1, <1>2, RespondStep
<1>12. CASE UNCHANGED vars
  <2>1. UNCHANGED <<Mapped, code, log>>
    BY <1>12 DEF vars, Mapped
  <2> QED BY <2>1, <1>2
<1> QED
  BY <1>3, <1>4, <1>5, <1>6, <1>7, <1>8, <1>9, <1>10, <1>11, <1>12, <1>4a
     DEF Next, Server!Serve

\* What the Rust programs do with the data of a call, whatever it is, is what EchoServer
\* says that its Rust process does with a request of the same class.
THEOREM CallIsServed == Spec => StepsOfEchoServer
<1>1. ASSUME IInv, IInv', [Next]_vars
      PROVE  [\A c \in {call} : Server(c)!Next]_<<Mapped, code, Greeted, log>>
  <2> SUFFICES ASSUME ~ UNCHANGED <<Mapped, code, Greeted, log>>, NEW c \in {call}
               PROVE  Server(c)!Next
    OBVIOUS
  <2>1. Server(c)!Serve(c)
    BY <1>1, Steps
  <2> QED BY <2>1 DEF Server!Next
<1> QED BY <1>1, Correct, PTL DEF Spec, StepsOfEchoServer

=============================================================================
