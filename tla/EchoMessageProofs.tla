------------------------- MODULE EchoMessageProofs --------------------------
(***************************************************************************)
(* Theorems about EchoCodec and EchoMessage, for any texts, any limit and  *)
(* buffers of any length.  The first part are facts about the codec alone: *)
(* its sums and filters are folds, which SequenceFolds takes apart.        *)
(***************************************************************************)
EXTENDS EchoMessage, MessageHandles, SequenceTheorems, TLAPS

UnknownFields == {f \in Fields : f.num # 1}
Messages == [message : Texts \cup {None}, unknown : Seq(UnknownFields)]
Decodes == [msg : Messages, left : 0..UnknownLimit, err : BOOLEAN]

C == INSTANCE SequenceFolds WITH
  Join <- LAMBDA a, b : a + b, Weight <- Count, Unit <- 0

W == INSTANCE SequenceFolds WITH
  Join <- LAMBDA a, b : a + b, Weight <- FieldLen, Unit <- 0

T == INSTANCE SequenceFolds WITH
  Join   <- LAMBDA a, b : a \o b,
  Weight <- LAMBDA f : IF f.num = 1 THEN <<f>> ELSE <<>>,
  Unit   <- <<>>

U == INSTANCE SequenceFolds WITH
  Join   <- LAMBDA a, b : a \o b,
  Weight <- LAMBDA f : IF f.num # 1 THEN <<f>> ELSE <<>>,
  Unit   <- <<>>

-----------------------------------------------------------------------------
(* Sums and filters as folds. *)

LEMMA CountIsFold == \A fs : CountAll(fs) = C!Fold(fs)
BY DEF CountAll, C!Fold, FoldLeft, C!FoldLeft, MapThenFoldSet, C!MapThenFoldSet, Max, C!Max

LEMMA LenIsFold == \A fs : WrittenLen(fs) = W!Fold(fs)
BY DEF WrittenLen, W!Fold, FoldLeft, W!FoldLeft, MapThenFoldSet, W!MapThenFoldSet, Max, W!Max

LEMMA TextsAreFold == \A fs : TextsIn(fs) = T!Fold(fs)
BY DEF TextsIn, Keep, T!Fold, FoldLeft, T!FoldLeft, MapThenFoldSet, T!MapThenFoldSet, Max, T!Max

LEMMA UnknownIsFold == \A fs : UnknownIn(fs) = U!Fold(fs)
BY DEF UnknownIn, Keep, U!Fold, FoldLeft, U!FoldLeft, MapThenFoldSet, U!MapThenFoldSet, Max, U!Max

\* The parts of a field.
LEMMA FieldFacts ==
  ASSUME NEW f \in Fields
  PROVE  /\ f.num \in {1, 2} /\ f.wire \in WireTypes /\ f.inner \in Nat /\ f.pad \in Nat
         /\ f.good \in BOOLEAN /\ f.text \in Texts
         /\ Shortest(f) \in Fields /\ Shortest(f).num = f.num
         /\ Count(f) \in Nat /\ Count(f) >= 1 /\ Count(Shortest(f)) = Count(f)
BY DEF Fields, Shortest, Count

LEMMA ShortestFacts ==
  ASSUME NEW f \in Fields
  PROVE  Shortest(Shortest(f)) = Shortest(f) /\ Shortest(f).good = f.good
<1>1. Shortest(f) = [f EXCEPT !.pad = 0]
  BY DEF Shortest
<1>2. DOMAIN f = {"num", "wire", "inner", "pad", "good", "text"}
  BY DEF Fields
<1>3. Shortest(f).good = f.good
  BY <1>1, <1>2
<1>4. Shortest(Shortest(f)) = [[f EXCEPT !.pad = 0] EXCEPT !.pad = 0]
  BY DEF Shortest
<1> QED BY <1>1, <1>3, <1>4

LEMMA TextFieldFacts ==
  ASSUME NEW t \in Texts
  PROVE  TextField(t) \in Fields /\ TextField(t).num = 1 /\ TextField(t).text = t
BY DEF TextField, Fields, WireTypes

LEMMA StringLenType == ASSUME NEW t \in Texts PROVE StringLen(t) \in Nat
<1>1. TextLen[t] \in Nat
  BY CodecAssumption DEF CodecAssumption
<1>2. \A n \in Nat : VarintLen(n) \in {1, 2, 3}
  BY DEF VarintLen
<1> HIDE DEF VarintLen
<1> QED BY <1>1, <1>2 DEF StringLen

LEMMA LenType == ASSUME NEW f \in Fields PROVE FieldLen(f) \in Nat
<1>1. StringLen(f.text) \in Nat
  BY FieldFacts, StringLenType
<1> QED BY <1>1, FieldFacts DEF FieldLen, WireTypes

LEMMA TextsNotNone == \A t \in Texts : t # None
BY Zenon, CodecAssumption DEF CodecAssumption

LEMMA UnknownAreFields == \A fs \in Seq(UnknownFields) : fs \in Seq(Fields)
BY SeqMonotonic DEF UnknownFields

-----------------------------------------------------------------------------
(* Counting unknown fields. *)

LEMMA CountEmpty == CountAll(<<>>) = 0
BY CountIsFold, C!FoldEmpty

LEMMA CountAppend ==
  ASSUME NEW fs \in Seq(Fields), NEW f \in Fields
  PROVE  CountAll(Append(fs, f)) = CountAll(fs) + Count(f)
BY CountIsFold, C!FoldAppend

\* Every field counts for one at least.
LEMMA CountAtLeast ==
  ASSUME NEW fs \in Seq(Fields)
  PROVE  CountAll(fs) \in Nat /\ Len(fs) <= CountAll(fs)
<1> DEFINE S == {gs \in Seq(Fields) : CountAll(gs) \in Nat /\ Len(gs) <= CountAll(gs)}
<1>1. <<>> \in S
  BY CountEmpty, EmptySeq
<1>2. ASSUME NEW gs \in S, NEW f \in Fields PROVE Append(gs, f) \in S
  <2>1. gs \in Seq(Fields) /\ Append(gs, f) \in Seq(Fields) /\ Len(Append(gs, f)) = Len(gs) + 1
    BY AppendProperties
  <2>2. CountAll(Append(gs, f)) = CountAll(gs) + Count(f)
    BY <2>1, CountAppend
  <2>3. Len(gs) \in Nat
    BY <2>1, LenProperties
  <2> QED BY <2>1, <2>2, <2>3, FieldFacts
<1>3. S = Seq(Fields)
  <2>1. S \in SUBSET Seq(Fields)
    OBVIOUS
  <2> HIDE DEF S
  <2> QED BY <1>1, <1>2, <2>1, C!SeqInduct
<1> QED BY <1>3

-----------------------------------------------------------------------------
(* The size of what is written. *)

LEMMA LenEmpty == WrittenLen(<<>>) = 0
BY LenIsFold, W!FoldEmpty

LEMMA LenConcat ==
  ASSUME NEW fs \in Seq(Fields), NEW gs \in Seq(Fields)
  PROVE  WrittenLen(fs \o gs) = WrittenLen(fs) + WrittenLen(gs)
<1>1. W!Associates(Nat)
  BY DEF W!Associates
<1>2. \A f \in Fields : FieldLen(f) \in Nat
  BY LenType
<1> QED BY <1>1, <1>2, W!FoldConcat, LenIsFold

LEMMA LenNat == ASSUME NEW fs \in Seq(Fields) PROVE WrittenLen(fs) \in Nat
<1>1. \A a \in Nat, f \in Fields : a + FieldLen(f) \in Nat
  BY LenType
<1> QED BY <1>1, W!FoldType, LenIsFold

LEMMA LenOne == ASSUME NEW f \in Fields PROVE WrittenLen(<<f>>) = FieldLen(f)
BY LenType, W!FoldOne, LenIsFold

\* Both passes of the encoder agree on the size.
LEMMA SizeLemma == ASSUME NEW m \in Messages PROVE ComputeSize(m) = WrittenLen(WriteTo(m))
<1>1. m.message \in Texts \cup {None} /\ m.unknown \in Seq(Fields)
  BY UnknownAreFields DEF Messages
<1>2. CASE m.message = None
  <2>1. WriteTo(m) = m.unknown
    BY <1>1, <1>2, ConcatEmptySeq DEF WriteTo
  <2> QED BY <1>1, <1>2, <2>1, LenNat DEF ComputeSize
<1>3. CASE m.message # None
  <2>1. m.message \in Texts
    BY <1>1, <1>3
  <2> DEFINE f == TextField(m.message)
  <2>2. f \in Fields /\ <<f>> \in Seq(Fields)
    BY <2>1, TextFieldFacts
  <2>3. WrittenLen(<<f>> \o m.unknown) = FieldLen(f) + WrittenLen(m.unknown)
    BY <1>1, <2>2, LenConcat, LenOne
  <2>4. StringLen(m.message) \in Nat
    BY <2>1, StringLenType
  <2>5. FieldLen(f) = 1 + StringLen(m.message)
    BY <2>4 DEF FieldLen, TextField
  <2> QED BY <1>3, <2>3, <2>5 DEF ComputeSize, WriteTo
<1> QED BY <1>2, <1>3

-----------------------------------------------------------------------------
(* What fields mean. *)

LEMMA SeqFacts ==
  ASSUME NEW S
  PROVE  /\ <<>> \in Seq(S)
         /\ \A a, b \in Seq(S) : a \o b \in Seq(S)
         /\ \A a \in Seq(S) : a \o <<>> = a /\ <<>> \o a = a
         /\ \A a, b, c \in Seq(S) : (a \o b) \o c = a \o (b \o c)
BY ConcatProperties, ConcatEmptySeq, ConcatAssociative, EmptySeq

\* The texts keep what holds of all fields.
LEMMA TextsWithin ==
  ASSUME NEW X \in SUBSET Fields, NEW fs \in Seq(X)
  PROVE  TextsIn(fs) \in Seq({f \in X : f.num = 1})
<1> DEFINE Y == {f \in X : f.num = 1}
<1>1. \A f \in X : (IF f.num = 1 THEN <<f>> ELSE <<>>) \in Seq(Y)
  <2> SUFFICES ASSUME NEW f \in X PROVE (IF f.num = 1 THEN <<f>> ELSE <<>>) \in Seq(Y)
    OBVIOUS
  <2>1. CASE f.num = 1
    <3>1. f \in Y
      BY <2>1
    <3> HIDE DEF Y
    <3>2. <<f>> \in Seq(Y)
      BY <3>1
    <3> QED BY <2>1, <3>2
  <2>2. CASE f.num # 1
    BY <2>2, EmptySeq
  <2> QED BY <2>1, <2>2
<1> DEFINE V == Seq(Y)
<1>2. <<>> \in V /\ \A p, q \in V : p \o q \in V
  <2> HIDE DEF Y
  <2> QED BY SeqFacts
<1> HIDE DEF V
<1>3. T!Fold(fs) \in V
  BY <1>1, <1>2, T!FoldType DEF V
<1> QED BY <1>3, TextsAreFold DEF V

LEMMA TextsType == ASSUME NEW fs \in Seq(Fields) PROVE TextsIn(fs) \in Seq(Fields)
<1>1. TextsIn(fs) \in Seq({f \in Fields : f.num = 1})
  BY TextsWithin
<1>2. {f \in Fields : f.num = 1} \subseteq Fields
  OBVIOUS
<1> QED BY <1>1, <1>2, SeqMonotonic

LEMMA UnknownType == ASSUME NEW fs \in Seq(Fields) PROVE UnknownIn(fs) \in Seq(UnknownFields)
<1> DEFINE V == Seq(UnknownFields)
<1>1. ASSUME NEW f \in Fields PROVE (IF f.num # 1 THEN <<f>> ELSE <<>>) \in V
  <2>1. CASE f.num # 1
    <3>1. f \in UnknownFields
      BY <2>1 DEF UnknownFields
    <3> QED BY <2>1, <3>1
  <2>2. CASE f.num = 1
    BY <2>2
  <2> QED BY <2>1, <2>2
<1>2. <<>> \in V /\ \A a, b \in V : a \o b \in V
  BY SeqFacts
<1> HIDE DEF V
<1>3. \A a \in V, f \in Fields : a \o (IF f.num # 1 THEN <<f>> ELSE <<>>) \in V
  BY <1>1, <1>2
<1>4. \A gs \in Seq(Fields) : U!Fold(gs) \in V
  BY <1>2, <1>3, U!FoldType
<1> QED BY <1>4, UnknownIsFold DEF V

LEMMA FiltersConcat ==
  ASSUME NEW fs \in Seq(Fields), NEW gs \in Seq(Fields)
  PROVE  /\ TextsIn(fs \o gs) = TextsIn(fs) \o TextsIn(gs)
         /\ UnknownIn(fs \o gs) = UnknownIn(fs) \o UnknownIn(gs)
<1> DEFINE V == Seq(Fields)
<1>1. T!Associates(V) /\ U!Associates(V)
  BY SeqFacts DEF T!Associates, U!Associates
<1>2. /\ \A f \in Fields : (IF f.num = 1 THEN <<f>> ELSE <<>>) \in V
      /\ \A f \in Fields : (IF f.num # 1 THEN <<f>> ELSE <<>>) \in V
  OBVIOUS
<1> HIDE DEF V
<1>3. \A r, s \in Seq(Fields) : T!Fold(r \o s) = T!Fold(r) \o T!Fold(s)
  BY <1>1, <1>2, T!FoldConcat
<1>4. \A r, s \in Seq(Fields) : U!Fold(r \o s) = U!Fold(r) \o U!Fold(s)
  BY <1>1, <1>2, U!FoldConcat
<1> QED BY <1>3, <1>4, TextsAreFold, UnknownIsFold

\* One field.
LEMMA FiltersOne ==
  ASSUME NEW f \in Fields
  PROVE  /\ f.num = 1 => TextsIn(<<f>>) = <<f>> /\ UnknownIn(<<f>>) = <<>>
         /\ f.num # 1 => TextsIn(<<f>>) = <<>> /\ UnknownIn(<<f>>) = <<f>>
<1>1. /\ TextsIn(<<f>>) = <<>> \o (IF f.num = 1 THEN <<f>> ELSE <<>>)
      /\ UnknownIn(<<f>>) = <<>> \o (IF f.num # 1 THEN <<f>> ELSE <<>>)
  BY T!FoldOne, U!FoldOne, TextsAreFold, UnknownIsFold
<1>2. <<>> \in Seq(Fields) /\ <<f>> \in Seq(Fields)
  OBVIOUS
<1> QED BY <1>1, <1>2, SeqFacts

\* One field more.
LEMMA FiltersAppend ==
  ASSUME NEW fs \in Seq(Fields), NEW f \in Fields
  PROVE  /\ f.num = 1 => /\ TextsIn(Append(fs, f)) = Append(TextsIn(fs), f)
                         /\ UnknownIn(Append(fs, f)) = UnknownIn(fs)
         /\ f.num # 1 => /\ TextsIn(Append(fs, f)) = TextsIn(fs)
                         /\ UnknownIn(Append(fs, f)) = Append(UnknownIn(fs), f)
<1>1. Append(fs, f) = fs \o <<f>> /\ <<f>> \in Seq(Fields)
  BY AppendIsConcat
<1>2. /\ TextsIn(Append(fs, f)) = TextsIn(fs) \o TextsIn(<<f>>)
      /\ UnknownIn(Append(fs, f)) = UnknownIn(fs) \o UnknownIn(<<f>>)
  BY <1>1, FiltersConcat
<1>3. TextsIn(fs) \in Seq(Fields) /\ UnknownIn(fs) \in Seq(Fields)
  BY TextsType, UnknownType, UnknownAreFields
<1>4. /\ Append(TextsIn(fs), f) = TextsIn(fs) \o <<f>>
      /\ Append(UnknownIn(fs), f) = UnknownIn(fs) \o <<f>>
  BY <1>3, AppendIsConcat
<1> QED BY <1>2, <1>3, <1>4, FiltersOne, SeqFacts

LEMMA MeaningEmpty == Meaning(<<>>) = Default
<1>1. TextsIn(<<>>) = <<>> /\ UnknownIn(<<>>) = <<>>
  BY TextsAreFold, UnknownIsFold, T!FoldEmpty, U!FoldEmpty
<1> QED BY <1>1 DEF Meaning, Default

\* The parts of a message.
LEMMA MessageFacts ==
  ASSUME NEW m \in Messages
  PROVE  /\ m = [message |-> m.message, unknown |-> m.unknown]
         /\ m.message \in Texts \cup {None}
         /\ m.unknown \in Seq(UnknownFields) /\ m.unknown \in Seq(Fields)
         /\ Len(m.unknown) \in Nat /\ CountAll(m.unknown) \in Nat
         /\ Len(m.unknown) <= CountAll(m.unknown)
<1>1. m = [message |-> m.message, unknown |-> m.unknown] /\ m.message \in Texts \cup {None}
  BY DEF Messages
<1>2. m.unknown \in Seq(UnknownFields)
  BY DEF Messages
<1>3. m.unknown \in Seq(Fields)
  BY <1>2, UnknownAreFields
<1> QED BY <1>1, <1>2, <1>3, LenProperties, CountAtLeast

\* A text replaces the text.
LEMMA WithMessageFacts ==
  ASSUME NEW m \in Messages, NEW t \in Texts
  PROVE  /\ WithMessage(m, t) = [message |-> t, unknown |-> m.unknown]
         /\ WithMessage(m, t) \in Messages /\ WithMessage(m, t).unknown = m.unknown
<1>1. WithMessage(m, t) = [message |-> t, unknown |-> m.unknown]
  BY MessageFacts DEF WithMessage
<1> QED BY <1>1, MessageFacts DEF Messages

\* An unknown field joins the others.
LEMMA WithUnknownFacts ==
  ASSUME NEW m \in Messages, NEW f \in UnknownFields
  PROVE  /\ WithUnknown(m, f) = [message |-> m.message, unknown |-> Append(m.unknown, f)]
         /\ WithUnknown(m, f) \in Messages /\ WithUnknown(m, f).unknown = Append(m.unknown, f)
         /\ Len(Append(m.unknown, f)) = Len(m.unknown) + 1
         /\ CountAll(Append(m.unknown, f)) = CountAll(m.unknown) + Count(f)
<1>1. WithUnknown(m, f) = [message |-> m.message, unknown |-> Append(m.unknown, f)]
  <2> DEFINE us == Append(m.unknown, f)
  <2>1. WithUnknown(m, f) = [m EXCEPT !.unknown = us]
    BY DEF WithUnknown
  <2> HIDE DEF us
  <2>2. [m EXCEPT !.unknown = us] = [message |-> m.message, unknown |-> us]
    BY MessageFacts
  <2> QED BY <2>1, <2>2 DEF us
<1>2. Append(m.unknown, f) \in Seq(UnknownFields) /\ Len(Append(m.unknown, f)) = Len(m.unknown) + 1
  BY MessageFacts, AppendProperties
<1>3. CountAll(Append(m.unknown, f)) = CountAll(m.unknown) + Count(f)
  BY MessageFacts, CountAppend DEF UnknownFields
<1> QED BY <1>1, <1>2, <1>3, MessageFacts DEF Messages

LEMMA MeaningType == ASSUME NEW fs \in Seq(Fields) PROVE Meaning(fs) \in Messages
<1>1. UnknownIn(fs) \in Seq(UnknownFields)
  BY UnknownType
<1>2. TextsIn(fs) # <<>> => Last(TextsIn(fs)).text \in Texts
  <2>1. TextsIn(fs) \in Seq(Fields)
    BY TextsType
  <2>2. TextsIn(fs) # <<>> => Last(TextsIn(fs)) \in Fields
    BY <2>1, LenProperties, EmptySeq DEF Last
  <2> QED BY <2>2, FieldFacts
<1> QED BY <1>1, <1>2 DEF Meaning, Messages

LEMMA MeaningAppend ==
  ASSUME NEW fs \in Seq(Fields), NEW f \in Fields
  PROVE  /\ f.num = 1 => Meaning(Append(fs, f)) = WithMessage(Meaning(fs), f.text)
         /\ f.num # 1 => Meaning(Append(fs, f)) = WithUnknown(Meaning(fs), f)
<1>1. CASE f.num = 1
  <2>1. TextsIn(fs) \in Seq(Fields)
    BY TextsType
  <2>2. Append(TextsIn(fs), f) # <<>> /\ Last(Append(TextsIn(fs), f)) = f
    BY <2>1, AppendProperties DEF Last
  <2>3. Meaning(Append(fs, f)) = [message |-> f.text, unknown |-> UnknownIn(fs)]
    BY <1>1, <2>2, FiltersAppend DEF Meaning
  <2>4. Meaning(fs).unknown = UnknownIn(fs)
    BY DEF Meaning
  <2> QED BY <1>1, <2>3, <2>4, MeaningType, WithMessageFacts, FieldFacts
<1>2. CASE f.num # 1
  <2>1. Meaning(Append(fs, f))
          = [message |-> Meaning(fs).message, unknown |-> Append(UnknownIn(fs), f)]
    BY <1>2, FiltersAppend DEF Meaning
  <2>2. Meaning(fs).unknown = UnknownIn(fs) /\ f \in UnknownFields
    BY <1>2 DEF Meaning, UnknownFields
  <2> QED BY <1>2, <2>1, <2>2, MeaningType, WithUnknownFacts
<1> QED BY <1>1, <1>2

\* Unknown fields alone.
LEMMA OnlyUnknown ==
  ASSUME NEW fs \in Seq(UnknownFields)
  PROVE  TextsIn(fs) = <<>> /\ UnknownIn(fs) = fs
<1> DEFINE S == {gs \in Seq(UnknownFields) : TextsIn(gs) = <<>> /\ UnknownIn(gs) = gs}
<1>1. <<>> \in S
  BY TextsAreFold, UnknownIsFold, T!FoldEmpty, U!FoldEmpty
<1>2. ASSUME NEW gs \in S, NEW f \in UnknownFields PROVE Append(gs, f) \in S
  <2>1. gs \in Seq(UnknownFields) /\ Append(gs, f) \in Seq(UnknownFields)
    BY AppendProperties
  <2>2. gs \in Seq(Fields) /\ f \in Fields /\ f.num # 1
    BY <2>1, UnknownAreFields DEF UnknownFields
  <2>3. TextsIn(Append(gs, f)) = TextsIn(gs) /\ UnknownIn(Append(gs, f)) = Append(UnknownIn(gs), f)
    BY <2>2, FiltersAppend
  <2> QED BY <2>1, <2>3
<1>3. S = Seq(UnknownFields)
  <2>1. S \in SUBSET Seq(UnknownFields)
    OBVIOUS
  <2> HIDE DEF S
  <2> QED BY <1>1, <1>2, <2>1, C!SeqInduct
<1> QED BY <1>3

\* What is written means what it was written from.
LEMMA RoundTrip == ASSUME NEW m \in Messages PROVE Meaning(WriteTo(m)) = m
<1>1. /\ m.message \in Texts \cup {None}
      /\ m.unknown \in Seq(UnknownFields) /\ m.unknown \in Seq(Fields)
      /\ m = [message |-> m.message, unknown |-> m.unknown]
  BY UnknownAreFields DEF Messages
<1>2. TextsIn(m.unknown) = <<>> /\ UnknownIn(m.unknown) = m.unknown
  BY <1>1, OnlyUnknown
<1>3. CASE m.message = None
  <2>1. WriteTo(m) = m.unknown
    BY <1>1, <1>3, ConcatEmptySeq DEF WriteTo
  <2> QED BY <1>1, <1>2, <1>3, <2>1 DEF Meaning
<1>4. CASE m.message # None
  <2> DEFINE f == TextField(m.message)
  <2>1. f \in Fields /\ f.num = 1 /\ f.text = m.message /\ <<f>> \in Seq(Fields)
    BY <1>1, <1>4, TextFieldFacts
  <2>2. WriteTo(m) = <<f>> \o m.unknown
    BY <1>4 DEF WriteTo
  <2> HIDE DEF f
  <2>3. TextsIn(WriteTo(m)) = <<f>> \o <<>> /\ UnknownIn(WriteTo(m)) = <<>> \o m.unknown
    BY <1>1, <1>2, <2>1, <2>2, FiltersConcat, FiltersOne
  <2>4. TextsIn(WriteTo(m)) = <<f>> /\ UnknownIn(WriteTo(m)) = m.unknown
    BY <1>1, <2>1, <2>3, SeqFacts
  <2>5. <<f>> # <<>> /\ Last(<<f>>) = f
    BY DEF Last
  <2> QED BY <1>1, <2>1, <2>4, <2>5 DEF Meaning
<1> QED BY <1>3, <1>4

-----------------------------------------------------------------------------
(* The two decoders. *)

LEMMA ToOwnedFacts ==
  ASSUME NEW m \in Messages
  PROVE  /\ ToOwned(m) \in Messages
         /\ Len(ToOwned(m).unknown) = Len(m.unknown)
         /\ \A t \in Texts : ToOwned(WithMessage(m, t)) = WithMessage(ToOwned(m), t)
         /\ \A f \in UnknownFields :
              ToOwned(WithUnknown(m, f)) = WithUnknown(ToOwned(m), Shortest(f))
<1> DEFINE u == m.unknown
           short(us) == [i \in DOMAIN us |-> Shortest(us[i])]
<1>1. u \in Seq(UnknownFields) /\ m.message \in Texts \cup {None}
  BY DEF Messages
<1>2. \A f \in UnknownFields : Shortest(f) \in UnknownFields
  BY FieldFacts DEF UnknownFields
<1>3. ASSUME NEW us \in Seq(UnknownFields)
      PROVE  short(us) \in Seq(UnknownFields) /\ Len(short(us)) = Len(us)
  <2>1. DOMAIN us = 1..Len(us) /\ Len(us) \in Nat /\ \A i \in 1..Len(us) : us[i] \in UnknownFields
    OBVIOUS
  <2> QED BY <1>2, <2>1
<1>4. ASSUME NEW f \in UnknownFields
      PROVE  short(Append(u, f)) = Append(short(u), Shortest(f))
  <2> DEFINE v == Append(u, f)
             w == Append(short(u), Shortest(f))
  <2>1. /\ v \in Seq(UnknownFields) /\ Len(v) = Len(u) + 1 /\ DOMAIN v = 1..(Len(u) + 1)
        /\ \A i \in 1..Len(u) : v[i] = u[i]
        /\ v[Len(u) + 1] = f
    BY <1>1, AppendProperties, LenProperties
  <2>2. /\ short(u) \in Seq(UnknownFields) /\ Len(short(u)) = Len(u)
        /\ short(v) \in Seq(UnknownFields) /\ Len(short(v)) = Len(u) + 1
    BY <1>1, <1>3, <2>1
  <2>3. /\ w \in Seq(UnknownFields) /\ Len(w) = Len(u) + 1
        /\ \A i \in 1..Len(u) : w[i] = short(u)[i]
        /\ w[Len(u) + 1] = Shortest(f)
    BY <1>2, <2>2, AppendProperties
  <2>4. Len(u) \in Nat /\ DOMAIN u = 1..Len(u)
    BY <1>1, LenProperties
  <2>5. \A i \in 1..(Len(u) + 1) : short(v)[i] = w[i]
    <3>1. ASSUME NEW i \in 1..Len(u) PROVE short(v)[i] = w[i]
      BY <2>1, <2>3, <2>4
    <3>2. short(v)[Len(u) + 1] = w[Len(u) + 1]
      BY <2>1, <2>3, <2>4
    <3>3. \A i \in 1..(Len(u) + 1) : i \in 1..Len(u) \/ i = Len(u) + 1
      BY <2>4
    <3> HIDE DEF short, v, w
    <3> QED BY <3>1, <3>2, <3>3
  <2> HIDE DEF short, v, w
  <2> QED BY <2>2, <2>3, <2>5, SeqEqual DEF v, w
<1>5. ToOwned(m) = [message |-> m.message, unknown |-> short(u)]
  BY DEF ToOwned
<1>6. ASSUME NEW f \in UnknownFields
      PROVE  ToOwned(WithUnknown(m, f))
               = [message |-> m.message, unknown |-> short(Append(u, f))]
  <2>1. ToOwned(WithUnknown(m, f))
          = [message |-> WithUnknown(m, f).message, unknown |-> short(WithUnknown(m, f).unknown)]
    BY DEF ToOwned
  <2> HIDE DEF short
  <2>2. WithUnknown(m, f).message = m.message /\ WithUnknown(m, f).unknown = Append(u, f)
    BY WithUnknownFacts
  <2> QED BY <2>1, <2>2
<1>7. ASSUME NEW t \in Texts
      PROVE  ToOwned(WithMessage(m, t)) = [message |-> t, unknown |-> short(u)]
  BY WithMessageFacts DEF ToOwned
<1> HIDE DEF short
<1>8. ToOwned(m) \in Messages /\ Len(ToOwned(m).unknown) = Len(m.unknown)
  BY <1>1, <1>3, <1>5 DEF Messages
<1>9. ASSUME NEW f \in UnknownFields
      PROVE  ToOwned(WithUnknown(m, f)) = WithUnknown(ToOwned(m), Shortest(f))
  <2>1. ToOwned(m).message = m.message /\ ToOwned(m).unknown = short(u)
    BY <1>5
  <2>2. WithUnknown(ToOwned(m), Shortest(f))
          = [message |-> ToOwned(m).message, unknown |-> Append(ToOwned(m).unknown, Shortest(f))]
    BY <1>2, <1>8, WithUnknownFacts
  <2> QED BY <1>4, <1>6, <2>1, <2>2
<1>10. ASSUME NEW t \in Texts
       PROVE  ToOwned(WithMessage(m, t)) = WithMessage(ToOwned(m), t)
  BY <1>5, <1>7, <1>8, WithMessageFacts
<1> QED BY <1>8, <1>9, <1>10

-----------------------------------------------------------------------------
(* The inductive invariant. *)

\* A decode whose limit holds.
Fits(d) == d \in Decodes /\ Len(d.msg.unknown) + d.left <= UnknownLimit

Types == Fits(owned) /\ Fits(view) /\ fed \in Seq(Fields)

\* What is left of the limit: the owned decoder counts what groups enclose, the
\* view its records.
Limits ==
  /\ ~owned.err /\ ~view.err => owned.left + CountAll(view.msg.unknown) = UnknownLimit
  /\ ~view.err => view.left + Len(view.msg.unknown) = UnknownLimit

ViewMeans == ~view.err => view.msg = Meaning(fed)

IInv == Types /\ Limits /\ DecodersAgree /\ ViewMeans

\* The parts of a decode.
LEMMA DecodeFacts ==
  ASSUME NEW d \in Decodes
  PROVE  /\ d = [msg |-> d.msg, left |-> d.left, err |-> d.err]
         /\ d.msg \in Messages /\ d.left \in Nat /\ d.left <= UnknownLimit
         /\ d.err \in BOOLEAN /\ UnknownLimit \in Nat
<1>1. UnknownLimit \in Nat
  BY CodecAssumption DEF CodecAssumption
<1>2. d.msg \in Messages /\ d.left \in 0..UnknownLimit /\ d.err \in BOOLEAN
  BY DEF Decodes
<1>3. d = [msg |-> d.msg, left |-> d.left, err |-> d.err]
  BY DEF Decodes
<1> QED BY <1>1, <1>2, <1>3

LEMMA FailedIs ==
  ASSUME NEW m, NEW n, NEW b, NEW d, d = [msg |-> m, left |-> n, err |-> b]
  PROVE  Failed(d) = [msg |-> m, left |-> n, err |-> TRUE]
<1>1. d.msg = m /\ d.left = n /\ DOMAIN d = {"msg", "left", "err"}
  OBVIOUS
<1>2. DOMAIN Failed(d) = DOMAIN d /\ Failed(d).msg = d.msg /\ Failed(d).left = d.left /\ Failed(d).err = TRUE
  BY <1>1 DEF Failed
<1>3. Failed(d) = [x \in DOMAIN d |-> Failed(d)[x]]
  BY DEF Failed
<1> QED BY <1>1, <1>2, <1>3

LEMMA KeptFacts ==
  ASSUME NEW d, Fits(d), ~d.err, NEW g \in UnknownFields, NEW n \in Nat, n >= 1, n <= d.left
  PROVE  LET e == Kept(d, g, n) IN
         Fits(e) /\ ~e.err /\ e.msg = WithUnknown(d.msg, g) /\ e.left = d.left - n
<1> DEFINE e == Kept(d, g, n)
<1>1. /\ d \in Decodes /\ d.err = FALSE /\ Len(d.msg.unknown) + d.left <= UnknownLimit
      /\ d.msg \in Messages /\ d.left \in Nat /\ d.left <= UnknownLimit /\ UnknownLimit \in Nat
  BY DecodeFacts DEF Fits
<1>2. e = [msg |-> WithUnknown(d.msg, g), left |-> d.left - n, err |-> FALSE]
  BY <1>1 DEF Kept
<1> HIDE DEF e
<1>3. e.msg = WithUnknown(d.msg, g) /\ e.left = d.left - n /\ ~e.err
  BY <1>2
<1>4. /\ WithUnknown(d.msg, g) \in Messages
      /\ Len(WithUnknown(d.msg, g).unknown) = Len(d.msg.unknown) + 1
      /\ Len(d.msg.unknown) \in Nat
  BY <1>1, WithUnknownFacts, MessageFacts
<1>5. d.left - n \in 0..UnknownLimit /\ Len(d.msg.unknown) + 1 + (d.left - n) <= UnknownLimit
  <2> HIDE DEF e
  <2> DEFINE l == Len(d.msg.unknown)
             k == d.left
  <2>1. l \in Nat /\ k \in Nat /\ l + k <= UnknownLimit /\ n <= k /\ k <= UnknownLimit
    BY <1>1, <1>4
  <2> HIDE DEF l, k
  <2>2. k - n \in 0..UnknownLimit /\ l + 1 + (k - n) <= UnknownLimit
    BY <1>1, <2>1
  <2> QED BY <2>2 DEF l, k
<1>6. e \in Decodes
  BY <1>2, <1>4, <1>5 DEF Decodes
<1> QED BY <1>3, <1>4, <1>5, <1>6 DEF Fits, e

LEMMA ReadFacts ==
  ASSUME NEW d, Fits(d), ~d.err, NEW t \in Texts
  PROVE  LET e == [d EXCEPT !.msg = WithMessage(@, t)] IN
         /\ Fits(e) /\ ~e.err /\ e.msg = WithMessage(d.msg, t) /\ e.left = d.left
         /\ Fits(Failed(e)) /\ Failed(e).err
<1> DEFINE e == [d EXCEPT !.msg = WithMessage(@, t)]
           m == WithMessage(d.msg, t)
<1>1. /\ d \in Decodes /\ d.err = FALSE /\ Len(d.msg.unknown) + d.left <= UnknownLimit
      /\ d.msg \in Messages /\ d.left \in 0..UnknownLimit
      /\ d = [msg |-> d.msg, left |-> d.left, err |-> d.err]
  BY DecodeFacts DEF Fits, Decodes
<1>2. m \in Messages /\ m.unknown = d.msg.unknown
  BY <1>1, WithMessageFacts
<1>3. e = [msg |-> m, left |-> d.left, err |-> FALSE]
  <2>1. e = [d EXCEPT !.msg = m]
    OBVIOUS
  <2> HIDE DEF m, e
  <2> QED BY <1>1, <2>1
<1>4. Failed(e) = [msg |-> m, left |-> d.left, err |-> TRUE]
  <2> HIDE DEF m, e
  <2> QED BY <1>3, FailedIs
<1> HIDE DEF e, m
<1>5. /\ e.msg = m /\ e.left = d.left /\ ~e.err
      /\ Failed(e).msg = m /\ Failed(e).left = d.left /\ Failed(e).err
  BY <1>3, <1>4
<1>6. e \in Decodes
  BY <1>1, <1>2, <1>3 DEF Decodes
<1>7. Failed(e) \in Decodes
  BY <1>1, <1>2, <1>4 DEF Decodes
<1> QED BY <1>1, <1>2, <1>5, <1>6, <1>7 DEF Fits, e, m

LEMMA FailedFacts == ASSUME NEW d, Fits(d) PROVE Fits(Failed(d)) /\ Failed(d).err
<1>1. /\ d \in Decodes /\ d.msg \in Messages /\ d.left \in 0..UnknownLimit
      /\ d = [msg |-> d.msg, left |-> d.left, err |-> d.err]
  BY DecodeFacts DEF Fits, Decodes
<1>2. Failed(d) = [msg |-> d.msg, left |-> d.left, err |-> TRUE]
  BY <1>1, FailedIs, Zenon
<1>3. Failed(d) \in Decodes /\ Failed(d).msg = d.msg /\ Failed(d).left = d.left /\ Failed(d).err
  BY <1>1, <1>2 DEF Decodes
<1> QED BY <1>3 DEF Fits

\* A field that is fed to the view, and what became of it.
ViewRefuses(d, f) == IF f.num = 1 THEN RefusesText(f) ELSE ~f.good \/ d.left = 0

LEMMA ViewField ==
  ASSUME NEW d, Fits(d), ~d.err, NEW f \in Fields, NEW e, e = MergeViewField(d, f)
  PROVE  /\ Fits(e) /\ (e.err <=> ViewRefuses(d, f))
         /\ ~e.err /\ f.num = 1 => e.msg = WithMessage(d.msg, f.text) /\ e.left = d.left
         /\ ~e.err /\ f.num # 1 =>
              f.good /\ e.msg = WithUnknown(d.msg, f) /\ e.left = d.left - 1
<1>1. d.left \in Nat
  BY DecodeFacts DEF Fits
<1>2. CASE ViewRefuses(d, f)
  <2>1. e = Failed(d)
    BY <1>2 DEF MergeViewField, ViewRefuses
  <2> QED BY <1>2, <2>1, FailedFacts
<1>3. CASE ~ViewRefuses(d, f) /\ f.num = 1
  <2>1. e = [d EXCEPT !.msg = WithMessage(@, f.text)] /\ f.text \in Texts
    BY <1>3, FieldFacts DEF MergeViewField, ViewRefuses
  <2>2. Fits(e) /\ ~e.err /\ e.msg = WithMessage(d.msg, f.text) /\ e.left = d.left
    BY <2>1, ReadFacts, ZenonT(40)
  <2> QED BY <1>3, <2>2
<1>4. CASE ~ViewRefuses(d, f) /\ f.num # 1
  <2>1. e = Kept(d, f, 1) /\ f \in UnknownFields /\ f.good /\ 1 \in Nat /\ 1 >= 1 /\ 1 <= d.left
    BY <1>1, <1>4 DEF MergeViewField, ViewRefuses, UnknownFields
  <2>2. Fits(e) /\ ~e.err /\ e.msg = WithUnknown(d.msg, f) /\ e.left = d.left - 1
    BY <2>1, KeptFacts
  <2> QED BY <1>4, <2>1, <2>2
<1> QED BY <1>2, <1>3, <1>4

\* A new decode.
LEMMA BegunFacts ==
  /\ Fits(Begun(Default)) /\ ~Begun(Default).err
  /\ Begun(Default).msg = Default /\ Begun(Default).left = UnknownLimit
  /\ Default.unknown = <<>> /\ Len(<<>>) = 0 /\ CountAll(<<>>) = 0 /\ UnknownLimit \in Nat
  /\ Rematerializes(Default) /\ ToOwned(Default) = Default /\ Meaning(<<>>) = Default
  /\ <<>> \in Seq(Fields)
<1>1. Default \in Messages /\ Default.unknown = <<>> /\ Default.message = None /\ <<>> \in Seq(Fields)
  BY EmptySeq DEF Default, Messages
<1>2. UnknownLimit \in Nat /\ Len(<<>>) = 0
  BY CodecAssumption DEF CodecAssumption
<1>3. Begun(Default) = [msg |-> Default, left |-> UnknownLimit, err |-> FALSE]
  BY DEF Begun
<1>4. Begun(Default) \in Decodes
  BY <1>1, <1>2, <1>3 DEF Decodes
<1>5. ToOwned(Default) = Default
  BY DEF ToOwned, Default
<1>6. Rematerializes(Default)
  BY <1>1, <1>2, CountEmpty DEF Rematerializes
<1> QED BY <1>1, <1>2, <1>3, <1>4, <1>5, <1>6, CountEmpty, MeaningEmpty DEF Fits

-----------------------------------------------------------------------------
(* A whole buffer. *)

V == INSTANCE SequenceFolds WITH
  Join   <- LAMBDA d, f : IF d.err THEN d ELSE MergeViewField(d, f),
  Weight <- LAMBDA f : f,
  Unit   <- Begun(Default)

\* decode_view goes through the buffer from the left.
LEMMA DecodeIsFold == \A b : DecodeView(b) = V!Fold(b)
BY DEF DecodeView, V!Fold, FoldLeft, V!FoldLeft, MapThenFoldSet, V!MapThenFoldSet, Max, V!Max

CanRead(f) == f.good /\ (f.num = 1 => f.wire = "len")

\* What decode_view accepts.
Accepts(b) ==
  (\A i \in DOMAIN b : CanRead(b[i])) /\ Len(UnknownIn(b)) <= UnknownLimit

\* decode_view fails on nothing else, and returns what the buffer means.
LEMMA DecodeViewFacts ==
  ASSUME NEW b \in Seq(Fields)
  PROVE  /\ DecodeView(b).err <=> ~Accepts(b)
         /\ Accepts(b) => DecodeView(b).msg = Meaning(b)
<1> DEFINE D(c) ==
             /\ Fits(DecodeView(c)) /\ (DecodeView(c).err <=> ~Accepts(c))
             /\ ~DecodeView(c).err => /\ DecodeView(c).msg = Meaning(c)
                                      /\ DecodeView(c).left + Len(UnknownIn(c)) = UnknownLimit
           S == {c \in Seq(Fields) : D(c)}
<1>1. <<>> \in S
  <2>1. DecodeView(<<>>) = Begun(Default)
    BY DecodeIsFold, V!FoldEmpty
  <2>2. UnknownIn(<<>>) = <<>> /\ DOMAIN <<>> = {}
    BY UnknownIsFold, U!FoldEmpty
  <2>3. Accepts(<<>>)
    BY <2>2, BegunFacts DEF Accepts
  <2>4. D(<<>>)
    BY <2>1, <2>2, <2>3, BegunFacts
  <2> QED BY <2>4, EmptySeq
<1>2. ASSUME NEW c \in S, NEW f \in Fields PROVE Append(c, f) \in S
  <2> DEFINE d == DecodeView(c)
             x == Append(c, f)
             e == DecodeView(x)
             n == Len(UnknownIn(c))
  <2>1. /\ c \in Seq(Fields) /\ x \in Seq(Fields) /\ Len(c) \in Nat
        /\ DOMAIN c = 1..Len(c) /\ DOMAIN x = 1..(Len(c) + 1)
        /\ x[Len(c) + 1] = f /\ \A i \in 1..Len(c) : x[i] = c[i]
    BY AppendProperties, LenProperties
  <2>2. /\ Fits(d) /\ (d.err <=> ~Accepts(c))
        /\ ~d.err => d.msg = Meaning(c) /\ d.left + n = UnknownLimit
    OBVIOUS
  <2>3. e = IF d.err THEN d ELSE MergeViewField(d, f)
    BY <2>1, DecodeIsFold, V!FoldAppend
  <2>4. /\ n \in Nat /\ UnknownLimit \in Nat
        /\ Len(UnknownIn(x)) = IF f.num = 1 THEN n ELSE n + 1
    <3>1. UnknownIn(c) \in Seq(UnknownFields)
      BY <2>1, UnknownType
    <3>2. f.num # 1 => f \in UnknownFields
      BY DEF UnknownFields
    <3>3. /\ f.num = 1 => UnknownIn(x) = UnknownIn(c)
          /\ f.num # 1 => UnknownIn(x) = Append(UnknownIn(c), f)
      BY <2>1, FiltersAppend
    <3>4. f.num # 1 => Len(UnknownIn(x)) = n + 1
      BY <3>1, <3>2, <3>3, AppendProperties
    <3> QED BY <3>1, <3>3, <3>4, LenProperties, BegunFacts
  <2>5. (\A i \in DOMAIN x : CanRead(x[i])) <=> (\A i \in DOMAIN c : CanRead(c[i])) /\ CanRead(f)
    <3>1. \A i \in 1..(Len(c) + 1) : i \in 1..Len(c) \/ i = Len(c) + 1
      BY <2>1
    <3>2. Len(c) + 1 \in 1..(Len(c) + 1) /\ \A i \in 1..Len(c) : i \in 1..(Len(c) + 1)
      BY <2>1
    <3> HIDE DEF x
    <3> QED BY <2>1, <3>1, <3>2, Zenon
  <2>6. /\ f.num = 1 => Meaning(x) = WithMessage(Meaning(c), f.text)
        /\ f.num # 1 => Meaning(x) = WithUnknown(Meaning(c), f)
    BY <2>1, MeaningAppend
  <2> HIDE DEF S, D, d, x, e, n
  <2>7. CASE d.err
    <3>1. ~Accepts(x)
      BY <2>2, <2>4, <2>5, <2>7 DEF Accepts, n
    <3> QED BY <2>1, <2>2, <2>3, <2>7, <3>1 DEF S, D, e, x
  <2>8. CASE ~d.err
    <3>1. /\ Fits(e) /\ (e.err <=> ViewRefuses(d, f))
          /\ ~e.err /\ f.num = 1 => e.msg = WithMessage(d.msg, f.text) /\ e.left = d.left
          /\ ~e.err /\ f.num # 1 =>
               f.good /\ e.msg = WithUnknown(d.msg, f) /\ e.left = d.left - 1
      BY <2>2, <2>3, <2>8, ViewField
    <3>2. (\A i \in DOMAIN c : CanRead(c[i])) /\ n <= UnknownLimit
      BY <2>2, <2>8 DEF Accepts, n
    <3>3. d.left \in Nat /\ d.left + n = UnknownLimit
      BY <2>2, <2>8, DecodeFacts DEF Fits
    <3>4. Accepts(x) <=> ~ViewRefuses(d, f)
      <4>1. CASE f.num = 1
        BY <2>4, <2>5, <3>2, <4>1 DEF Accepts, ViewRefuses, RefusesText, CanRead
      <4>2. CASE f.num # 1
        <5>1. n + 1 <= UnknownLimit <=> d.left # 0
          BY <2>4, <3>3
        <5> QED BY <2>4, <2>5, <3>2, <4>2, <5>1 DEF Accepts, ViewRefuses, CanRead
      <4> QED BY <4>1, <4>2
    <3>5. ~e.err => e.msg = Meaning(x)
      BY <2>2, <2>6, <2>8, <3>1
    <3>6. ~e.err => e.left + Len(UnknownIn(x)) = UnknownLimit
      BY <2>4, <3>1, <3>3
    <3> QED BY <2>1, <3>1, <3>4, <3>5, <3>6 DEF S, D, e, x
  <2> QED BY <2>7, <2>8 DEF x
<1>3. S = Seq(Fields)
  <2>1. S \in SUBSET Seq(Fields)
    OBVIOUS
  <2> HIDE DEF S
  <2> QED BY <1>1, <1>2, <2>1, V!SeqInduct
<1> QED BY <1>3

\* What decode_view can take, and what an owned message holds of it.
Readable == {f \in Fields : CanRead(f)}
ReadUnknown == {f \in UnknownFields : f.good}
HeldUnknown == {f \in ReadUnknown : f = Shortest(f)}

LEMMA KindsOfFields ==
  /\ Readable \subseteq Fields /\ ReadUnknown \subseteq UnknownFields
  /\ HeldUnknown \subseteq ReadUnknown /\ ReadUnknown \subseteq Readable
  /\ Seq(ReadUnknown) \subseteq Seq(UnknownFields) /\ Seq(HeldUnknown) \subseteq Seq(ReadUnknown)
<1>1. /\ Readable \subseteq Fields /\ ReadUnknown \subseteq UnknownFields
      /\ HeldUnknown \subseteq ReadUnknown
  BY DEF Readable, ReadUnknown, HeldUnknown
<1>2. ReadUnknown \subseteq Readable
  BY DEF Readable, ReadUnknown, UnknownFields, CanRead
<1> QED BY <1>1, <1>2, SeqMonotonic

LEMMA AcceptsIs ==
  ASSUME NEW b \in Seq(Fields)
  PROVE  Accepts(b) <=> b \in Seq(Readable) /\ Len(UnknownIn(b)) <= UnknownLimit
<1>1. DOMAIN b = 1..Len(b) /\ \A i \in 1..Len(b) : b[i] \in Fields
  BY LenProperties
<1>2. (\A i \in DOMAIN b : CanRead(b[i])) <=> \A i \in 1..Len(b) : b[i] \in Readable
  BY <1>1 DEF Readable
<1> HIDE DEF Readable
<1>3. (\A i \in 1..Len(b) : b[i] \in Readable) <=> b \in Seq(Readable)
  <2>1. ASSUME \A i \in 1..Len(b) : b[i] \in Readable PROVE b \in Seq(Readable)
    BY <2>1
  <2>2. ASSUME b \in Seq(Readable) PROVE \A i \in 1..Len(b) : b[i] \in Readable
    BY <2>2
  <2> QED BY <2>1, <2>2
<1> QED BY <1>2, <1>3 DEF Accepts

\* A message that holds fields that can be read is written so that it is read back,
\* unless it holds too many.
LEMMA WrittenIsRead ==
  ASSUME NEW m \in Messages, m.unknown \in Seq(ReadUnknown)
  PROVE  /\ WriteTo(m) \in Seq(Fields)
         /\ Accepts(WriteTo(m)) <=> Len(m.unknown) <= UnknownLimit
         /\ ~DecodeView(WriteTo(m)).err <=> Len(m.unknown) <= UnknownLimit
         /\ ~DecodeView(WriteTo(m)).err => DecodeView(WriteTo(m)).msg = m
<1> DEFINE b == WriteTo(m)
<1>1. m.unknown \in Seq(Readable)
  BY KindsOfFields, SeqMonotonic
<1>2. m.message # None => <<TextField(m.message)>> \in Seq(Readable)
  <2>1. m.message # None => TextField(m.message) \in Readable
    BY MessageFacts, TextFieldFacts DEF Readable, CanRead, TextField
  <2> HIDE DEF Readable
  <2> QED BY <2>1
<1>3. b = (IF m.message = None THEN <<>> ELSE <<TextField(m.message)>>) \o m.unknown
  BY DEF WriteTo
<1> HIDE DEF b
<1>4. b \in Seq(Readable)
  BY <1>1, <1>2, <1>3, SeqFacts
<1>5. b \in Seq(Fields)
  BY <1>4, KindsOfFields, SeqMonotonic
<1>6. Meaning(b) = m
  BY RoundTrip DEF b
<1>7. UnknownIn(b) = m.unknown
  BY <1>6 DEF Meaning
<1> QED BY <1>4, <1>5, <1>6, <1>7, AcceptsIs, DecodeViewFacts DEF b

LEMMA UnknownWithin ==
  ASSUME NEW fs \in Seq(Readable) PROVE UnknownIn(fs) \in Seq(ReadUnknown)
<1> DEFINE Z == Seq(ReadUnknown)
<1>1. ASSUME NEW f \in Readable PROVE (IF f.num # 1 THEN <<f>> ELSE <<>>) \in Z
  <2>1. f.num # 1 => f \in ReadUnknown
    BY DEF Readable, CanRead, ReadUnknown, UnknownFields
  <2>2. f \in ReadUnknown => <<f>> \in Z
    OBVIOUS
  <2> QED BY <2>1, <2>2, EmptySeq
<1>2. <<>> \in Z /\ \A p, q \in Z : p \o q \in Z
  BY SeqFacts
<1> HIDE DEF Z
<1>3. U!Fold(fs) \in Z
  BY <1>1, <1>2, U!FoldType
<1> QED BY <1>3, UnknownIsFold DEF Z

\* An owned copy holds fields in their shortest encoding, which count as much, and
\* another copy changes nothing.
LEMMA CopyFacts ==
  ASSUME NEW m \in Messages
  PROVE  /\ CountAll(ToOwned(m).unknown) = CountAll(m.unknown)
         /\ m.unknown \in Seq(ReadUnknown) => ToOwned(m).unknown \in Seq(HeldUnknown)
         /\ m.unknown \in Seq(HeldUnknown) => ToOwned(m) = m
<1> DEFINE u == m.unknown
           O(us) == ToOwned([message |-> None, unknown |-> us]).unknown
           S == {us \in Seq(UnknownFields) : CountAll(O(us)) = CountAll(us)}
<1>1. u \in Seq(UnknownFields) /\ m = [message |-> m.message, unknown |-> u]
  BY MessageFacts
<1>2. \A us : O(us) = [i \in DOMAIN us |-> Shortest(us[i])]
  BY DEF ToOwned
<1>3. ToOwned(m) = [message |-> m.message, unknown |-> O(u)]
  BY <1>2 DEF ToOwned
<1>4. <<>> \in S
  <2>1. O(<<>>) = <<>>
    BY BegunFacts DEF Default
  <2> HIDE DEF O
  <2> QED BY <2>1, EmptySeq
<1>5. ASSUME NEW us \in S, NEW f \in UnknownFields PROVE Append(us, f) \in S
  <2> DEFINE n == [message |-> None, unknown |-> us]
  <2>1. n \in Messages /\ us \in Seq(UnknownFields) /\ us \in Seq(Fields) /\ n.unknown = us
    BY UnknownAreFields DEF Messages
  <2>2. WithUnknown(n, f) = [message |-> None, unknown |-> Append(us, f)]
    BY <2>1, WithUnknownFacts
  <2>3. Shortest(f) \in UnknownFields /\ f \in Fields /\ Count(Shortest(f)) = Count(f)
    BY FieldFacts DEF UnknownFields
  <2>4. ToOwned(n) \in Messages /\ ToOwned(WithUnknown(n, f)) = WithUnknown(ToOwned(n), Shortest(f))
    BY <2>1, ToOwnedFacts
  <2>5. CountAll(ToOwned(WithUnknown(n, f)).unknown) = CountAll(ToOwned(n).unknown) + Count(f)
    <3> DEFINE x == ToOwned(n)
               g == Shortest(f)
    <3> HIDE DEF n, x, g
    <3>1. x \in Messages /\ g \in UnknownFields /\ Count(g) = Count(f)
      BY <2>3, <2>4 DEF x, g
    <3>2. WithUnknown(x, g).unknown = Append(x.unknown, g)
      BY <3>1, WithUnknownFacts
    <3>3. CountAll(Append(x.unknown, g)) = CountAll(x.unknown) + Count(g)
      BY <3>1, WithUnknownFacts
    <3> QED BY <2>4, <3>1, <3>2, <3>3 DEF x, g
  <2>6. CountAll(O(Append(us, f))) = CountAll(O(us)) + Count(f)
    BY <2>2, <2>5
  <2>7. CountAll(Append(us, f)) = CountAll(us) + Count(f)
    BY <2>1, <2>3, CountAppend
  <2>8. CountAll(O(us)) = CountAll(us) /\ Append(us, f) \in Seq(UnknownFields)
    BY AppendProperties
  <2> HIDE DEF O, n
  <2> QED BY <2>6, <2>7, <2>8
<1>6. S = Seq(UnknownFields)
  <2>1. S \in SUBSET Seq(UnknownFields)
    OBVIOUS
  <2> HIDE DEF S
  <2> QED BY <1>4, <1>5, <2>1, C!SeqInduct
<1>7. CountAll(O(u)) = CountAll(u)
  BY <1>1, <1>6
<1> HIDE DEF O
<1>8. ASSUME u \in Seq(ReadUnknown) PROVE O(u) \in Seq(HeldUnknown)
  <2>1. \A f \in ReadUnknown : Shortest(f) \in HeldUnknown
    <3>1. ASSUME NEW f \in ReadUnknown
          PROVE  /\ Shortest(f) \in UnknownFields /\ Shortest(f).good
                 /\ Shortest(Shortest(f)) = Shortest(f)
      <4>1. f \in Fields /\ f.num # 1 /\ f.good
        BY DEF ReadUnknown, UnknownFields
      <4> QED BY <4>1, FieldFacts, ShortestFacts DEF UnknownFields
    <3> QED BY <3>1 DEF HeldUnknown, ReadUnknown
  <2>2. Len(u) \in Nat /\ DOMAIN u = 1..Len(u) /\ \A i \in 1..Len(u) : u[i] \in ReadUnknown
    BY <1>8, LenProperties
  <2> HIDE DEF u
  <2>3. O(u) = [i \in 1..Len(u) |-> Shortest(u[i])]
    BY <1>2, <2>2
  <2> QED BY <2>1, <2>2, <2>3
<1>9. ASSUME u \in Seq(HeldUnknown) PROVE O(u) = u
  <2>1. \A f \in HeldUnknown : f = Shortest(f)
    BY DEF HeldUnknown
  <2>2. u = [i \in DOMAIN u |-> u[i]] /\ \A i \in DOMAIN u : u[i] \in HeldUnknown
    BY <1>9
  <2> HIDE DEF u
  <2>3. O(u) = [i \in DOMAIN u |-> u[i]]
    BY <1>2, <2>1, <2>2
  <2> QED BY <2>2, <2>3
<1> QED BY <1>1, <1>3, <1>7, <1>8, <1>9

\* Encoding what a buffer means takes no more bytes than the buffer.
LEMMA Shrinks ==
  ASSUME NEW b \in Seq(Readable)
  PROVE  WrittenLen(WriteTo(Meaning(b))) <= WrittenLen(b)
<1> DEFINE S == {c \in Seq(Readable) : ComputeSize(Meaning(c)) <= WrittenLen(c)}
<1>1. <<>> \in S
  BY MeaningEmpty, LenEmpty, EmptySeq DEF Default, ComputeSize
<1>2. ASSUME NEW c \in S, NEW f \in Readable PROVE Append(c, f) \in S
  <2> DEFINE m == Meaning(c)
             e == Append(c, f)
             k == WrittenLen(c)
             n == WrittenLen(m.unknown)
             h == IF m.message = None THEN 0 ELSE 1 + StringLen(m.message)
             l == FieldLen(f)
  <2>1. /\ c \in Seq(Readable) /\ e \in Seq(Readable)
        /\ c \in Seq(Fields) /\ e \in Seq(Fields) /\ f \in Fields
    BY AppendProperties, KindsOfFields, SeqMonotonic
  <2>2. m \in Messages /\ m.unknown \in Seq(Fields) /\ m.message \in Texts \cup {None}
    BY <2>1, MeaningType, MessageFacts
  <2>3. k \in Nat /\ n \in Nat /\ l \in Nat
    BY <2>1, <2>2, LenNat, LenType
  <2>4. h \in Nat
    BY <2>2, StringLenType
  <2>5. h + n <= k
    BY DEF ComputeSize
  <2>6. WrittenLen(e) = k + l
    BY <2>1, W!FoldAppend, LenIsFold
  <2>7. ComputeSize(Meaning(e)) <= k + l
    <3>1. CASE f.num = 1
      <4>1. Meaning(e) = [message |-> f.text, unknown |-> m.unknown]
        BY <2>1, <2>2, <3>1, MeaningAppend, WithMessageFacts, FieldFacts
      <4>2. f.text # None /\ f.text \in Texts /\ f.wire = "len" /\ f.pad \in Nat
        BY <2>1, <3>1, FieldFacts, TextsNotNone DEF Readable, CanRead
      <4>3. ComputeSize(Meaning(e)) = 1 + StringLen(f.text) + n
        BY <4>1, <4>2 DEF ComputeSize
      <4>4. l = f.pad + (1 + StringLen(f.text)) /\ StringLen(f.text) \in Nat
        BY <4>2, StringLenType DEF FieldLen
      <4> HIDE DEF k, n, h, l
      <4> QED BY <2>3, <2>4, <2>5, <4>2, <4>3, <4>4
    <3>2. CASE f.num # 1
      <4>1. f \in UnknownFields
        BY <2>1, <3>2 DEF UnknownFields
      <4>2. Meaning(e) = [message |-> m.message, unknown |-> Append(m.unknown, f)]
        BY <2>1, <2>2, <3>2, <4>1, MeaningAppend, WithUnknownFacts
      <4>3. WrittenLen(Append(m.unknown, f)) = n + l
        BY <2>1, <2>2, W!FoldAppend, LenIsFold
      <4>4. ComputeSize(Meaning(e)) = h + (n + l)
        BY <4>2, <4>3 DEF ComputeSize
      <4> HIDE DEF k, n, h, l
      <4> QED BY <2>3, <2>4, <2>5, <4>4
    <3> QED BY <3>1, <3>2
  <2> HIDE DEF k, n, h, l, m
  <2> QED BY <2>1, <2>6, <2>7
<1>3. S = Seq(Readable)
  <2>1. S \in SUBSET Seq(Readable)
    OBVIOUS
  <2> HIDE DEF S
  <2> QED BY <1>1, <1>2, <2>1, C!SeqInduct
<1>4. b \in Seq(Fields)
  BY KindsOfFields, SeqMonotonic
<1> QED BY <1>3, <1>4, MeaningType, SizeLemma

-----------------------------------------------------------------------------
(* JSON documents. *)

J == INSTANCE SequenceFolds WITH
  Join   <- LAMBDA a, b : a \o b,
  Weight <- LAMBDA p : IF p.key = "message" THEN <<p>> ELSE <<>>,
  Unit   <- <<>>

LEMMA MembersAreFold == \A doc : MessageMembers(doc) = J!Fold(doc)
BY DEF MessageMembers, Keep, J!Fold, FoldLeft, J!FoldLeft, MapThenFoldSet, J!MapThenFoldSet, Max, J!Max

\* The members that are kept keep what holds of all.
LEMMA MembersWithin ==
  ASSUME NEW X, NEW doc \in Seq(X)
  PROVE  MessageMembers(doc) \in Seq({p \in X : p.key = "message"})
<1> DEFINE Y == {p \in X : p.key = "message"}
           Z == Seq(Y)
<1>1. ASSUME NEW p \in X PROVE (IF p.key = "message" THEN <<p>> ELSE <<>>) \in Z
  <2>1. p.key = "message" => p \in Y
    OBVIOUS
  <2> HIDE DEF Y
  <2>2. p \in Y => <<p>> \in Z
    OBVIOUS
  <2> QED BY <2>1, <2>2, EmptySeq
<1>2. <<>> \in Z /\ \A p, q \in Z : p \o q \in Z
  <2> HIDE DEF Y
  <2> QED BY SeqFacts
<1> HIDE DEF Z
<1>3. J!Fold(doc) \in Z
  BY <1>1, <1>2, J!FoldType
<1> QED BY <1>3, MembersAreFold DEF Z

LEMMA OneMember ==
  ASSUME NEW t
  PROVE  MessageMembers(<<Member("message", t)>>) = <<Member("message", t)>>
<1> DEFINE p == Member("message", t)
<1>1. p.key = "message"
  BY DEF Member
<1> HIDE DEF p
<1>2. J!Fold(<<p>>) = <<>> \o <<p>>
  BY <1>1, J!FoldOne
<1>3. <<>> \o <<p>> = <<p>>
  <2>1. <<p>> \in Seq({p})
    OBVIOUS
  <2> QED BY <2>1, ConcatEmptySeq
<1> QED BY <1>2, <1>3, MembersAreFold DEF p

LEMMA TextsNotNull == \A t \in Texts : t # Null /\ t # "number"
BY JsonAssumption DEF JsonAssumption

\* The message field comes back from its JSON, set or not; unknown fields do not.
LEMMA JsonDrops ==
  ASSUME NEW m \in Messages
  PROVE  FromJson(Json(m)) = [message |-> m.message, unknown |-> <<>>]
<1>1. \A t : WithMessage(Default, t) = [message |-> t, unknown |-> <<>>]
  BY DEF WithMessage, Default
<1>2. CASE m.message = None
  <2>1. Json(m) = <<>>
    BY <1>2 DEF Json
  <2>2. MessageMembers(<<>>) = <<>>
    BY MembersAreFold, J!FoldEmpty
  <2>3. FromJson(<<>>) = Default
    BY <2>2 DEF FromJson
  <2> QED BY <1>2, <2>1, <2>3 DEF Default
<1>3. CASE m.message # None
  <2>1. m.message \in Texts /\ m.message # Null
    BY <1>3, MessageFacts, TextsNotNull
  <2>2. Json(m) = <<Member("message", m.message)>>
    BY <1>3 DEF Json
  <2> DEFINE ms == <<Member("message", m.message)>>
  <2>3. Head(ms).value = m.message /\ ms # <<>>
    BY DEF Member
  <2> HIDE DEF ms
  <2>4. FromJson(ms) = WithMessage(Default, m.message)
    <3>1. MessageMembers(ms) = ms
      BY OneMember DEF ms
    <3> QED BY <2>1, <2>3, <3>1 DEF FromJson
  <2> QED BY <1>1, <2>2, <2>4 DEF ms
<1> QED BY <1>2, <1>3

\* A document that can be read brings a text or nothing.
LEMMA JsonBrings ==
  ASSUME NEW doc \in Seq(Members), ReadsJson(doc)
  PROVE  /\ FromJson(doc).message \in Texts \cup {None}
         /\ FromJson(doc) = [message |-> FromJson(doc).message, unknown |-> <<>>]
<1> DEFINE ms == MessageMembers(doc)
<1>1. ms \in Seq({p \in Members : p.key = "message"})
  BY MembersWithin
<1>2. \A i \in DOMAIN ms : ms[i].value \in Texts \cup {Null}
  BY DEF ReadsJson
<1>3. FromJson(doc) = IF ms = <<>> \/ Head(ms).value = Null THEN Default
                      ELSE WithMessage(Default, Head(ms).value)
  BY Zenon DEF FromJson
<1>4. \A t : WithMessage(Default, t) = [message |-> t, unknown |-> <<>>]
  BY DEF WithMessage, Default
<1> HIDE DEF ms
<1>5. ms # <<>> => Head(ms).value \in Texts \cup {Null}
  <2>1. ms # <<>> => 1 \in DOMAIN ms /\ Head(ms) = ms[1]
    BY <1>1
  <2> QED BY <1>2, <2>1
<1>6. CASE ms = <<>> \/ Head(ms).value = Null
  <2>1. FromJson(doc) = [message |-> None, unknown |-> <<>>]
    BY <1>3, <1>6 DEF Default
  <2> QED BY <2>1
<1>7. CASE ~(ms = <<>> \/ Head(ms).value = Null)
  <2> DEFINE t == Head(ms).value
  <2>1. t \in Texts
    BY <1>5, <1>7
  <2> HIDE DEF t
  <2>2. FromJson(doc) = [message |-> t, unknown |-> <<>>]
    BY <1>3, <1>4, <1>7 DEF t
  <2> QED BY <2>1, <2>2
<1> QED BY <1>6, <1>7

-----------------------------------------------------------------------------
(* The owned message, and both. *)

\* A field that is fed to the owned message.
OwnedRefuses(d, f) == IF f.num = 1 THEN RefusesText(f) ELSE RefusesUnknown(d, f)

LEMMA OwnedField ==
  ASSUME NEW d, Fits(d), ~d.err, NEW f \in Fields, NEW e \in MergeField(d, f)
  PROVE  /\ Fits(e) /\ (e.err <=> OwnedRefuses(d, f))
         /\ ~e.err /\ f.num = 1 => e.msg = WithMessage(d.msg, f.text) /\ e.left = d.left
         /\ ~e.err /\ f.num # 1 =>
              /\ e.msg = WithUnknown(d.msg, Shortest(f)) /\ e.left = d.left - Count(f)
<1>1. d.left \in Nat /\ d.msg \in Messages
  BY DecodeFacts DEF Fits
<1>2. CASE OwnedRefuses(d, f)
  <2>1. \/ e = Failed(d)
        \/ \E t \in {"", d.msg.message} \ {None} : e = Failed([d EXCEPT !.msg = WithMessage(@, t)])
    BY <1>2 DEF MergeField, OwnedRefuses, RefusesText
  <2>2. CASE e = Failed(d)
    BY <1>2, <2>2, FailedFacts
  <2>3. ASSUME NEW t \in {"", d.msg.message} \ {None}, e = Failed([d EXCEPT !.msg = WithMessage(@, t)])
        PROVE  Fits(e) /\ e.err
    <3>1. t \in Texts
      BY <1>1, MessageFacts, CodecAssumption DEF CodecAssumption
    <3> QED BY <2>3, <3>1, ReadFacts, Zenon
  <2> QED BY <1>2, <2>1, <2>2, <2>3
<1>3. CASE ~OwnedRefuses(d, f) /\ f.num = 1
  <2>1. e = [d EXCEPT !.msg = WithMessage(@, f.text)] /\ f.text \in Texts
    BY <1>3, FieldFacts DEF MergeField, OwnedRefuses, RefusesText
  <2>2. Fits(e) /\ ~e.err /\ e.msg = WithMessage(d.msg, f.text) /\ e.left = d.left
    BY <2>1, ReadFacts, Zenon
  <2> QED BY <1>3, <2>2
<1>4. CASE ~OwnedRefuses(d, f) /\ f.num # 1
  <2>1. e = Kept(d, Shortest(f), Count(f)) /\ f.good
    BY <1>4 DEF MergeField, OwnedRefuses, RefusesUnknown
  <2>2. Shortest(f) \in UnknownFields /\ Count(f) \in Nat /\ Count(f) >= 1 /\ Count(f) <= d.left
    BY <1>1, <1>4, FieldFacts DEF OwnedRefuses, RefusesUnknown, UnknownFields
  <2>3. /\ Fits(e) /\ ~e.err /\ e.msg = WithUnknown(d.msg, Shortest(f))
        /\ e.left = d.left - Count(f)
    BY <2>1, <2>2, KeptFacts, Zenon
  <2> QED BY <1>4, <2>3
<1> QED BY <1>2, <1>3, <1>4

\* What the view's limit has left, and what the records it keeps decode to.
LEMMA ViewGrows ==
  ASSUME IInv, ~view.err, NEW f \in Fields, view' = MergeViewField(view, f), ~view'.err
  PROVE  /\ view'.left + Len(view'.msg.unknown) = UnknownLimit
         /\ f.num = 1 => CountAll(view'.msg.unknown) = CountAll(view.msg.unknown)
         /\ f.num # 1 => CountAll(view'.msg.unknown) = CountAll(view.msg.unknown) + Count(f)
<1>1. Fits(view) /\ view.left + Len(view.msg.unknown) = UnknownLimit
  BY DEF IInv, Types, Limits
<1>2. view.msg \in Messages /\ view.left \in Nat /\ UnknownLimit \in Nat
  BY <1>1, DecodeFacts DEF Fits
<1>3. Len(view.msg.unknown) \in Nat
  BY <1>2, MessageFacts
<1>4. CASE f.num = 1
  <2>1. view'.msg = WithMessage(view.msg, f.text) /\ view'.left = view.left /\ f.text \in Texts
    BY <1>1, <1>4, ViewField, FieldFacts
  <2>2. view'.msg.unknown = view.msg.unknown
    BY <1>2, <2>1, WithMessageFacts
  <2> QED BY <1>1, <1>4, <2>1, <2>2
<1>5. CASE f.num # 1
  <2>1. view'.msg = WithUnknown(view.msg, f) /\ view'.left = view.left - 1
    BY <1>1, <1>5, ViewField
  <2>2. f \in UnknownFields
    BY <1>5 DEF UnknownFields
  <2>3. /\ Len(view'.msg.unknown) = Len(view.msg.unknown) + 1
        /\ CountAll(view'.msg.unknown) = CountAll(view.msg.unknown) + Count(f)
    <3>1. view'.msg.unknown = Append(view.msg.unknown, f)
      BY <1>2, <2>1, <2>2, WithUnknownFacts
    <3> QED BY <1>2, <2>2, <3>1, WithUnknownFacts
  <2>4. view'.left + Len(view'.msg.unknown) = UnknownLimit
    BY <1>1, <1>2, <1>3, <2>1, <2>3
  <2> QED BY <1>5, <2>3, <2>4
<1> QED BY <1>4, <1>5

\* As long as the owned decoder is well, it keeps up with the view.
LEMMA OwnedFollows ==
  ASSUME IInv, ~view.err, ~owned.err, NEW f \in Fields,
         view' = MergeViewField(view, f), owned' \in MergeField(owned, f)
  PROVE  /\ view'.err => owned'.err
         /\ ~view'.err => (owned'.err <=> ~Rematerializes(view'.msg))
         /\ ~view'.err /\ ~owned'.err =>
              /\ owned'.msg = ToOwned(view'.msg)
              /\ owned'.left + CountAll(view'.msg.unknown) = UnknownLimit
<1> DEFINE n == CountAll(view.msg.unknown)
<1>1. /\ Fits(view) /\ view.left + Len(view.msg.unknown) = UnknownLimit
      /\ Fits(owned) /\ owned.left + n = UnknownLimit /\ owned.msg = ToOwned(view.msg)
  BY DEF IInv, Types, Limits, DecodersAgree
<1>2. view.msg \in Messages /\ view.left \in Nat /\ owned.left \in Nat /\ UnknownLimit \in Nat
  BY <1>1, DecodeFacts DEF Fits
<1>3. n \in Nat /\ Len(view.msg.unknown) <= n /\ Len(view.msg.unknown) \in Nat
  BY <1>2, MessageFacts
<1>4. /\ view'.err <=> ViewRefuses(view, f)
      /\ owned'.err <=> OwnedRefuses(owned, f)
  BY <1>1, ViewField, OwnedField
<1>5. CASE f.num = 1
  <2>1. view'.err <=> owned'.err
    BY <1>4, <1>5 DEF ViewRefuses, OwnedRefuses
  <2>2. ASSUME ~view'.err
        PROVE  /\ Rematerializes(view'.msg) /\ owned'.msg = ToOwned(view'.msg)
               /\ owned'.left + CountAll(view'.msg.unknown) = UnknownLimit
    <3>1. CountAll(view'.msg.unknown) = n
      BY <1>5, <2>2, ViewGrows
    <3>2. view'.msg = WithMessage(view.msg, f.text) /\ f.text \in Texts
      BY <1>1, <1>5, <2>2, ViewField, FieldFacts
    <3>3. owned'.msg = WithMessage(owned.msg, f.text) /\ owned'.left = owned.left
      BY <1>1, <1>5, <2>1, <2>2, OwnedField
    <3>4. owned'.msg = ToOwned(view'.msg)
      BY <1>1, <1>2, <3>2, <3>3, ToOwnedFacts
    <3> HIDE DEF n
    <3> QED BY <1>1, <1>2, <1>3, <3>1, <3>3, <3>4 DEF Rematerializes
  <2> QED BY <2>1, <2>2
<1>6. CASE f.num # 1
  <2>1. f \in UnknownFields /\ Count(f) \in Nat /\ Count(f) >= 1
    BY <1>6, FieldFacts DEF UnknownFields
  <2>2. /\ owned'.err <=> ~f.good \/ n + Count(f) > UnknownLimit
        /\ view'.err <=> ~f.good \/ view.left = 0
    <3> HIDE DEF n
    <3> QED BY <1>1, <1>2, <1>3, <1>4, <1>6, <2>1 DEF ViewRefuses, OwnedRefuses, RefusesUnknown
  <2>3. view'.err => owned'.err
    <3> HIDE DEF n
    <3> QED BY <1>1, <1>2, <1>3, <2>1, <2>2
  <2>4. ASSUME ~view'.err
        PROVE  /\ owned'.err <=> ~Rematerializes(view'.msg)
               /\ ~owned'.err => /\ owned'.msg = ToOwned(view'.msg)
                                 /\ owned'.left + CountAll(view'.msg.unknown) = UnknownLimit
    <3>1. CountAll(view'.msg.unknown) = n + Count(f) /\ f.good
      BY <1>1, <1>6, <2>4, ViewGrows, ViewField
    <3>2. view'.msg = WithUnknown(view.msg, f)
      BY <1>1, <1>6, <2>4, ViewField
    <3>3. ~owned'.err => /\ owned'.msg = WithUnknown(owned.msg, Shortest(f))
                         /\ owned'.left = owned.left - Count(f)
      BY <1>1, <1>6, OwnedField
    <3>4. ~owned'.err => owned'.msg = ToOwned(view'.msg)
      BY <1>1, <1>2, <2>1, <3>2, <3>3, ToOwnedFacts
    <3> HIDE DEF n
    <3>5. owned'.err <=> ~Rematerializes(view'.msg)
      BY <1>2, <1>3, <2>1, <2>2, <3>1 DEF Rematerializes
    <3>6. ~owned'.err => owned'.left + CountAll(view'.msg.unknown) = UnknownLimit
      BY <1>1, <1>2, <1>3, <2>1, <3>1, <3>3
    <3> QED BY <3>4, <3>5, <3>6
  <2> QED BY <2>3, <2>4
<1> QED BY <1>5, <1>6

LEMMA NextIInv == ASSUME IInv, [Next]_vars PROVE IInv'
<1>1. CASE Clear
  <2>1. owned' = Begun(Default) /\ view' = Begun(Default) /\ fed' = <<>>
    BY <1>1 DEF Clear
  <2> QED BY <2>1, BegunFacts DEF IInv, Types, Limits, DecodersAgree, ViewMeans
<1>2. ASSUME NEW f \in Fed, Feed(f) PROVE IInv'
  <2>1. f \in Fields
    BY FedAssumption DEF FedAssumption
  <2>2. ~view.err /\ view' = MergeViewField(view, f) /\ fed' = Append(fed, f)
    BY <1>2 DEF Feed, IInv, DecodersAgree
  <2>3. /\ owned.err => owned' = owned
        /\ ~owned.err => owned' \in MergeField(owned, f)
    BY <1>2 DEF Feed
  <2>4. Fits(view) /\ Fits(owned) /\ fed \in Seq(Fields) /\ view.msg = Meaning(fed)
    BY <2>2 DEF IInv, Types, ViewMeans
  <2>5. Types'
    <3>1. Fits(view')
      BY <2>1, <2>2, <2>4, ViewField
    <3>2. Fits(owned')
      BY <2>1, <2>3, <2>4, OwnedField
    <3>3. fed' \in Seq(Fields)
      BY <2>1, <2>2, <2>4, AppendProperties
    <3> QED BY <3>1, <3>2, <3>3 DEF Types
  <2>6. Limits' /\ DecodersAgree'
    <3>1. ~view'.err => view'.left + Len(view'.msg.unknown) = UnknownLimit
      BY <2>1, <2>2, ViewGrows
    <3>2. CASE ~owned.err
      BY <2>1, <2>2, <2>3, <3>1, <3>2, OwnedFollows DEF Limits, DecodersAgree
    <3>3. CASE owned.err
      <4>1. owned'.err /\ ~Rematerializes(view.msg)
        BY <2>2, <2>3, <3>3 DEF IInv, DecodersAgree
      <4>2. ASSUME ~view'.err PROVE ~Rematerializes(view'.msg)
        <5>1. CountAll(view.msg.unknown) \in Nat /\ UnknownLimit \in Nat
          BY <2>4, DecodeFacts, MessageFacts DEF Fits
        <5>2. Count(f) \in Nat
          BY <2>1, FieldFacts
        <5>3. \/ CountAll(view'.msg.unknown) = CountAll(view.msg.unknown)
              \/ CountAll(view'.msg.unknown) = CountAll(view.msg.unknown) + Count(f)
          BY <2>1, <2>2, <4>2, ViewGrows
        <5> QED BY <4>1, <5>1, <5>2, <5>3 DEF Rematerializes
      <4> QED BY <3>1, <4>1, <4>2 DEF Limits, DecodersAgree
    <3> QED BY <3>2, <3>3
  <2>7. ViewMeans'
    <3>1. /\ f.num = 1 => Meaning(fed') = WithMessage(view.msg, f.text)
          /\ f.num # 1 => Meaning(fed') = WithUnknown(view.msg, f)
      BY <2>1, <2>2, <2>4, MeaningAppend
    <3>2. ~view'.err => /\ f.num = 1 => view'.msg = WithMessage(view.msg, f.text)
                        /\ f.num # 1 => view'.msg = WithUnknown(view.msg, f)
      BY <2>1, <2>2, <2>4, ViewField
    <3> QED BY <3>1, <3>2 DEF ViewMeans
  <2> QED BY <2>5, <2>6, <2>7 DEF IInv
<1>3. CASE UNCHANGED vars
  BY <1>3 DEF vars, IInv, Types, Limits, DecodersAgree, ViewMeans
<1> QED BY <1>1, <1>2, <1>3 DEF Next

LEMMA Invariance == Spec => []IInv
<1>1. Init => IInv
  BY BegunFacts DEF Init, IInv, Types, Limits, DecodersAgree, ViewMeans
<1>2. IInv /\ [Next]_vars => IInv'
  BY NextIInv
<1> QED BY <1>1, <1>2, PTL DEF Spec

-----------------------------------------------------------------------------
(* The theorems. *)

\* Whatever is fed, the decodes are of their types, no unknown field is the message
\* field, and no more of them are kept than the limit.
THEOREM TypeCorrect == Spec => []TypeOK
<1>1. ASSUME NEW d, Fits(d)
      PROVE  /\ d.msg.message \in Texts \cup {None}
             /\ Len(d.msg.unknown) <= UnknownLimit
             /\ \A i \in DOMAIN d.msg.unknown : d.msg.unknown[i].num # 1
             /\ d.left \in 0..UnknownLimit /\ d.err \in BOOLEAN
  <2>1. /\ d.msg.message \in Texts \cup {None} /\ d.msg.unknown \in Seq(UnknownFields)
        /\ d.left \in 0..UnknownLimit /\ d.err \in BOOLEAN /\ UnknownLimit \in Nat
    BY <1>1, DecodeFacts, MessageFacts DEF Fits, Decodes
  <2>2. Len(d.msg.unknown) <= UnknownLimit
    BY <1>1, <2>1, LenProperties DEF Fits
  <2>3. \A i \in DOMAIN d.msg.unknown : d.msg.unknown[i].num # 1
    BY <2>1 DEF UnknownFields
  <2> QED BY <2>1, <2>2, <2>3
<1>2. IInv => TypeOK
  BY <1>1 DEF IInv, Types, TypeOK
<1> QED BY <1>2, Invariance, PTL

\* merge_field and merge_view_field agree on every buffer: what the validator's owned
\* copy of the handler's view says is what the owned decoder would have said.
THEOREM DecodersDoAgree == Spec => []DecodersAgree
<1>1. IInv => DecodersAgree
  BY DEF IInv
<1> QED BY <1>1, Invariance, PTL

\* What either decoder returns is the last text and the unknown fields in order,
\* whatever came before in the same message.
THEOREM DecodedIsMeant == Spec => []DecodesMeaning
<1>1. IInv => DecodesMeaning
  <2>1. ASSUME IInv PROVE DecodesMeaning
    BY <2>1 DEF IInv, ViewMeans, DecodersAgree, DecodesMeaning
  <2> QED BY <2>1
<1> QED BY <1>1, Invariance, PTL

\* write_to loses nothing of a message that was decoded.
THEOREM EncodingRoundTrips == Spec => []RoundTrips
<1>1. IInv => RoundTrips
  BY RoundTrip, DecodeFacts DEF IInv, Types, Fits, RoundTrips
<1> QED BY <1>1, Invariance, PTL

\* compute_size announces what write_to writes, for every length of the text and of
\* the unknown fields.
THEOREM SizesAreExact == Spec => []SizeIsExact
<1>1. IInv => SizeIsExact
  BY SizeLemma, DecodeFacts DEF IInv, Types, Fits, SizeIsExact
<1> QED BY <1>1, Invariance, PTL

-----------------------------------------------------------------------------
(* MessageHandles: the inductive invariant. *)

\* What an owned message can be: fields that can be read, in their shortest encoding.
Held == {m \in Messages : m.unknown \in Seq(HeldUnknown)}

Owns ==
  /\ request \in Held
  /\ Len(request.unknown) <= MaxUnknown \/ Len(request.unknown) <= UnknownLimit

\* The view is the meaning of the buffer it travels with, however it came about.
Borrows ==
  /\ handle.bytes \in Seq(Fields) /\ Accepts(handle.bytes)
  /\ handle.view = Meaning(handle.bytes)

HandlesIInv == Owns /\ Borrows /\ res \in {"ok", "malformed", "too_many"}

\* What the invariant says of the view.
LEMMA ViewFacts ==
  ASSUME NEW b \in Seq(Fields), Accepts(b)
  PROVE  /\ Meaning(b) \in Messages /\ Meaning(b).unknown \in Seq(ReadUnknown)
         /\ Len(Meaning(b).unknown) <= UnknownLimit
         /\ ToOwned(Meaning(b)) \in Held
<1>1. b \in Seq(Readable) /\ Len(UnknownIn(b)) <= UnknownLimit
  BY AcceptsIs
<1>2. Meaning(b).unknown = UnknownIn(b)
  BY DEF Meaning
<1>3. Meaning(b) \in Messages /\ Meaning(b).unknown \in Seq(ReadUnknown)
  BY <1>1, <1>2, MeaningType, UnknownWithin
<1> HIDE DEF Meaning
<1> QED BY <1>1, <1>2, <1>3, CopyFacts, ToOwnedFacts DEF Held

\* A message without unknown fields.
LEMMA PlainFacts ==
  ASSUME NEW t \in Texts \cup {None}, NEW m, m = [message |-> t, unknown |-> <<>>]
  PROVE  m \in Held /\ Len(m.unknown) <= UnknownLimit
<1>1. m.unknown = <<>> /\ m \in Messages
  BY EmptySeq DEF Messages
<1>2. <<>> \in Seq(HeldUnknown)
  BY EmptySeq
<1>3. Len(<<>>) = 0 /\ UnknownLimit \in Nat
  BY BegunFacts
<1>4. m \in Held
  BY <1>1, <1>2 DEF Held
<1>5. Len(m.unknown) <= UnknownLimit
  <2> DEFINE n == Len(m.unknown)
  <2>1. n = 0
    BY <1>1, <1>3
  <2> HIDE DEF n
  <2>2. n <= UnknownLimit
    BY <1>3, <2>1
  <2> QED BY <2>2 DEF n
<1> QED BY <1>4, <1>5

\* A buffer that is wrapped into a handle.
LEMMA WrapFacts ==
  ASSUME Borrows, NEW b \in Seq(Fields), NEW e, Wrap(b, e)
  PROVE  /\ Borrows' /\ UNCHANGED request
         /\ \/ Accepts(b) /\ res' = "ok" /\ handle'.view = Meaning(b)
            \/ ~Accepts(b) /\ res' = e /\ UNCHANGED handle
<1>1. DecodeView(b).err <=> ~Accepts(b)
  BY DecodeViewFacts
<1>2. CASE Accepts(b)
  <2>1. DecodeView(b).msg = Meaning(b)
    BY <1>2, DecodeViewFacts
  <2>2. handle' = [bytes |-> b, view |-> Meaning(b)] /\ res' = "ok" /\ UNCHANGED request
    BY <1>1, <1>2, <2>1 DEF Wrap
  <2>3. handle'.bytes = b /\ handle'.view = Meaning(b)
    BY <2>2
  <2> QED BY <1>2, <2>2, <2>3 DEF Borrows
<1>3. CASE ~Accepts(b)
  <2>1. UNCHANGED handle /\ res' = e /\ UNCHANGED request
    BY <1>1, <1>3 DEF Wrap
  <2> QED BY <1>3, <2>1 DEF Borrows
<1> QED BY <1>2, <1>3

\* A user's field joins the others.
LEMMA ExtendFacts ==
  ASSUME Owns, NEW f \in Extensions, Extend(f)
  PROVE  Owns' /\ request' = WithUnknown(request, f)
<1>1. request' = WithUnknown(request, f) /\ Len(request.unknown) < MaxUnknown
  BY DEF Extend, WithUnknown
<1>2. request \in Messages /\ request.unknown \in Seq(HeldUnknown) /\ Len(request.unknown) \in Nat
  BY MessageFacts DEF Owns, Held
<1>3. f \in HeldUnknown /\ f \in UnknownFields
  BY HandlesAssumption DEF HandlesAssumption, HeldUnknown, ReadUnknown, UnknownFields
<1>4. /\ WithUnknown(request, f) \in Messages
      /\ WithUnknown(request, f).unknown = Append(request.unknown, f)
      /\ Len(Append(request.unknown, f)) = Len(request.unknown) + 1
  BY <1>2, <1>3, WithUnknownFacts
<1>5. Append(request.unknown, f) \in Seq(HeldUnknown)
  BY <1>2, <1>3, AppendProperties
<1>6. MaxUnknown \in Nat
  BY HandlesAssumption DEF HandlesAssumption
<1>7. request' \in Held
  BY <1>1, <1>4, <1>5 DEF Held
<1>8. Len(request'.unknown) <= MaxUnknown
  BY <1>1, <1>2, <1>4, <1>6
<1> QED BY <1>1, <1>7, <1>8 DEF Owns

\* What is left of a message in JSON.
LEMMA StrippedFacts ==
  ASSUME NEW m \in Messages
  PROVE  /\ FromJson(Json(m)) = [message |-> m.message, unknown |-> <<>>]
         /\ FromJson(Json(m)) \in Held /\ Len(FromJson(Json(m)).unknown) <= UnknownLimit
BY JsonDrops, PlainFacts, MessageFacts

LEMMA HandlesStep == HandlesIInv /\ [HandlesNext]_handlesVars => HandlesIInv'
<1> SUFFICES ASSUME HandlesIInv, [HandlesNext]_handlesVars PROVE HandlesIInv'
  OBVIOUS
<1>1. Owns /\ Borrows /\ res \in {"ok", "malformed", "too_many"}
  BY DEF HandlesIInv
<1>2. request \in Messages /\ request.unknown \in Seq(HeldUnknown) /\ UnknownLimit \in Nat
  BY <1>1, BegunFacts DEF Owns, Held
<1>3. /\ handle.view \in Messages /\ handle.view.unknown \in Seq(ReadUnknown)
      /\ Len(handle.view.unknown) <= UnknownLimit /\ ToOwned(handle.view) \in Held
      /\ handle.bytes \in Seq(Fields)
  BY <1>1, ViewFacts DEF Borrows
<1>4. ASSUME NEW t \in Texts, SetMessage(t) PROVE HandlesIInv'
  <2>1. request' = WithMessage(request, t) /\ UNCHANGED handle /\ res' = "ok"
    BY <1>4 DEF SetMessage
  <2>2. request' \in Held /\ request'.unknown = request.unknown
    BY <1>2, <2>1, WithMessageFacts DEF Held
  <2> QED BY <1>1, <2>1, <2>2 DEF HandlesIInv, Owns, Borrows
<1>5. ASSUME NEW f \in Extensions, Extend(f) PROVE HandlesIInv'
  <2>1. UNCHANGED handle /\ res' = "ok"
    BY <1>5 DEF Extend
  <2> QED BY <1>1, <1>5, <2>1, ExtendFacts DEF HandlesIInv, Borrows
<1>6. ASSUME NEW doc \in Documents, ReadJson(doc) PROVE HandlesIInv'
  <2>1. UNCHANGED handle
    BY <1>6 DEF ReadJson
  <2>2. CASE ReadsJson(doc)
    <3>1. request' = FromJson(doc) /\ res' = "ok" /\ doc \in Seq(Members)
      BY <1>6, <2>2, HandlesAssumption DEF ReadJson, HandlesAssumption
    <3>2. FromJson(doc) \in Held /\ Len(FromJson(doc).unknown) <= UnknownLimit
      BY <2>2, <3>1, JsonBrings, PlainFacts
    <3> QED BY <1>1, <2>1, <3>1, <3>2 DEF HandlesIInv, Owns, Borrows
  <2>3. CASE ~ReadsJson(doc)
    <3>1. UNCHANGED request /\ res' = "malformed"
      BY <1>6, <2>3 DEF ReadJson
    <3> QED BY <1>1, <2>1, <3>1 DEF HandlesIInv, Owns, Borrows
  <2> QED BY <2>2, <2>3
<1>7. ASSUME NEW b \in Seq(Fields), NEW e, Wrap(b, e), Accepts(b) \/ e \in {"malformed", "too_many"}
      PROVE  HandlesIInv'
  <2>1. Borrows' /\ UNCHANGED request /\ res' \in {"ok", "malformed", "too_many"}
    BY <1>1, <1>7, WrapFacts
  <2> QED BY <1>1, <2>1 DEF HandlesIInv, Owns
<1>8. ASSUME NEW b \in Buffers, Decode(b) PROVE HandlesIInv'
  <2>1. b \in Seq(Fields) /\ Wrap(b, "malformed")
    BY <1>8, HandlesAssumption DEF HandlesAssumption, Decode
  <2> QED BY <1>7, <2>1
<1>9. ASSUME NEW b \in Buffers, DecodeWithOptions(b) PROVE HandlesIInv'
  <2>1. CASE WrittenLen(b) > MaxSize
    <3>1. UNCHANGED <<request, handle>> /\ res' = "malformed"
      BY <1>9, <2>1 DEF DecodeWithOptions
    <3> QED BY <1>1, <3>1 DEF HandlesIInv, Owns, Borrows
  <2>2. CASE ~(WrittenLen(b) > MaxSize)
    <3>1. b \in Seq(Fields) /\ Wrap(b, "malformed")
      BY <1>9, <2>2, HandlesAssumption DEF HandlesAssumption, DecodeWithOptions
    <3> QED BY <1>7, <3>1
  <2> QED BY <2>1, <2>2
<1>10. ASSUME ClearOwned PROVE HandlesIInv'
  <2>1. request' = [message |-> None, unknown |-> <<>>] /\ UNCHANGED handle /\ res' = "ok"
    BY <1>10 DEF ClearOwned, Default
  <2>2. request' \in Held /\ Len(request'.unknown) <= UnknownLimit
    BY <2>1, PlainFacts
  <2> QED BY <1>1, <2>1, <2>2 DEF HandlesIInv, Owns, Borrows
<1>11. ASSUME ThroughJson PROVE HandlesIInv'
  <2>1. request' = FromJson(Json(request)) /\ UNCHANGED handle /\ res' = "ok"
    BY <1>11 DEF ThroughJson
  <2> QED BY <1>1, <1>2, <2>1, StrippedFacts DEF HandlesIInv, Owns, Borrows
<1>12. ASSUME FromOwned PROVE HandlesIInv'
  <2>1. Wrap(WriteTo(request), "too_many") /\ WriteTo(request) \in Seq(Fields)
    BY <1>2, <1>12, WrittenIsRead, KindsOfFields DEF FromOwned
  <2> QED BY <1>7, <2>1
<1>13. ASSUME ToOwnedMessage PROVE HandlesIInv'
  <2>1. UNCHANGED handle
    BY <1>13 DEF ToOwnedMessage
  <2>2. CASE Rematerializes(handle.view)
    <3>1. request' = ToOwned(handle.view) /\ res' = "ok"
      BY <1>13, <2>2 DEF ToOwnedMessage
    <3>2. Len(ToOwned(handle.view).unknown) <= UnknownLimit
      BY <1>3, ToOwnedFacts
    <3> QED BY <1>1, <1>3, <2>1, <3>1, <3>2 DEF HandlesIInv, Owns, Borrows
  <2>3. CASE ~(Rematerializes(handle.view))
    <3>1. UNCHANGED request /\ res' = "too_many"
      BY <1>13, <2>3 DEF ToOwnedMessage
    <3> QED BY <1>1, <2>1, <3>1 DEF HandlesIInv, Owns, Borrows
  <2> QED BY <2>2, <2>3
<1>14. ASSUME Reencode PROVE HandlesIInv'
  <2>1. Wrap(WriteTo(handle.view), "broken")
    BY <1>14 DEF Reencode, EncodeViewBody
  <2>2. WriteTo(handle.view) \in Seq(Fields) /\ Accepts(WriteTo(handle.view))
    BY <1>3, WrittenIsRead
  <2> QED BY <1>7, <2>1, <2>2
<1>15. ASSUME Unwrap PROVE HandlesIInv'
  <2>1. Wrap(handle.bytes, "broken") /\ Accepts(handle.bytes)
    BY <1>1, <1>15 DEF Unwrap, Borrows
  <2> QED BY <1>3, <1>7, <2>1
<1>16. ASSUME ViewThroughJson PROVE HandlesIInv'
  <2>1. request' = FromJson(Json(handle.view)) /\ UNCHANGED handle /\ res' = "ok"
    BY <1>16 DEF ViewThroughJson, EncodeViewBody
  <2> QED BY <1>1, <1>3, <2>1, StrippedFacts DEF HandlesIInv, Owns, Borrows
<1>17. CASE UNCHANGED handlesVars
  BY <1>1, <1>17 DEF handlesVars, HandlesIInv, Owns, Borrows
<1> QED BY <1>4, <1>5, <1>6, <1>8, <1>9, <1>10, <1>11, <1>12, <1>13, <1>14, <1>15, <1>16, <1>17
        DEF HandlesNext

LEMMA HandlesInvariance == HandlesSpec => []HandlesIInv
<1>1. HandlesInit => HandlesIInv
  <2> SUFFICES ASSUME HandlesInit PROVE HandlesIInv
    OBVIOUS
  <2>1. request = [message |-> None, unknown |-> <<>>] /\ res = "ok"
        /\ handle.bytes = <<>> /\ handle.view = Default
    BY DEF HandlesInit, Default
  <2>2. Owns
    BY <2>1, PlainFacts DEF Owns
  <2>3. Accepts(<<>>)
    <3>1. UnknownIn(<<>>) = <<>> /\ DOMAIN <<>> = {}
      BY UnknownIsFold, U!FoldEmpty
    <3> QED BY <3>1, BegunFacts DEF Accepts
  <2> QED BY <2>1, <2>2, <2>3, BegunFacts DEF HandlesIInv, Borrows
<1> QED BY <1>1, HandlesStep, PTL DEF HandlesSpec

-----------------------------------------------------------------------------
(* MessageHandles: the theorems. *)

\* However the conversions are chained, the message and the view are of their types,
\* neither holds more unknown fields than it may, and what was decoded or encoded once
\* is never refused as broken.
THEOREM HandlesTypeCorrect == HandlesSpec => []HandlesTypeOK
<1>1. ASSUME HandlesIInv PROVE HandlesTypeOK
  <2>1. request \in Messages /\ Owns /\ Borrows
    BY <1>1 DEF HandlesIInv, Owns, Held
  <2>2. request.message \in Texts \cup {None} /\ request.unknown \in Seq(UnknownFields)
    BY <2>1, MessageFacts
  <2>3. \A i \in DOMAIN request.unknown : request.unknown[i].num # 1
    BY <2>2 DEF UnknownFields
  <2>4. handle.view \in Messages /\ Len(handle.view.unknown) <= UnknownLimit
    BY <2>1, ViewFacts DEF Borrows
  <2>5. handle.view.message \in Texts \cup {None}
    BY <2>4, MessageFacts
  <2> QED BY <1>1, <2>1, <2>2, <2>3, <2>4, <2>5 DEF HandlesTypeOK, HandlesIInv, Owns
<1> QED BY <1>1, HandlesInvariance, PTL

\* Whatever a buffer repeats or pads, what its view is encoded to is no longer.
THEOREM HandlesNeverGrow == HandlesSpec => []NeverGrows
<1>1. ASSUME HandlesIInv PROVE NeverGrows
  <2>1. handle.view = Meaning(handle.bytes) /\ handle.bytes \in Seq(Readable)
    BY <1>1, AcceptsIs DEF HandlesIInv, Borrows
  <2> QED BY <2>1, Shrinks DEF NeverGrows
<1> QED BY <1>1, HandlesInvariance, PTL

\* The registers have the operators of this codec.
LEMMA SameValues ==
  /\ Registers!Default = Default
  /\ \A m, t : Registers!WithMessage(m, t) = WithMessage(m, t)
  /\ \A m : Registers!Rematerializes(m) <=> Rematerializes(m)
<1>1. Registers!Default = Default
  BY DEF Registers!Default, Default, Registers!None, None
<1>2. \A m, t : Registers!WithMessage(m, t) = WithMessage(m, t)
  BY DEF Registers!WithMessage, WithMessage
<1>3. \A m : Registers!Rematerializes(m) <=> Rematerializes(m)
  BY DEF Registers!Rematerializes, Rematerializes, Registers!CountAll, CountAll,
         Registers!Count, Count, Registers!FoldLeft, FoldLeft,
         Registers!MapThenFoldSet, MapThenFoldSet, Registers!Max, Max
<1> QED BY <1>1, <1>2, <1>3

\* The value of the view.
Viewed == ToOwned(handle.view)

LEMMA SameView == UNCHANGED handle => UNCHANGED Viewed
BY DEF Viewed

\* What JSON leaves of a message is that message without its unknown fields.
LEMMA StripIs ==
  ASSUME NEW m \in Messages
  PROVE  FromJson(Json(m)) = [ToOwned(m) EXCEPT !.unknown = <<>>]
<1>1. FromJson(Json(m)) = [message |-> m.message, unknown |-> <<>>]
  BY JsonDrops
<1>2. ToOwned(m) \in Messages /\ ToOwned(m).message = m.message
  BY ToOwnedFacts DEF ToOwned
<1> DEFINE o == ToOwned(m)
<1>3. o = [message |-> o.message, unknown |-> o.unknown]
  BY <1>2, MessageFacts
<1> HIDE DEF o
<1>4. [o EXCEPT !.unknown = <<>>] = [message |-> o.message, unknown |-> <<>>]
  BY <1>3
<1> QED BY <1>1, <1>2, <1>4 DEF o

\* Every operation is one of the registers'.
LEMMA HandlesRefine == ASSUME HandlesIInv, HandlesNext PROVE Registers!Next
<1>1. /\ Owns /\ Borrows /\ request \in Held /\ request \in Messages
      /\ request.unknown \in Seq(ReadUnknown)
  BY KindsOfFields DEF HandlesIInv, Owns, Held
<1>2. /\ handle.view \in Messages /\ handle.view.unknown \in Seq(ReadUnknown)
      /\ Len(handle.view.unknown) <= UnknownLimit
      /\ handle.bytes \in Seq(Fields) /\ Accepts(handle.bytes)
      /\ handle.view = Meaning(handle.bytes)
  BY <1>1, ViewFacts DEF Borrows
<1>3. ASSUME NEW t \in Texts, SetMessage(t) PROVE Registers!Change
  <2>1. request' = WithMessage(request, t) /\ UNCHANGED handle /\ res' = "ok"
    BY <1>3 DEF SetMessage
  <2> QED BY <2>1, SameView, SameValues DEF Registers!Change, Viewed
<1>4. ASSUME NEW f \in Extensions, Extend(f) PROVE Registers!Change
  <2>1. request' = [request EXCEPT !.unknown = Append(@, f)] /\ UNCHANGED handle /\ res' = "ok"
    BY <1>4 DEF Extend
  <2> QED BY <2>1, SameView, Zenon DEF Registers!Change, Viewed
<1>5. ASSUME ClearOwned PROVE Registers!Change
  <2>1. request' = Default /\ UNCHANGED handle /\ res' = "ok"
    BY <1>5 DEF ClearOwned
  <2> QED BY <2>1, SameView, SameValues DEF Registers!Change, Viewed
<1>6. ASSUME NEW doc \in Documents, ReadJson(doc) PROVE Registers!Receive
  <2>1. UNCHANGED handle
    BY <1>6 DEF ReadJson
  <2>2. CASE ReadsJson(doc)
    <3>1. request' = FromJson(doc) /\ res' = "ok"
      BY <1>6, <2>2 DEF ReadJson
    <3>2. FromJson(doc) \in Incoming
      BY <2>2 DEF Incoming
    <3> QED BY <2>1, <3>1, <3>2, SameView DEF Registers!Receive, Viewed
  <2>3. CASE ~ReadsJson(doc)
    <3>1. UNCHANGED request /\ res' = "malformed"
      BY <1>6, <2>3 DEF ReadJson
    <3> QED BY <2>1, <3>1, SameView DEF Registers!Receive, Viewed
  <2> QED BY <2>2, <2>3
<1>7. ASSUME NEW b \in Buffers, Wrap(b, "malformed") PROVE Registers!Receive
  <2>1. b \in Seq(Fields)
    BY HandlesAssumption DEF HandlesAssumption
  <2>2. UNCHANGED request
    BY <1>7 DEF Wrap
  <2>3. CASE DecodeView(b).err
    <3>1. UNCHANGED handle /\ res' = "malformed"
      BY <1>7, <2>3 DEF Wrap
    <3> QED BY <2>2, <3>1, SameView DEF Registers!Receive, Viewed
  <2>4. CASE ~DecodeView(b).err
    <3>1. handle' = [bytes |-> b, view |-> DecodeView(b).msg] /\ res' = "ok"
      BY <1>7, <2>4 DEF Wrap
    <3>2. Viewed' = ToOwned(DecodeView(b).msg)
      BY <3>1 DEF Viewed
    <3>3. ToOwned(DecodeView(b).msg) \in Incoming
      BY <2>4 DEF Incoming
    <3> QED BY <2>2, <3>1, <3>2, <3>3 DEF Registers!Receive, Viewed
  <2> QED BY <2>3, <2>4
<1>8. ASSUME NEW b \in Buffers, Decode(b) \/ DecodeWithOptions(b) PROVE Registers!Receive
  <2>1. CASE Wrap(b, "malformed")
    BY <1>7, <2>1
  <2>2. CASE ~Wrap(b, "malformed")
    <3>1. UNCHANGED <<request, handle>> /\ res' = "malformed"
      BY <1>8, <2>2 DEF Decode, DecodeWithOptions
    <3> QED BY <3>1, SameView DEF Registers!Receive, Viewed
  <2> QED BY <2>1, <2>2
<1>9. ASSUME ThroughJson PROVE Registers!Strip
  <2>1. request' = FromJson(Json(request)) /\ UNCHANGED handle /\ res' = "ok"
    BY <1>9 DEF ThroughJson
  <2>2. ToOwned(request) = request
    BY <1>1, CopyFacts DEF Held
  <2>3. request' = [request EXCEPT !.unknown = <<>>]
    BY <1>1, <2>1, <2>2, StripIs
  <2> QED BY <2>1, <2>3, SameView DEF Registers!Strip, Viewed
<1>10. ASSUME ViewThroughJson PROVE Registers!Strip
  <2>1. request' = FromJson(Json(handle.view)) /\ UNCHANGED handle /\ res' = "ok"
    BY <1>10 DEF ViewThroughJson, EncodeViewBody
  <2>2. request' = [Viewed EXCEPT !.unknown = <<>>]
    BY <1>2, <2>1, StripIs DEF Viewed
  <2> QED BY <2>1, <2>2, SameView DEF Registers!Strip, Viewed
<1>11. ASSUME FromOwned PROVE Registers!ToView
  <2> DEFINE b == WriteTo(request)
  <2>1. Wrap(b, "too_many")
    BY <1>11 DEF FromOwned
  <2>2. /\ ~DecodeView(b).err <=> Len(request.unknown) <= UnknownLimit
        /\ ~DecodeView(b).err => DecodeView(b).msg = request
    BY <1>1, WrittenIsRead
  <2>3. ToOwned(request) = request
    BY <1>1, CopyFacts DEF Held
  <2> HIDE DEF b
  <2>4. CASE Len(request.unknown) <= UnknownLimit
    <3>1. handle' = [bytes |-> b, view |-> request] /\ res' = "ok" /\ UNCHANGED request
      BY <2>1, <2>2, <2>4 DEF Wrap
    <3>2. Viewed' = request
      BY <2>3, <3>1 DEF Viewed
    <3> QED BY <2>4, <3>1, <3>2 DEF Registers!ToView, Viewed
  <2>5. CASE ~(Len(request.unknown) <= UnknownLimit)
    <3>1. UNCHANGED handle /\ res' = "too_many" /\ UNCHANGED request
      BY <2>1, <2>2, <2>5 DEF Wrap
    <3> QED BY <2>5, <3>1, SameView DEF Registers!ToView, Viewed
  <2> QED BY <2>4, <2>5
<1>12. ASSUME ToOwnedMessage PROVE Registers!ToMessage
  <2>1. Registers!Rematerializes(Viewed) <=> Rematerializes(handle.view)
    BY <1>2, CopyFacts, SameValues DEF Rematerializes, Viewed
  <2>2. CASE Rematerializes(handle.view)
    <3>1. request' = Viewed /\ res' = "ok" /\ UNCHANGED handle
      BY <1>12, <2>2 DEF ToOwnedMessage, Viewed
    <3> QED BY <2>1, <2>2, <3>1, SameView DEF Registers!ToMessage, Viewed
  <2>3. CASE ~Rematerializes(handle.view)
    <3>1. UNCHANGED request /\ res' = "too_many" /\ UNCHANGED handle
      BY <1>12, <2>3 DEF ToOwnedMessage
    <3> QED BY <2>1, <2>3, <3>1, SameView DEF Registers!ToMessage, Viewed
  <2> QED BY <2>2, <2>3
<1>13. ASSUME NEW b, Wrap(b, "broken"), ~DecodeView(b).err, DecodeView(b).msg = handle.view
       PROVE  Registers!Pass
  <2>1. handle' = [bytes |-> b, view |-> handle.view] /\ res' = "ok" /\ UNCHANGED request
    BY <1>13 DEF Wrap
  <2>2. Viewed' = Viewed
    BY <2>1 DEF Viewed
  <2> QED BY <2>1, <2>2 DEF Registers!Pass, Viewed
<1>14. ASSUME Reencode PROVE Registers!Pass
  <2>1. Wrap(WriteTo(handle.view), "broken")
    BY <1>14 DEF Reencode, EncodeViewBody
  <2>2. /\ ~DecodeView(WriteTo(handle.view)).err
        /\ DecodeView(WriteTo(handle.view)).msg = handle.view
    BY <1>2, WrittenIsRead
  <2> QED BY <1>13, <2>1, <2>2
<1>15. ASSUME Unwrap PROVE Registers!Pass
  <2>1. Wrap(handle.bytes, "broken")
    BY <1>15 DEF Unwrap
  <2>2. ~DecodeView(handle.bytes).err /\ DecodeView(handle.bytes).msg = handle.view
    BY <1>2, DecodeViewFacts
  <2> QED BY <1>13, <2>1, <2>2
<1> QED BY <1>3, <1>4, <1>5, <1>6, <1>8, <1>9, <1>10, <1>11, <1>12, <1>14, <1>15
        DEF HandlesNext, Registers!Next

\* The message and the handle implement two registers: a conversion copies the value
\* whatever it was encoded in on the way, or fails and changes nothing.
THEOREM HandlesKeepValues == HandlesSpec => KeepsValues
<1>1. HandlesInit => Registers!Init
  BY BegunFacts, SameValues DEF HandlesInit, Registers!Init
<1>2. HandlesIInv /\ [HandlesNext]_handlesVars => [Registers!Next]_(Registers!vars)
  <2>1. ASSUME HandlesIInv, HandlesNext PROVE Registers!Next
    BY <2>1, HandlesRefine
  <2>2. ASSUME UNCHANGED handlesVars PROVE UNCHANGED Registers!vars
    BY <2>2 DEF handlesVars, Registers!vars
  <2> QED BY <2>1, <2>2
<1> QED BY <1>1, <1>2, HandlesInvariance, PTL DEF HandlesSpec, KeepsValues, Registers!Spec
=============================================================================
