----------------------------- MODULE EchoCodec -----------------------------
(***************************************************************************)
(* The generated Rust codec of EchoRequest and EchoResponse                *)
(* (rust/api/gen/buffa/api.v1.rs; the two types are the same), as          *)
(* functions.  A message has two decoders for one wire format: merge_field *)
(* fills an owned message, merge_view_field a view that borrows from the   *)
(* buffer.  Both keep unknown fields, the first decoded, the second as the *)
(* spans it skipped.  Bytes are abstracted to fields and their lengths, a  *)
(* JSON text to its members.                                               *)
(***************************************************************************)
EXTENDS Naturals, Sequences, SequenceFilter

CONSTANTS
  Texts,        \* values of a string field, the empty string among them
  TextLen,      \* [Texts -> Nat], their length in bytes
  UnknownLimit  \* unknown fields a decode accepts

None == "none"

ASSUME CodecAssumption ==
  /\ "" \in Texts /\ None \notin Texts
  /\ TextLen \in [Texts -> Nat] /\ \A t \in Texts : TextLen[t] = 0 <=> t = ""
  /\ UnknownLimit \in Nat

\* A field on the wire: number, wire type; the fields a group encloses; the bytes it
\* takes beyond its shortest encoding; whether it can be read (not truncated or too
\* deep, a text in UTF-8); and the text.
WireTypes == {"varint", "len", "group"}
Fields == [num : {1, 2}, wire : WireTypes, inner : Nat, pad : Nat, good : BOOLEAN, text : Texts]

TextField(t) ==
  [num |-> 1, wire |-> "len", inner |-> 0, pad |-> 0, good |-> TRUE, text |-> t]

Default == [message |-> None, unknown |-> <<>>]

WithMessage(m, t) == [m EXCEPT !.message = t]
WithUnknown(m, f) == [m EXCEPT !.unknown = Append(@, f)]

-----------------------------------------------------------------------------
(* Decoding.  A decode has the message so far, how many unknown fields its *)
(* context still accepts, and whether it has returned an error.            *)

Begun(m) == [msg |-> m, left |-> UnknownLimit, err |-> FALSE]
Failed(d) == [d EXCEPT !.err = TRUE]

\* decode_unknown_field counts the fields inside a group as well, and what it
\* returns is encoded in the shortest way.
Count(f) == 1 + f.inner
Shortest(f) == [f EXCEPT !.pad = 0]

\* An unknown field joins the others, and n are counted.
Kept(d, f, n) ==
  [msg |-> WithUnknown(d.msg, f), left |-> d.left - n, err |-> d.err]

\* check_wire_type comes first, then the text is read.
RefusesText(f) == f.wire # "len" \/ ~f.good

\* Mutant: the limit is off by one.
BugOverLimit(d, f) == ~f.good \/ Count(f) > d.left + 1

RefusesUnknown(d, f) == ~f.good \/ Count(f) > d.left

\* merge_field: the possible results.  A text is merged in place and the field is
\* made present first (get_or_insert_with), so a text that cannot be read leaves
\* the field present, with what it held or nothing.
MergeField(d, f) ==
  IF f.num = 1
  THEN IF f.wire # "len" THEN {Failed(d)}
       ELSE IF ~f.good
       THEN {Failed([d EXCEPT !.msg = WithMessage(@, t)]) : t \in {"", d.msg.message} \ {None}}
       ELSE {[d EXCEPT !.msg = WithMessage(@, f.text)]}
  ELSE IF RefusesUnknown(d, f) THEN {Failed(d)}
       ELSE {Kept(d, Shortest(f), Count(f))}

\* Mutant: the first occurrence of the field wins.
BugFirstWins(d, f) ==
  IF f.num = 1
  THEN IF RefusesText(f) THEN Failed(d)
       ELSE [d EXCEPT !.msg.message = IF @ = None THEN f.text ELSE @]
  ELSE IF ~f.good \/ d.left = 0 THEN Failed(d)
       ELSE Kept(d, f, 1)

\* merge_view_field.  The view is assigned only what was read; an unknown field,
\* a group too, is one record.
MergeViewField(d, f) ==
  IF f.num = 1
  THEN IF RefusesText(f) THEN Failed(d) ELSE [d EXCEPT !.msg = WithMessage(@, f.text)]
  ELSE IF ~f.good \/ d.left = 0 THEN Failed(d)
       ELSE Kept(d, f, 1)

\* decode_view of a whole buffer; an error ends it.
DecodeView(b) ==
  FoldLeft(LAMBDA d, f : IF d.err THEN d ELSE MergeViewField(d, f), Begun(Default), b)

\* The unknown fields that the records of a view decode to.
CountAll(us) == FoldLeft(LAMBDA n, f : n + Count(f), 0, us)

\* to_owned_from_source decodes the records again, under a limit of their own.
Rematerializes(v) == CountAll(v.unknown) <= UnknownLimit

ToOwned(v) ==
  [message |-> v.message, unknown |-> [i \in DOMAIN v.unknown |-> Shortest(v.unknown[i])]]

-----------------------------------------------------------------------------
(* Encoding, of owned messages and of views. *)

\* Mutant: a set but empty text is not written, as in proto3 without presence.
BugSkipsEmpty(m) ==
  (IF m.message \in {None, ""} THEN <<>> ELSE <<TextField(m.message)>>) \o m.unknown

\* write_to: the message field if it is set, then the unknown fields in order.
WriteTo(m) ==
  (IF m.message = None THEN <<>> ELSE <<TextField(m.message)>>) \o m.unknown

VarintLen(n) == IF n < 128 THEN 1 ELSE IF n < 16384 THEN 2 ELSE 3
StringLen(t) == VarintLen(TextLen[t]) + TextLen[t]

\* The bytes of a field; those inside a group are taken for one-byte varints.
FieldLen(f) ==
  f.pad + CASE f.wire = "varint" -> 2
            [] f.wire = "len"    -> 1 + StringLen(f.text)
            [] f.wire = "group"  -> 2 + 2 * f.inner

WrittenLen(fs) == FoldLeft(LAMBDA n, f : n + FieldLen(f), 0, fs)

\* Mutant: one byte for the length prefix, whatever the length.
BugOneBytePrefix(m) ==
  (IF m.message = None THEN 0 ELSE 1 + 1 + TextLen[m.message]) + WrittenLen(m.unknown)

\* compute_size: one byte for the tag, the text with its length, the unknown fields.
ComputeSize(m) ==
  (IF m.message = None THEN 0 ELSE 1 + StringLen(m.message)) + WrittenLen(m.unknown)

-----------------------------------------------------------------------------
(* JSON: a document is the sequence of the members of an object. *)

\* A value is a text, null, or of another type.
Null == "null"

ASSUME JsonAssumption == {Null, "number"} \cap Texts = {}

Members == [key : {"message", "other"}, value : Texts \cup {Null, "number"}]
Member(k, v) == [key |-> k, value |-> v]

\* Serialize: the message if it is set; unknown fields are skipped.
Json(m) == IF m.message = None THEN <<>> ELSE <<Member("message", m.message)>>

\* Deserialize: a member given twice and a value of another type are errors;
\* other members are ignored; null and a missing member leave the default.
MessageMembers(doc) == Keep(doc, LAMBDA p : p.key = "message")

ReadsJson(doc) ==
  LET ms == MessageMembers(doc) IN
  Len(ms) <= 1 /\ \A i \in DOMAIN ms : ms[i].value \in Texts \cup {Null}

FromJson(doc) ==
  LET ms == MessageMembers(doc) IN
  IF ms = <<>> \/ Head(ms).value = Null THEN Default
  ELSE WithMessage(Default, Head(ms).value)

-----------------------------------------------------------------------------
(* What a sequence of fields means, whoever decodes it. *)

TextsIn(fs) == Keep(fs, LAMBDA f : f.num = 1)
UnknownIn(fs) == Keep(fs, LAMBDA f : f.num # 1)

\* The last text, and the unknown fields.
Meaning(fs) ==
  [message |-> IF TextsIn(fs) = <<>> THEN None ELSE Last(TextsIn(fs)).text,
   unknown |-> UnknownIn(fs)]
=============================================================================
