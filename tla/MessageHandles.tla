--------------------------- MODULE MessageHandles ---------------------------
(***************************************************************************)
(* The message types as the generated Rust code offers them                *)
(* (rust/api/gen/buffa/api.v1.rs, connect/api.v1.rs): an owned message,    *)
(* and the handle EchoRequestOwnedView, a view that travels with the       *)
(* buffer it borrows from.  Their operations convert one into the other,   *)
(* through the wire format and through JSON, in any order.                 *)
(***************************************************************************)
EXTENDS EchoCodec

CONSTANTS
  Buffers,     \* buffers that arrive, sequences of fields
  Documents,   \* JSON documents that arrive
  Extensions,  \* unknown fields a user may add, in their shortest encoding
  MaxUnknown,  \* bound: unknown fields a user adds to
  MaxSize      \* bound of DecodeOptions on the size of a message

ASSUME HandlesAssumption ==
  /\ \A b \in Buffers : b \in Seq(Fields)
  /\ \A doc \in Documents : doc \in Seq(Members)
  /\ \A f \in Extensions : f \in Fields /\ f.num # 1 /\ f.good /\ f = Shortest(f)
  /\ MaxUnknown \in Nat /\ MaxSize \in Nat

VARIABLES
  request,  \* an EchoRequest
  handle,   \* an EchoRequestOwnedView: [bytes, view]
  res       \* what the last operation returned

handlesVars == <<request, handle, res>>

HandlesInit ==
  /\ request = Default
  /\ handle = [bytes |-> <<>>, view |-> Default]
  /\ res = "ok"

-----------------------------------------------------------------------------
(* The owned message. *)

SetMessage(t) ==
  /\ request' = WithMessage(request, t)
  /\ res' = "ok" /\ UNCHANGED handle

\* ExtensionSet::unknown_fields_mut, which no limit guards.
Extend(f) ==
  /\ Len(request.unknown) < MaxUnknown
  /\ request' = [request EXCEPT !.unknown = Append(@, f)]
  /\ res' = "ok" /\ UNCHANGED handle

ClearOwned ==
  /\ request' = Default
  /\ res' = "ok" /\ UNCHANGED handle

\* deserialize_proto_json
ReadJson(doc) ==
  /\ IF ReadsJson(doc) THEN request' = FromJson(doc) /\ res' = "ok"
                       ELSE res' = "malformed" /\ UNCHANGED request
  /\ UNCHANGED handle

\* serialize_proto_json, and deserialized again.
ThroughJson ==
  /\ request' = FromJson(Json(request))
  /\ res' = "ok" /\ UNCHANGED handle

-----------------------------------------------------------------------------
(* The handle. *)

\* Takes over buffer b; the error is that of the operation that asked for it.
Wrap(b, error) ==
  LET d == DecodeView(b) IN
  /\ IF d.err THEN res' = error /\ UNCHANGED handle
              ELSE res' = "ok" /\ handle' = [bytes |-> b, view |-> d.msg]
  /\ UNCHANGED request

\* decode
Decode(b) == Wrap(b, "malformed")

\* decode_with_options, with a limit on the size.
DecodeWithOptions(b) ==
  IF WrittenLen(b) > MaxSize
  THEN res' = "malformed" /\ UNCHANGED <<request, handle>>
  ELSE Wrap(b, "malformed")

\* Mutant: the handle is built from the known field alone.
BugFromOwned == Wrap(WriteTo([request EXCEPT !.unknown = <<>>]), "too_many")

\* from_owned: encoded and decoded again.  Only what is decoded is held to the
\* limit on unknown fields, a message that is built is not.
FromOwned == Wrap(WriteTo(request), "too_many")

\* to_owned_message
ToOwnedMessage ==
  /\ IF Rematerializes(handle.view)
     THEN request' = ToOwned(handle.view) /\ res' = "ok"
     ELSE res' = "too_many" /\ UNCHANGED request
  /\ UNCHANGED handle

\* Mutant: the unknown fields are written by the message and by its caller.
BugEncodeViewBody(v, format) ==
  IF format = "json" THEN Json(v) ELSE WriteTo(v) \o v.unknown

\* encode_view_body: a view as the body of a response, in either format.  The
\* records of unknown fields are written as they were found.
EncodeViewBody(v, format) == IF format = "json" THEN Json(v) ELSE WriteTo(v)

\* Mutant: only the known field is encoded, and the view is kept.
BugReencode ==
  /\ handle' = [handle EXCEPT !.bytes = WriteTo([handle.view EXCEPT !.unknown = <<>>])]
  /\ res' = "ok" /\ UNCHANGED request

\* The view is encoded and decoded again.
Reencode == Wrap(EncodeViewBody(handle.view, "proto"), "broken")

\* bytes() and into_bytes(): what was decoded, not an encoding of the view.
Unwrap == Wrap(handle.bytes, "broken")

\* The view's JSON, read into the owned message.
ViewThroughJson ==
  /\ request' = FromJson(EncodeViewBody(handle.view, "json"))
  /\ res' = "ok" /\ UNCHANGED handle

HandlesNext ==
  \/ \E t \in Texts : SetMessage(t)
  \/ \E f \in Extensions : Extend(f)
  \/ \E doc \in Documents : ReadJson(doc)
  \/ \E b \in Buffers : Decode(b) \/ DecodeWithOptions(b)
  \/ ClearOwned \/ ThroughJson \/ FromOwned \/ ToOwnedMessage
  \/ Reencode \/ Unwrap \/ ViewThroughJson

HandlesSpec == HandlesInit /\ [][HandlesNext]_handlesVars
-----------------------------------------------------------------------------
HandlesTypeOK ==
  /\ request.message \in Texts \cup {None} /\ handle.view.message \in Texts \cup {None}
  /\ Len(request.unknown) <= MaxUnknown \/ Len(request.unknown) <= UnknownLimit
  /\ Len(handle.view.unknown) <= UnknownLimit
  /\ \A i \in DOMAIN request.unknown : request.unknown[i].num # 1
  /\ res \in {"ok", "malformed", "too_many"}

\* Encoding what was decoded never takes more bytes than the buffer it came from,
\* repeated fields and long encodings included: what a limit on the size accepted
\* once it accepts again.
NeverGrows == WrittenLen(WriteTo(handle.view)) <= WrittenLen(handle.bytes)

\* The value of a view, with its records as an owned message would hold them.
Incoming ==
  {ToOwned(DecodeView(b).msg) : b \in {x \in Buffers : ~DecodeView(x).err}}
    \cup {FromJson(doc) : doc \in {x \in Documents : ReadsJson(x)}}

Registers == INSTANCE MessageValues WITH
  a <- request,
  h <- ToOwned(handle.view)

\* However the conversions are chained, the message and the view hold what a
\* user put into them: nothing of it is lost but unknown fields in JSON, and
\* nothing of what they held before comes back.
\* An operation that fails changes neither of them, from_owned included.
KeepsValues == Registers!Spec

\* What the generated code documents of from_owned (buffa/api.v1.rs:474-475, again
\* at 734-735): "Returns [`::buffa::DecodeError`] if the re-encoded bytes are
\* somehow invalid (should not happen for well-formed messages)."  Every message
\* of this model is well-formed: its text is valid and so is each unknown field.
FromOwnedSucceeds == [][FromOwned => res' = "ok"]_handlesVars
=============================================================================
