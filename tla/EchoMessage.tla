---------------------------- MODULE EchoMessage ----------------------------
(***************************************************************************)
(* The two decoders of EchoCodec side by side: they are fed the same       *)
(* fields, in any order, repeated, unknown or malformed, and the results   *)
(* are encoded again.  The server's handler reads the view, its validator  *)
(* an owned copy.                                                          *)
(***************************************************************************)
EXTENDS EchoCodec

CONSTANTS
  Fed,       \* the fields a buffer may hold, a subset of Fields
  MaxFields  \* bound: fields fed to one decode

ASSUME FedAssumption == Fed \subseteq Fields /\ MaxFields \in Nat

VARIABLES
  owned,  \* the decode into an owned message
  view,   \* the decode into a view
  fed     \* (history) the fields fed since the message was cleared

vars == <<owned, view, fed>>

Init == owned = Begun(Default) /\ view = Begun(Default) /\ fed = <<>>

\* The next field of the buffer, to each decoder that has not failed.
Feed(f) ==
  /\ ~(owned.err /\ view.err)
  /\ Len(fed) < MaxFields
  /\ fed' = Append(fed, f)
  /\ owned' \in IF owned.err THEN {owned} ELSE MergeField(owned, f)
  /\ view' = IF view.err THEN view ELSE MergeViewField(view, f)

\* Mutant: clear keeps the unknown fields.
BugClear ==
  /\ fed # <<>> /\ fed' = <<>>
  /\ owned' = Begun([owned.msg EXCEPT !.message = None])
  /\ view' = Begun(Default)

\* clear() and a new decode into the message; a new decode_view.
Clear ==
  /\ fed # <<>> /\ fed' = <<>>
  /\ owned' = Begun(Default)
  /\ view' = Begun(Default)

Next == Clear \/ \E f \in Fed : Feed(f)

Spec == Init /\ [][Next]_vars
-----------------------------------------------------------------------------
TypeOK ==
  \A d \in {owned, view} :
    /\ d.msg.message \in Texts \cup {None}
    /\ Len(d.msg.unknown) <= UnknownLimit
    /\ \A i \in DOMAIN d.msg.unknown : d.msg.unknown[i].num # 1
    /\ d.left \in 0..UnknownLimit /\ d.err \in BOOLEAN

\* The validator sees what the handler sees: the owned copy of a view is what the
\* owned decoder makes of the same buffer.  The view accepts more, groups that
\* enclose too many fields, and then it is the copy that fails, never a wrong one.
DecodersAgree ==
  /\ view.err => owned.err
  /\ ~view.err => /\ owned.err <=> ~Rematerializes(view.msg)
                  /\ ~owned.err => owned.msg = ToOwned(view.msg)

\* What was decoded is what the fields mean, also into a message that held
\* another one before it was cleared, or whose last decode failed half way.
DecodesMeaning ==
  /\ ~view.err => view.msg = Meaning(fed)
  /\ ~owned.err => owned.msg = ToOwned(Meaning(fed))

\* Encoding loses nothing: presence of an empty text, unknown fields and their
\* order all survive, although the message field moves to the front.
RoundTrips == \A m \in {owned.msg, view.msg} : Meaning(WriteTo(m)) = m

\* The size announced is the size written, at the boundaries of the length
\* prefix too: a caller allocates the buffer from it.
SizeIsExact == \A m \in {owned.msg, view.msg} : ComputeSize(m) = WrittenLen(WriteTo(m))
=============================================================================
