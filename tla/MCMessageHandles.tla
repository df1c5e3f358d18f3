-------------------------- MODULE MCMessageHandles --------------------------
(***************************************************************************)
(* An instance of MessageHandles for TLC: two unknown fields are the       *)
(* limit, one of the buffers needs more bytes than it means, one holds a   *)
(* group that only a view accepts.                                         *)
(***************************************************************************)
EXTENDS MessageHandles

MCTexts == {"", "Jane"}
MCTextLen == [t \in MCTexts |-> IF t = "" THEN 0 ELSE 4]

MCUnknown(type, n, extra) ==
  [TextField("") EXCEPT !.num = 2, !.wire = type, !.inner = n, !.pad = extra]

MCExtensions == {MCUnknown("varint", 0, 0)}

MCBuffers ==
  {<<>>,
   <<TextField("Jane"), MCUnknown("varint", 0, 1), TextField("")>>,
   <<MCUnknown("group", 2, 0), TextField("Jane")>>,
   <<MCUnknown("varint", 0, 0), MCUnknown("len", 0, 0)>>,
   <<TextField("Jane"), [TextField("Jane") EXCEPT !.good = FALSE]>>}

MCDocuments ==
  {<<Member("other", "Jane")>>,
   <<Member("message", Null)>>,
   <<Member("other", Null), Member("message", "")>>,
   <<Member("message", "Jane"), Member("message", "Jane")>>}
=============================================================================
