--------------------------- MODULE MCEchoMessage ---------------------------
(***************************************************************************)
(* An instance of EchoMessage for TLC: texts on both sides of the length   *)
(* at which the length prefix takes a second byte; unknown fields of each  *)
(* wire type, encoded in the shortest way or not; unreadable ones.         *)
(***************************************************************************)
EXTENDS EchoMessage

MCTexts == {"", "short", "long"}

MCTextLen == [t \in MCTexts |-> CASE t = "" -> 0 [] t = "short" -> 127 [] t = "long" -> 128]

MCUnknown(type, n, extra) ==
  [TextField("short") EXCEPT !.num = 2, !.wire = type, !.inner = n, !.pad = extra]

MCGood ==
  {TextField(t) : t \in MCTexts}
    \cup {MCUnknown("varint", 0, 0), MCUnknown("varint", 0, 1), MCUnknown("len", 0, 0),
          MCUnknown("group", 0, 0), MCUnknown("group", 1, 1), MCUnknown("group", 2, 0)}

MCFed ==
  MCGood \cup {[TextField("short") EXCEPT !.wire = "varint"],
               [TextField("short") EXCEPT !.good = FALSE],
               [MCUnknown("group", 1, 0) EXCEPT !.good = FALSE]}
=============================================================================
