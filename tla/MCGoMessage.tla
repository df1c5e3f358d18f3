---------------------------- MODULE MCGoMessage ----------------------------
(***************************************************************************)
(* GoMessage for TLC: messages and addresses are interchangeable.          *)
(***************************************************************************)
EXTENDS GoMessage, TLC

MCSymmetry == Permutations(Msgs) \cup Permutations(Cells)
=============================================================================
