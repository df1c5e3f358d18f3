-------------------------- MODULE SequenceFilter ---------------------------
(***************************************************************************)
(* SelectSeq as a fold.  The provers have no definition of SelectSeq; of a *)
(* fold, SequenceFolds proves what it returns.                             *)
(***************************************************************************)
EXTENDS SequencesExt

Keep(s, Test(_)) ==
  FoldLeft(LAMBDA kept, e : kept \o (IF Test(e) THEN <<e>> ELSE <<>>), <<>>, s)
=============================================================================
