------------------------------ MODULE MCRetry ------------------------------
(***************************************************************************)
(* Instances of Retry for TLC: one call per client language, with every    *)
(* kind of error the classifiers tell apart.                               *)
(***************************************************************************)
EXTENDS Retry

CONSTANTS g, r, p

MCLanguage == [c \in Calls |-> CASE c = g -> "go"
                                 [] c = r -> "rust"
                                 [] c = p -> "python"]

MCShl == [k \in 0..MaxRetries |-> 2^k]

MCErrors == AllErrors

\* One error per verdict of the three classifiers.
MCFewErrors == {
  [code |-> "unavailable", chain |-> {}],
  [code |-> "invalid_argument", chain |-> {}],
  [code |-> "invalid_argument", chain |-> {"op"}],
  [code |-> "none", chain |-> {"timeout"}],
  [code |-> "none", chain |-> {"ctx", "op"}]}
=============================================================================
