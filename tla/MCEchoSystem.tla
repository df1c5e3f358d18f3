--------------------------- MODULE MCEchoSystem ---------------------------
(***************************************************************************)
(* Instances of EchoSystem for TLC.                                        *)
(***************************************************************************)
EXTENDS EchoSystem

CONSTANTS g, r, p, goServer, rustServer

MCLanguage == [c \in Calls |-> CASE c = g -> "go" [] c = r -> "rust" [] c = p -> "python"]

MCShl == [k \in 0..MaxRetries |-> 2^k]

MCImpl == [s \in Servers |-> IF s = goServer THEN "go" ELSE "rust"]

\* The clients of the repository all send "Jane".
MCJane == [c \in Calls |-> "Jane"]

\* As before, but the Rust client sends an empty message.
MCMixed == [c \in Calls |-> IF c = r THEN "empty" ELSE "Jane"]

\* Transient by its code, permanent, permanent but with a net error in its chain, and
\* not of Connect at all.
MCErrors ==
  {[code |-> "unavailable", chain |-> {}], [code |-> "unknown", chain |-> {}],
   [code |-> "unknown", chain |-> {"op"}], [code |-> "none", chain |-> {"op"}]}

\* The clients of the second instance retry whatever breaks.
MCTransient == {e \in MCErrors : e.code # "unknown"}
=============================================================================
