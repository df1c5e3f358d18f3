--------------------------- MODULE MCEchoServer ---------------------------
(***************************************************************************)
(* Instances of EchoServer for TLC: a Go and a Rust process, and a request *)
(* of each kind.                                                           *)
(***************************************************************************)
EXTENDS EchoServer

CONSTANTS goServer, rustServer, jane, blank, noise, probe

MCImpl == [s \in Servers |-> IF s = goServer THEN "go" ELSE "rust"]

MCPath == [r \in Requests |-> IF r = probe THEN "Health" ELSE "Echo"]

MCMessage == [r \in Requests |-> CASE r = jane  -> "Jane"
                                   [] r = blank -> "empty"
                                   [] r = noise -> "garbled"
                                   [] OTHER     -> "absent"]
=============================================================================
