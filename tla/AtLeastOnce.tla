---------------------------- MODULE AtLeastOnce ----------------------------
(***************************************************************************)
(* What the echo system promises end to end.  A call ends once, greeted,   *)
(* rejected or failed.  The handler runs at most MaxRuns times for it, and *)
(* at least once if the call is greeted; a failed call may have run too,   *)
(* and a run may come after the end of its call.  A call with an invalid   *)
(* message never runs.                                                     *)
(***************************************************************************)
EXTENDS Naturals

CONSTANTS Calls, ValidCalls, MaxRuns

VARIABLES runs, result

vars == <<runs, result>>

Results == {"none", "pending", "greeted", "rejected", "failed"}

TypeOK ==
  /\ runs \in [Calls -> 0..MaxRuns]
  /\ result \in [Calls -> Results]

Init ==
  /\ runs = [c \in Calls |-> 0]
  /\ result = [c \in Calls |-> "none"]

Start(c) ==
  /\ result[c] = "none"
  /\ result' = [result EXCEPT ![c] = "pending"]
  /\ UNCHANGED runs

Run(c) ==
  /\ c \in ValidCalls
  /\ result[c] # "none"
  /\ runs[c] < MaxRuns
  /\ runs' = [runs EXCEPT ![c] = @ + 1]
  /\ UNCHANGED result

End(c, r) ==
  /\ result[c] = "pending"
  /\ r = "greeted" => runs[c] > 0
  /\ r = "rejected" => c \notin ValidCalls
  /\ result' = [result EXCEPT ![c] = r]
  /\ UNCHANGED runs

Next ==
  \E c \in Calls :
    Start(c) \/ Run(c) \/ \E r \in {"greeted", "rejected", "failed"} : End(c, r)

Spec == Init /\ [][Next]_vars
=============================================================================
