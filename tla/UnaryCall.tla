----------------------------- MODULE UnaryCall -----------------------------
(***************************************************************************)
(* What a caller may rely on when it makes a unary call through a retry    *)
(* loop, whatever the language: the call is tried at most MaxTries times   *)
(* and gets one outcome, which never changes.                              *)
(***************************************************************************)
EXTENDS Naturals

CONSTANTS Calls, MaxTries, Cancellable

VARIABLES tries, outcome

vars == <<tries, outcome>>

Outcomes == {"none", "pending", "ok", "refused", "exhausted", "aborted"}

TypeOK ==
  /\ tries \in [Calls -> 0..MaxTries]
  /\ outcome \in [Calls -> Outcomes]

Init ==
  /\ tries = [c \in Calls |-> 0]
  /\ outcome = [c \in Calls |-> "none"]

\* Another try; the first one makes the call pending.
Try(c) ==
  /\ outcome[c] \in {"none", "pending"}
  /\ tries[c] < MaxTries
  /\ tries' = [tries EXCEPT ![c] = @ + 1]
  /\ outcome' = [outcome EXCEPT ![c] = "pending"]

Settle(c, o) ==
  /\ outcome[c] = "pending"
  /\ o = "exhausted" => tries[c] = MaxTries
  /\ o = "aborted" => c \in Cancellable /\ tries[c] < MaxTries
  /\ outcome' = [outcome EXCEPT ![c] = o]
  /\ UNCHANGED tries

Next ==
  \E c \in Calls :
    Try(c) \/ \E o \in {"ok", "refused", "exhausted", "aborted"} : Settle(c, o)

Spec == Init /\ [][Next]_vars
=============================================================================
