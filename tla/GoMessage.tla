----------------------------- MODULE GoMessage -----------------------------
(***************************************************************************)
(* The Go message types (go/api/v1/echo.pb.go, opaque API; EchoRequest and *)
(* EchoResponse are the same).  A message holds its text twice over, as a  *)
(* pointer and as a presence bit, and a builder hands its own pointer to   *)
(* every message it builds.  Go code in the repository reads an absent     *)
(* text and an empty one alike, so what tells them apart is checked here.  *)
(***************************************************************************)
EXTENDS Naturals, FiniteSets

CONSTANTS
  Msgs,   \* messages
  Texts,  \* values of the field
  Cells,  \* addresses of strings
  Nil,    \* the null pointer
  None    \* not a text

ASSUME GoMessageAssumption ==
  /\ "" \in Texts /\ None \notin Texts /\ Nil \notin Cells
  /\ Cardinality(Cells) > Cardinality(Msgs) + 1

VARIABLES
  mem,      \* [Cells -> Texts], the strings
  ptr,      \* [Msgs -> Cells \cup {Nil}], xxx_hidden_Message
  present,  \* [Msgs -> BOOLEAN], bit 0 of XXX_presence
  builder,  \* the builder's Message, of type *string
  put,      \* (history) what was put into each message, or None
  shared    \* (history) messages that were built with the builder's string

vars == <<mem, ptr, present, builder, put, shared>>

Init ==
  /\ mem = [p \in Cells |-> ""]
  /\ ptr = [m \in Msgs |-> Nil] /\ present = [m \in Msgs |-> FALSE]
  /\ builder = Nil
  /\ put = [m \in Msgs |-> None] /\ shared = {}

\* A string that nothing points to.
Free == {p \in Cells : p # builder /\ \A m \in Msgs : p # ptr[m]}

GetMessage(m) == IF ptr[m] # Nil THEN mem[ptr[m]] ELSE ""
HasMessage(m) == present[m]

\* Mutant: the string is overwritten where it is.
BugSetMessage(m, v) ==
  /\ \E p \in IF ptr[m] # Nil THEN {ptr[m]} ELSE Free :
       mem' = [mem EXCEPT ![p] = v] /\ ptr' = [ptr EXCEPT ![m] = p]
  /\ present' = [present EXCEPT ![m] = TRUE]
  /\ put' = [put EXCEPT ![m] = v] /\ shared' = shared \ {m}
  /\ UNCHANGED builder

\* The argument is a string of its own, and its address is stored.
SetMessage(m, v) ==
  /\ \E p \in Free : mem' = [mem EXCEPT ![p] = v] /\ ptr' = [ptr EXCEPT ![m] = p]
  /\ present' = [present EXCEPT ![m] = TRUE]
  /\ put' = [put EXCEPT ![m] = v] /\ shared' = shared \ {m}
  /\ UNCHANGED builder

\* Mutant: the presence bit stays.
BugClearMessage(m) ==
  /\ ptr' = [ptr EXCEPT ![m] = Nil]
  /\ put' = [put EXCEPT ![m] = None] /\ shared' = shared \ {m}
  /\ UNCHANGED <<mem, builder, present>>

ClearMessage(m) ==
  /\ present' = [present EXCEPT ![m] = FALSE]
  /\ ptr' = [ptr EXCEPT ![m] = Nil]
  /\ put' = [put EXCEPT ![m] = None] /\ shared' = shared \ {m}
  /\ UNCHANGED <<mem, builder>>

\* *x = EchoRequest{}
Reset(m) ==
  /\ ptr' = [ptr EXCEPT ![m] = Nil] /\ present' = [present EXCEPT ![m] = FALSE]
  /\ put' = [put EXCEPT ![m] = None] /\ shared' = shared \ {m}
  /\ UNCHANGED <<mem, builder>>

\* A new message, here in the place of an old one.
Build(m) ==
  /\ ptr' = [ptr EXCEPT ![m] = builder] /\ present' = [present EXCEPT ![m] = builder # Nil]
  /\ put' = [put EXCEPT ![m] = IF builder = Nil THEN None ELSE mem[builder]]
  /\ shared' = IF builder = Nil THEN shared \ {m} ELSE shared \cup {m}
  /\ UNCHANGED <<mem, builder>>

\* The owner of the builder gives it another pointer, or none.
Point ==
  /\ \/ \E p \in Free, v \in Texts : builder' = p /\ mem' = [mem EXCEPT ![p] = v]
     \/ builder' = Nil /\ UNCHANGED mem
  /\ shared' = {}
  /\ UNCHANGED <<ptr, present, put>>

\* The owner of the builder changes the string it points to.
WriteThrough(v) ==
  /\ builder # Nil
  /\ mem' = [mem EXCEPT ![builder] = v]
  /\ put' = [m \in Msgs |-> IF m \in shared THEN v ELSE put[m]]
  /\ UNCHANGED <<ptr, present, builder, shared>>

Next ==
  \/ \E m \in Msgs : \/ \E v \in Texts : SetMessage(m, v)
                     \/ ClearMessage(m) \/ Reset(m) \/ Build(m)
  \/ Point \/ \E v \in Texts : WriteThrough(v)

Spec == Init /\ [][Next]_vars
-----------------------------------------------------------------------------
\* The pointer and the bit never disagree: what HasMessage denies, GetMessage does
\* not return, and an empty text that was set is not lost.
TypeOK ==
  /\ mem \in [Cells -> Texts]
  /\ ptr \in [Msgs -> Cells \cup {Nil}] /\ builder \in Cells \cup {Nil}
  /\ present = [m \in Msgs |-> ptr[m] # Nil]
  /\ put \in [Msgs -> Texts \cup {None}] /\ shared \subseteq Msgs

\* A message holds what was last put into it.  Messages that were built with one
\* string stay apart: only the owner of the string can change them together, and
\* setting one of them takes it out.
HoldsWhatWasPut ==
  \A m \in Msgs :
    /\ HasMessage(m) <=> put[m] # None
    /\ GetMessage(m) = (IF put[m] = None THEN "" ELSE put[m])
=============================================================================
