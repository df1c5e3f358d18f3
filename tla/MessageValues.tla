--------------------------- MODULE MessageValues ---------------------------
(***************************************************************************)
(* What a user of the Rust message types relies on: an owned message and a *)
(* view are two registers that hold a value, and a conversion copies the   *)
(* value, wherever it came from and whatever it was encoded in on the way, *)
(* or fails and changes nothing.  It fails only if there are too many      *)
(* unknown fields; JSON alone loses the unknown fields.                    *)
(***************************************************************************)
EXTENDS EchoCodec

CONSTANTS
  Extensions,  \* unknown fields a user may add
  Incoming     \* values a buffer or a document may bring

VARIABLES
  a,   \* the value of the owned message
  h,   \* the value of the view
  res  \* what the last operation returned

vars == <<a, h, res>>

Init == a = Default /\ h = Default /\ res = "ok"

Change ==
  /\ \/ \E t \in Texts : a' = WithMessage(a, t)
     \/ \E f \in Extensions : a' = [a EXCEPT !.unknown = Append(@, f)]
     \/ a' = Default
  /\ res' = "ok" /\ UNCHANGED h

Receive ==
  \/ h' \in Incoming /\ res' = "ok" /\ UNCHANGED a
  \/ a' \in Incoming /\ res' = "ok" /\ UNCHANGED h
  \/ res' = "malformed" /\ UNCHANGED <<a, h>>

ToView ==
  IF Len(a.unknown) <= UnknownLimit
  THEN h' = a /\ res' = "ok" /\ UNCHANGED a
  ELSE res' = "too_many" /\ UNCHANGED <<a, h>>

ToMessage ==
  IF Rematerializes(h)
  THEN a' = h /\ res' = "ok" /\ UNCHANGED h
  ELSE res' = "too_many" /\ UNCHANGED <<a, h>>

Strip ==
  \E v \in {a, h} :
    a' = [v EXCEPT !.unknown = <<>>] /\ res' = "ok" /\ UNCHANGED h

Pass == res' = "ok" /\ UNCHANGED <<a, h>>

Next == Change \/ Receive \/ ToView \/ ToMessage \/ Strip \/ Pass

Spec == Init /\ [][Next]_vars
=============================================================================
