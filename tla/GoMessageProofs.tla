-------------------------- MODULE GoMessageProofs --------------------------
(***************************************************************************)
(* The accessors of the Go messages keep what they are given, for any      *)
(* messages, texts and addresses.                                          *)
(***************************************************************************)
EXTENDS GoMessage, TLAPS

\* The messages that a write to the builder's string changes are those that were
\* built with it.
SharesExactly == shared = {m \in Msgs : builder # Nil /\ ptr[m] = builder}

IInv == TypeOK /\ HoldsWhatWasPut /\ SharesExactly

\* At the start nothing is set and nothing is shared.
LEMMA InitIInv == Init => IInv
BY GoMessageAssumption DEF Init, IInv, TypeOK, HoldsWhatWasPut, SharesExactly,
   HasMessage, GetMessage

\* SetMessage stores the address of a string that no other message can see.
LEMMA SetIInv ==
  ASSUME IInv, NEW m \in Msgs, NEW v \in Texts, SetMessage(m, v)
  PROVE  IInv'
<1> USE GoMessageAssumption DEF IInv, TypeOK
<1>1. PICK p \in Free : mem' = [mem EXCEPT ![p] = v] /\ ptr' = [ptr EXCEPT ![m] = p]
  BY DEF SetMessage
<1>2. p \in Cells /\ p # Nil /\ p # builder /\ \A n \in Msgs : p # ptr[n]
  BY <1>1 DEF Free
<1>3. TypeOK'
  BY <1>1, <1>2 DEF SetMessage
<1>4. HoldsWhatWasPut'
  BY <1>1, <1>2 DEF SetMessage, HoldsWhatWasPut, HasMessage, GetMessage
<1>5. SharesExactly'
  BY <1>1, <1>2 DEF SetMessage, SharesExactly
<1> QED
  BY <1>3, <1>4, <1>5

\* ClearMessage and Reset drop the pointer and the bit together.
LEMMA ClearIInv ==
  ASSUME IInv, NEW m \in Msgs, ClearMessage(m) \/ Reset(m)
  PROVE  IInv'
<1> USE GoMessageAssumption DEF IInv, TypeOK, ClearMessage, Reset
<1>1. TypeOK'
  OBVIOUS
<1>2. ASSUME NEW n \in Msgs
      PROVE  /\ HasMessage(n)' <=> put'[n] # None
             /\ GetMessage(n)' = (IF put'[n] = None THEN "" ELSE put'[n])
  <2>1. n # m => ptr'[n] = ptr[n] /\ present'[n] = present[n] /\ put'[n] = put[n]
    OBVIOUS
  <2>2. CASE n = m
    BY <2>2 DEF HasMessage, GetMessage
  <2>3. CASE n # m
    BY <2>1, <2>3 DEF HoldsWhatWasPut, HasMessage, GetMessage
  <2> QED
    BY <2>2, <2>3
<1>3. HoldsWhatWasPut'
  BY <1>2 DEF HoldsWhatWasPut
<1>4. SharesExactly'
  BY DEF SharesExactly
<1> QED
  BY <1>1, <1>3, <1>4

\* A message that is built joins those that share the builder's string.
LEMMA BuildIInv ==
  ASSUME IInv, NEW m \in Msgs, Build(m)
  PROVE  IInv'
<1> USE GoMessageAssumption DEF IInv, TypeOK, Build
<1>1. TypeOK'
  OBVIOUS
<1>2. ASSUME NEW n \in Msgs
      PROVE  /\ HasMessage(n)' <=> put'[n] # None
             /\ GetMessage(n)' = (IF put'[n] = None THEN "" ELSE put'[n])
  <2>1. n # m => ptr'[n] = ptr[n] /\ present'[n] = present[n] /\ put'[n] = put[n]
    OBVIOUS
  <2>2. CASE n = m
    BY <2>2 DEF HasMessage, GetMessage
  <2>3. CASE n # m
    BY <2>1, <2>3 DEF HoldsWhatWasPut, HasMessage, GetMessage
  <2> QED
    BY <2>2, <2>3
<1>3. HoldsWhatWasPut'
  BY <1>2 DEF HoldsWhatWasPut
<1>4. SharesExactly'
  BY DEF SharesExactly
<1> QED
  BY <1>1, <1>3, <1>4

\* A new string of the builder is one that no message points to.
LEMMA PointIInv ==
  ASSUME IInv, Point
  PROVE  IInv'
<1> USE GoMessageAssumption DEF IInv, TypeOK
<1>1. CASE builder' = Nil /\ UNCHANGED mem
  BY <1>1 DEF Point, HoldsWhatWasPut, HasMessage, GetMessage, SharesExactly
<1>2. ASSUME NEW p \in Free, NEW v \in Texts, builder' = p, mem' = [mem EXCEPT ![p] = v]
      PROVE  IInv'
  <2>1. p \in Cells /\ \A n \in Msgs : p # ptr[n]
    BY DEF Free
  <2>2. TypeOK'
    BY <1>2, <2>1 DEF Point
  <2>3. HoldsWhatWasPut'
    BY <1>2, <2>1 DEF Point, HoldsWhatWasPut, HasMessage, GetMessage
  <2>4. SharesExactly'
    BY <1>2, <2>1 DEF Point, SharesExactly
  <2> QED
    BY <2>2, <2>3, <2>4
<1> QED
  BY <1>1, <1>2 DEF Point

\* A write to the builder's string changes exactly the messages that share it.
LEMMA WriteIInv ==
  ASSUME IInv, NEW v \in Texts, WriteThrough(v)
  PROVE  IInv'
<1> USE GoMessageAssumption DEF IInv, TypeOK, WriteThrough
<1>1. TypeOK'
  OBVIOUS
<1>2. HoldsWhatWasPut'
  BY DEF HoldsWhatWasPut, HasMessage, GetMessage, SharesExactly
<1>3. SharesExactly'
  BY DEF SharesExactly
<1> QED
  BY <1>1, <1>2, <1>3

\* IInv is inductive.
THEOREM Inductive == Spec => []IInv
<1>1. ASSUME IInv, [Next]_vars
      PROVE  IInv'
  <2>1. CASE \E m \in Msgs, v \in Texts : SetMessage(m, v)
    BY <1>1, <2>1, SetIInv
  <2>2. CASE \E m \in Msgs : ClearMessage(m) \/ Reset(m)
    BY <1>1, <2>2, ClearIInv
  <2>3. CASE \E m \in Msgs : Build(m)
    BY <1>1, <2>3, BuildIInv
  <2>4. CASE Point
    BY <1>1, <2>4, PointIInv
  <2>5. CASE \E v \in Texts : WriteThrough(v)
    BY <1>1, <2>5, WriteIInv
  <2>6. CASE UNCHANGED vars
    BY <1>1, <2>6 DEF vars, IInv, TypeOK, HoldsWhatWasPut, SharesExactly,
       HasMessage, GetMessage
  <2> QED
    BY <1>1, <2>1, <2>2, <2>3, <2>4, <2>5, <2>6 DEF Next
<1> QED
  BY <1>1, InitIInv, PTL DEF Spec

\* The pointer and the presence bit of a message agree in every reachable state.
THEOREM TypeCorrect == Spec => []TypeOK
<1>1. IInv => TypeOK
  BY DEF IInv
<1> QED
  BY <1>1, Inductive, PTL

\* Every message holds what was last put into it, though messages may share a
\* string.
THEOREM KeepsText == Spec => []HoldsWhatWasPut
<1>1. IInv => HoldsWhatWasPut
  BY DEF IInv
<1> QED
  BY <1>1, Inductive, PTL
=============================================================================
