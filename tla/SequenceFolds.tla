--------------------------- MODULE SequenceFolds ---------------------------
(***************************************************************************)
(* What a fold of a sequence from the left returns, by induction, for any  *)
(* operators: FoldLeft and SelectSeq's kind of definition are recursive,   *)
(* and the provers know nothing of them.  A theorem with an operator as a  *)
(* parameter cannot be applied by the provers, so the operators are        *)
(* constants here, and a proof instantiates this module with its own.      *)
(***************************************************************************)
EXTENDS Integers, Sequences, SequencesExt, SequenceTheorems, WellFoundedInduction, TLAPS

CONSTANTS
  Join(_, _),  \* of what was folded so far, and what the next element adds
  Weight(_),   \* what an element adds
  Unit         \* what the empty sequence is folded into

Fold(s) == FoldLeft(LAMBDA a, x : Join(a, Weight(x)), Unit, s)

-----------------------------------------------------------------------------
(* Induction, with a set in the place of the property. *)

\* A set of naturals that has 0 and is closed under successor has them all: else
\* there would be a least one it lacks.
LEMMA NatInduct ==
  ASSUME NEW S \in SUBSET Nat, 0 \in S, \A n \in S : n + 1 \in S
  PROVE  S = Nat
<1> DEFINE R == OpToRel(<, Nat)
           T == Nat \ S
<1>1. IsWellFoundedOn(R, Nat)
  BY NatLessThanWellFounded
<1>2. SUFFICES ASSUME T # {} PROVE FALSE
  OBVIOUS
<1>3. PICK n \in T : \A m \in T : ~(<<m, n>> \in R)
  <2>1. T \subseteq Nat
    OBVIOUS
  <2> HIDE DEF R, T
  <2> QED BY <1>1, <1>2, <2>1, WFMin
<1>4. n \in Nat \ {0} /\ n - 1 \in T
  OBVIOUS
<1>5. <<n - 1, n>> \in R
  BY <1>4 DEF OpToRel
<1> QED BY <1>3, <1>4, <1>5

\* A set of sequences that has the empty one and is closed under Append has them all.
LEMMA SeqInduct ==
  ASSUME NEW T, NEW S \in SUBSET Seq(T),
         <<>> \in S, \A s \in S, x \in T : Append(s, x) \in S
  PROVE  S = Seq(T)
<1> DEFINE N == {n \in Nat : \A s \in Seq(T) : Len(s) = n => s \in S}
<1>1. 0 \in N
  <2>1. \A s \in Seq(T) : Len(s) = 0 => s = <<>>
    BY EmptySeq
  <2> QED BY <2>1
<1>2. ASSUME NEW n \in N PROVE n + 1 \in N
  <2>1. SUFFICES ASSUME NEW s \in Seq(T), Len(s) = n + 1 PROVE s \in S
    OBVIOUS
  <2> DEFINE r == [i \in 1..n |-> s[i]]
  <2>2. r \in Seq(T) /\ Len(r) = n /\ s[n + 1] \in T
    BY <2>1
  <2>3. s = Append(r, s[n + 1])
    BY <2>1, <2>2
  <2>4. r \in S
    BY <2>2
  <2> QED BY <2>2, <2>3, <2>4
<1>3. N = Nat
  <2>1. N \in SUBSET Nat
    OBVIOUS
  <2> HIDE DEF N
  <2> QED BY <1>1, <1>2, <2>1, NatInduct
<1>4. \A s \in Seq(T) : Len(s) \in N
  BY <1>3, LenProperties
<1> QED BY <1>4

-----------------------------------------------------------------------------
(* The fold. *)

\* The function that the definition of a fold chooses, over the sets of positions.
Runs(s, g) ==
  g = [A \in SUBSET DOMAIN s |->
        IF A = {} THEN Unit ELSE Join(g[A \ {Max(A)}], Weight(s[Max(A)]))]

LEMMA FoldIsRun == \A s : Fold(s) = (CHOOSE g : Runs(s, g))[DOMAIN s]
BY DEF Fold, FoldLeft, MapThenFoldSet, Runs

LEMMA MaxOf ==
  ASSUME NEW n \in Nat \ {0}, NEW A \in SUBSET (1..n), n \in A
  PROVE  Max(A) = n
<1>1. \A i \in A : n >= i
  OBVIOUS
<1>2. \A m \in A : (\A i \in A : m >= i) => m = n
  <2> SUFFICES ASSUME NEW m \in A, \A i \in A : m >= i PROVE m = n
    OBVIOUS
  <2>1. m \in 1..n /\ m >= n
    OBVIOUS
  <2> QED BY <2>1
<1> QED BY <1>1, <1>2 DEF Max

LEMMA RunExists == ASSUME NEW T, NEW s \in Seq(T) PROVE \E g : Runs(s, g)
<1> DEFINE Up(n, g) ==
             g = [A \in SUBSET (1..n) |->
                   IF A = {} THEN Unit ELSE Join(g[A \ {Max(A)}], Weight(s[Max(A)]))]
           N == {n \in Nat : \E g : Up(n, g)}
<1>1. 0 \in N
  <2> DEFINE g == [A \in SUBSET (1..0) |-> Unit]
  <2>1. \A A \in SUBSET (1..0) : A = {}
    OBVIOUS
  <2>2. Up(0, g)
    BY <2>1
  <2> QED BY <2>2
<1>2. ASSUME NEW n \in N PROVE n + 1 \in N
  <2>1. PICK g : Up(n, g)
    BY <1>2
  <2> DEFINE h == [A \in SUBSET (1..(n + 1)) |->
                    IF n + 1 \in A THEN Join(g[A \ {n + 1}], Weight(s[n + 1])) ELSE g[A]]
             k == [A \in SUBSET (1..(n + 1)) |->
                    IF A = {} THEN Unit ELSE Join(h[A \ {Max(A)}], Weight(s[Max(A)]))]
  <2>2. ASSUME NEW A \in SUBSET (1..(n + 1)) PROVE h[A] = k[A]
    <3>1. CASE n + 1 \in A
      <4>1. Max(A) = n + 1
        BY <3>1, MaxOf
      <4>2. A \ {n + 1} \in SUBSET (1..(n + 1)) /\ n + 1 \notin A \ {n + 1}
        OBVIOUS
      <4>3. h[A \ {n + 1}] = g[A \ {n + 1}]
        BY <4>2
      <4> QED BY <3>1, <4>1, <4>3
    <3>2. CASE n + 1 \notin A
      <4>1. A \in SUBSET (1..n) /\ A \ {Max(A)} \in SUBSET (1..n)
        <5>1. \A i \in A : i \in 1..n
          BY <3>2
        <5> QED BY <5>1, Zenon
      <4>2. h[A] = g[A] /\ (A # {} => h[A \ {Max(A)}] = g[A \ {Max(A)}])
        BY <3>2, <4>1
      <4>3. g[A] = IF A = {} THEN Unit ELSE Join(g[A \ {Max(A)}], Weight(s[Max(A)]))
        BY <2>1, <4>1
      <4> QED BY <4>2, <4>3
    <3> QED BY <3>1, <3>2
  <2>3. h = k
    BY <2>2
  <2>4. Up(n + 1, h)
    BY <2>3, Zenon
  <2>5. n + 1 \in Nat
    OBVIOUS
  <2> HIDE DEF h, Up
  <2> QED BY <2>4, <2>5
<1>3. N = Nat
  <2>1. N \in SUBSET Nat
    OBVIOUS
  <2> HIDE DEF N
  <2> QED BY <1>1, <1>2, <2>1, NatInduct
<1>4. Len(s) \in N
  BY <1>3, LenProperties
<1>5. PICK g : Up(Len(s), g)
  BY <1>4
<1>6. DOMAIN s = 1..Len(s)
  BY LenProperties
<1> QED BY <1>5, <1>6 DEF Runs

\* The empty sequence.
LEMMA FoldEmpty == Fold(<<>>) = Unit
<1>1. <<>> \in Seq({}) /\ DOMAIN <<>> = {}
  OBVIOUS
<1>2. Runs(<<>>, CHOOSE g : Runs(<<>>, g))
  BY <1>1, RunExists
<1> DEFINE g == CHOOSE g : Runs(<<>>, g)
<1>3. Fold(<<>>) = g[{}]
  BY <1>1, FoldIsRun
<1> HIDE DEF g
<1>4. Runs(<<>>, g)
  BY <1>2 DEF g
<1>5. {} \in SUBSET DOMAIN <<>>
  OBVIOUS
<1>6. g[{}] = Unit
  BY <1>4, <1>5 DEF Runs
<1> QED BY <1>3, <1>6

\* One element more.
LEMMA FoldAppend ==
  ASSUME NEW T, NEW s \in Seq(T), NEW x \in T
  PROVE  Fold(Append(s, x)) = Join(Fold(s), Weight(x))
<1> DEFINE t == Append(s, x)
           n == Len(s)
           g == CHOOSE g : Runs(s, g)
           h == CHOOSE h : Runs(t, h)
<1>1. /\ n \in Nat /\ t \in Seq(T)
      /\ DOMAIN s = 1..n /\ DOMAIN t = 1..(n + 1)
      /\ t[n + 1] = x /\ \A i \in 1..n : t[i] = s[i]
  OBVIOUS
<1>2. Runs(s, g) /\ Runs(t, h)
  BY <1>1, RunExists
<1>3. Fold(s) = g[1..n] /\ Fold(t) = h[1..(n + 1)]
  BY <1>1, FoldIsRun
<1> HIDE DEF g, h, t, n
<1> DEFINE N == {k \in Nat : k <= n => h[1..k] = g[1..k]}
<1>4. 0 \in N
  <2>1. 1..0 = {}
    OBVIOUS
  <2>2. {} \in SUBSET DOMAIN s /\ {} \in SUBSET DOMAIN t
    OBVIOUS
  <2>3. g[{}] = Unit /\ h[{}] = Unit
    BY <1>2, <2>2 DEF Runs
  <2> QED BY <2>1, <2>3
<1>5. ASSUME NEW k \in Nat, k + 1 <= n + 1
      PROVE  /\ h[1..(k + 1)] = Join(h[1..k], Weight(t[k + 1]))
             /\ k + 1 <= n => g[1..(k + 1)] = Join(g[1..k], Weight(s[k + 1]))
  <2> DEFINE A == 1..(k + 1)
  <2>1. Max(A) = k + 1
    BY MaxOf
  <2>2. A # {} /\ A \ {k + 1} = 1..k
    OBVIOUS
  <2>3. A \in SUBSET DOMAIN t /\ (k + 1 <= n => A \in SUBSET DOMAIN s)
    BY <1>1, <1>5
  <2> HIDE DEF A
  <2>4. h[A] = Join(h[A \ {Max(A)}], Weight(t[Max(A)]))
    BY <1>2, <2>2, <2>3 DEF Runs
  <2>5. k + 1 <= n => g[A] = Join(g[A \ {Max(A)}], Weight(s[Max(A)]))
    BY <1>2, <2>2, <2>3 DEF Runs
  <2> QED BY <2>1, <2>2, <2>4, <2>5 DEF A
<1>6. ASSUME NEW k \in N PROVE k + 1 \in N
  <2>1. SUFFICES ASSUME k + 1 <= n PROVE h[1..(k + 1)] = g[1..(k + 1)]
    OBVIOUS
  <2>2. k \in Nat /\ k + 1 <= n + 1 /\ h[1..k] = g[1..k] /\ t[k + 1] = s[k + 1]
    BY <1>1, <2>1
  <2> HIDE DEF N
  <2> QED BY <1>5, <2>1, <2>2
<1>7. N = Nat
  <2>1. N \in SUBSET Nat
    OBVIOUS
  <2> HIDE DEF N
  <2> QED BY <1>4, <1>6, <2>1, NatInduct
<1>8. h[1..n] = g[1..n]
  BY <1>1, <1>7
<1>9. h[1..(n + 1)] = Join(h[1..n], Weight(x))
  BY <1>1, <1>5
<1> QED BY <1>3, <1>8, <1>9 DEF t

\* A single element.
LEMMA FoldOne == ASSUME NEW x PROVE Fold(<<x>>) = Join(Unit, Weight(x))
<1>1. <<>> \in Seq({x}) /\ Append(<<>>, x) = <<x>>
  OBVIOUS
<1> QED BY <1>1, FoldAppend, FoldEmpty

\* The fold stays in any set that Join stays in.
LEMMA FoldType ==
  ASSUME NEW T, NEW V, Unit \in V, \A a \in V, x \in T : Join(a, Weight(x)) \in V,
         NEW s \in Seq(T)
  PROVE  Fold(s) \in V
<1> DEFINE S == {r \in Seq(T) : Fold(r) \in V}
<1>1. <<>> \in S
  BY FoldEmpty
<1>2. ASSUME NEW r \in S, NEW x \in T PROVE Append(r, x) \in S
  <2>1. Fold(Append(r, x)) = Join(Fold(r), Weight(x))
    BY FoldAppend
  <2> QED BY <2>1
<1>3. S = Seq(T)
  <2>1. S \in SUBSET Seq(T)
    OBVIOUS
  <2> HIDE DEF S
  <2> QED BY <1>1, <1>2, <2>1, SeqInduct
<1> QED BY <1>3

\* Join puts values of V together, in whatever order it is applied.
Associates(V) ==
  /\ Unit \in V
  /\ \A a, b \in V : Join(a, b) \in V
  /\ \A a \in V : Join(a, Unit) = a
  /\ \A a, b, c \in V : Join(Join(a, b), c) = Join(a, Join(b, c))

\* Then one sequence behind another is folded into the two folds.
LEMMA FoldConcat ==
  ASSUME NEW T, NEW V, Associates(V), \A x \in T : Weight(x) \in V,
         NEW r \in Seq(T), NEW s \in Seq(T)
  PROVE  Fold(r \o s) = Join(Fold(r), Fold(s))
<1> DEFINE S == {q \in Seq(T) : Fold(r \o q) = Join(Fold(r), Fold(q))}
<1>1. ASSUME NEW q \in Seq(T) PROVE Fold(q) \in V
  BY FoldType DEF Associates
<1>2. <<>> \in S
  <2>1. r \o <<>> = r
    BY ConcatEmptySeq
  <2> QED BY <1>1, <2>1, FoldEmpty DEF Associates
<1>3. ASSUME NEW q \in S, NEW x \in T PROVE Append(q, x) \in S
  <2>1. r \o Append(q, x) = Append(r \o q, x)
    <3>1. q \in Seq(T) /\ r \o q \in Seq(T) /\ <<x>> \in Seq(T)
      OBVIOUS
    <3> HIDE DEF S
    <3>2. Append(q, x) = q \o <<x>> /\ Append(r \o q, x) = (r \o q) \o <<x>>
      BY <3>1, AppendIsConcat, Zenon
    <3> QED BY <3>1, <3>2, ConcatAssociative
  <2>2. r \o q \in Seq(T) /\ Append(q, x) \in Seq(T)
    OBVIOUS
  <2>3. Fold(Append(r \o q, x)) = Join(Fold(r \o q), Weight(x))
    BY <2>2, FoldAppend
  <2>4. Fold(Append(q, x)) = Join(Fold(q), Weight(x))
    BY FoldAppend
  <2>5. Fold(r) \in V /\ Fold(q) \in V /\ Weight(x) \in V
    BY <1>1
  <2>6. Join(Join(Fold(r), Fold(q)), Weight(x)) = Join(Fold(r), Join(Fold(q), Weight(x)))
    BY <2>5 DEF Associates
  <2>7. Fold(r \o q) = Join(Fold(r), Fold(q))
    OBVIOUS
  <2>8. Fold(r \o Append(q, x)) = Join(Fold(r), Fold(Append(q, x)))
    BY <2>1, <2>3, <2>4, <2>6, <2>7, Zenon
  <2> QED BY <2>2, <2>8, Zenon
<1>4. S = Seq(T)
  <2>1. S \in SUBSET Seq(T)
    OBVIOUS
  <2> HIDE DEF S
  <2> QED BY <1>2, <1>3, <2>1, SeqInduct
<1> QED BY <1>4
=============================================================================
