--------------------------- MODULE GenPathProofs ---------------------------
(***************************************************************************)
(* Theorems about GenPath, for any sys.path and any number of executions   *)
(* of the package root.  The entries of gen and the others are two filters *)
(* of the path, which SequenceFolds takes apart when entries are put       *)
(* behind others.                                                          *)
(***************************************************************************)
EXTENDS GenPath, SequenceTheorems, TLAPS

GenEntries == {"gen", "alias"}
OtherEntries == Entries \ GenEntries

G == INSTANCE SequenceFolds WITH
  Join   <- LAMBDA a, b : a \o b,
  Weight <- LAMBDA e : IF IsGen(e) THEN <<e>> ELSE <<>>,
  Unit   <- <<>>

O == INSTANCE SequenceFolds WITH
  Join   <- LAMBDA a, b : a \o b,
  Weight <- LAMBDA e : IF ~IsGen(e) THEN <<e>> ELSE <<>>,
  Unit   <- <<>>

-----------------------------------------------------------------------------
(* The two filters. *)

LEMMA GensAreFold == \A p : Gens(p) = G!Fold(p)
BY DEF Gens, Keep, G!Fold, FoldLeft, G!FoldLeft, MapThenFoldSet, G!MapThenFoldSet, Max, G!Max

LEMMA OthersAreFold == \A p : Others(p) = O!Fold(p)
BY DEF Others, Keep, O!Fold, FoldLeft, O!FoldLeft, MapThenFoldSet, O!MapThenFoldSet, Max, O!Max

\* Joining sequences, as the lemmas of SequenceFolds need it.
LEMMA JoinFacts ==
  ASSUME NEW T
  PROVE  /\ <<>> \in Seq(T)
         /\ \A a, b \in Seq(T) : a \o b \in Seq(T)
         /\ \A a \in Seq(T) : a \o <<>> = a
         /\ \A a, b, c \in Seq(T) : (a \o b) \o c = a \o (b \o c)
BY ConcatProperties, ConcatEmptySeq, ConcatAssociative, EmptySeq

LEMMA GensType == ASSUME NEW p \in Seq(Entries) PROVE Gens(p) \in Seq(GenEntries)
<1> DEFINE V == Seq(GenEntries)
<1>1. ASSUME NEW e \in Entries PROVE (IF IsGen(e) THEN <<e>> ELSE <<>>) \in V
  <2>1. IsGen(e) => e \in GenEntries
    BY DEF IsGen, GenEntries
  <2>2. CASE IsGen(e)
    BY <2>1, <2>2
  <2>3. CASE ~(IsGen(e))
    BY <2>3
  <2> QED BY <2>2, <2>3
<1>2. <<>> \in V /\ \A a, b \in V : a \o b \in V
  BY JoinFacts
<1> HIDE DEF V
<1>3. \A a \in V, e \in Entries : a \o (IF IsGen(e) THEN <<e>> ELSE <<>>) \in V
  BY <1>1, <1>2
<1>4. G!Fold(p) \in V
  BY <1>2, <1>3, G!FoldType
<1> QED BY <1>4, GensAreFold DEF V

LEMMA OthersType == ASSUME NEW p \in Seq(Entries) PROVE Others(p) \in Seq(OtherEntries)
<1> DEFINE V == Seq(OtherEntries)
<1>1. ASSUME NEW e \in Entries PROVE (IF ~IsGen(e) THEN <<e>> ELSE <<>>) \in V
  <2>1. ~IsGen(e) => e \in OtherEntries
    BY DEF IsGen, GenEntries, OtherEntries
  <2>2. CASE ~IsGen(e)
    BY <2>1, <2>2
  <2>3. CASE ~(~IsGen(e))
    BY <2>3
  <2> QED BY <2>2, <2>3
<1>2. <<>> \in V /\ \A a, b \in V : a \o b \in V
  BY JoinFacts
<1> HIDE DEF V
<1>3. \A a \in V, e \in Entries : a \o (IF ~IsGen(e) THEN <<e>> ELSE <<>>) \in V
  BY <1>1, <1>2
<1>4. O!Fold(p) \in V
  BY <1>2, <1>3, O!FoldType
<1> QED BY <1>4, OthersAreFold DEF V

LEMMA GensConcat ==
  ASSUME NEW p \in Seq(Entries), NEW q \in Seq(Entries)
  PROVE  Gens(p \o q) = Gens(p) \o Gens(q)
<1> DEFINE V == Seq(Entries)
<1>1. \A e \in Entries : (IF IsGen(e) THEN <<e>> ELSE <<>>) \in V
  OBVIOUS
<1>2. G!Associates(V)
  BY JoinFacts DEF G!Associates
<1> HIDE DEF V
<1>3. \A r, s \in Seq(Entries) : G!Fold(r \o s) = G!Fold(r) \o G!Fold(s)
  BY <1>1, <1>2, G!FoldConcat
<1> QED BY <1>3, GensAreFold

LEMMA OthersConcat ==
  ASSUME NEW p \in Seq(Entries), NEW q \in Seq(Entries)
  PROVE  Others(p \o q) = Others(p) \o Others(q)
<1> DEFINE V == Seq(Entries)
<1>1. \A e \in Entries : (IF ~IsGen(e) THEN <<e>> ELSE <<>>) \in V
  OBVIOUS
<1>2. O!Associates(V)
  BY JoinFacts DEF O!Associates
<1> HIDE DEF V
<1>3. \A r, s \in Seq(Entries) : O!Fold(r \o s) = O!Fold(r) \o O!Fold(s)
  BY <1>1, <1>2, O!FoldConcat
<1> QED BY <1>3, OthersAreFold

\* A path with entries of gen alone, and one with none.
LEMMA OnlyGens ==
  ASSUME NEW p \in Seq(GenEntries)
  PROVE  Gens(p) = p /\ Others(p) = <<>>
<1> DEFINE S == {q \in Seq(GenEntries) : G!Fold(q) = q /\ O!Fold(q) = <<>>}
<1>1. <<>> \in S
  BY G!FoldEmpty, O!FoldEmpty
<1>2. ASSUME NEW q \in S, NEW e \in GenEntries PROVE Append(q, e) \in S
  <2>1. IsGen(e)
    BY DEF IsGen, GenEntries
  <2>2. q \in Seq(GenEntries) /\ Append(q, e) \in Seq(GenEntries) /\ Append(q, e) = q \o <<e>>
    BY AppendIsConcat
  <2>3. G!Fold(Append(q, e)) = G!Fold(q) \o <<e>>
    BY <2>1, <2>2, G!FoldAppend
  <2>4. O!Fold(Append(q, e)) = O!Fold(q) \o <<>>
    BY <2>1, <2>2, O!FoldAppend
  <2> QED BY <2>2, <2>3, <2>4
<1>3. S = Seq(GenEntries)
  <2>1. S \in SUBSET Seq(GenEntries)
    OBVIOUS
  <2> HIDE DEF S
  <2> QED BY <1>1, <1>2, <2>1, G!SeqInduct
<1> QED BY <1>3, GensAreFold, OthersAreFold

LEMMA OnlyOthers ==
  ASSUME NEW p \in Seq(OtherEntries)
  PROVE  Gens(p) = <<>> /\ Others(p) = p
<1> DEFINE S == {q \in Seq(OtherEntries) : G!Fold(q) = <<>> /\ O!Fold(q) = q}
<1>1. <<>> \in S
  BY G!FoldEmpty, O!FoldEmpty
<1>2. ASSUME NEW q \in S, NEW e \in OtherEntries PROVE Append(q, e) \in S
  <2>1. ~IsGen(e)
    BY DEF IsGen, OtherEntries, GenEntries
  <2>2. q \in Seq(OtherEntries) /\ Append(q, e) \in Seq(OtherEntries) /\ Append(q, e) = q \o <<e>>
    BY AppendIsConcat
  <2>3. G!Fold(Append(q, e)) = G!Fold(q) \o <<>>
    BY <2>1, <2>2, G!FoldAppend
  <2>4. O!Fold(Append(q, e)) = O!Fold(q) \o <<e>>
    BY <2>1, <2>2, O!FoldAppend
  <2> QED BY <2>2, <2>3, <2>4
<1>3. S = Seq(OtherEntries)
  <2>1. S \in SUBSET Seq(OtherEntries)
    OBVIOUS
  <2> HIDE DEF S
  <2> QED BY <1>1, <1>2, <2>1, G!SeqInduct
<1> QED BY <1>3, GensAreFold, OthersAreFold

\* There is a first entry of the pip packages, if there is one.
LEMMA FirstSite ==
  ASSUME NEW p \in Seq(Entries), \E i \in DOMAIN p : p[i] = "site"
  PROVE  \E i \in DOMAIN p : p[i] = "site" /\ \A j \in 1..(i - 1) : p[j] # "site"
<1> DEFINE Has(q)   == \E i \in 1..Len(q) : q[i] = "site"
           First(q) == \E i \in 1..Len(q) : q[i] = "site" /\ \A j \in 1..(i - 1) : q[j] # "site"
           S == {q \in Seq(Entries) : Has(q) => First(q)}
<1>1. <<>> \in S
  BY EmptySeq
<1>2. ASSUME NEW q \in S, NEW e \in Entries PROVE Append(q, e) \in S
  <2>1. /\ q \in Seq(Entries) /\ Append(q, e) \in Seq(Entries) /\ Len(q) \in Nat
        /\ Len(Append(q, e)) = Len(q) + 1
        /\ \A i \in 1..Len(q) : Append(q, e)[i] = q[i]
        /\ Append(q, e)[Len(q) + 1] = e
    BY AppendProperties, LenProperties
  <2> DEFINE r == Append(q, e)
  <2>2. CASE Has(q)
    <3>1. PICK i \in 1..Len(q) : q[i] = "site" /\ \A j \in 1..(i - 1) : q[j] # "site"
      BY <2>2
    <3>2. i \in 1..Len(r) /\ r[i] = "site" /\ \A j \in 1..(i - 1) : r[j] # "site"
      BY <2>1, <3>1
    <3> QED BY <2>1, <3>2
  <2>3. CASE ~Has(q)
    <3>1. \A j \in 1..((Len(q) + 1) - 1) : r[j] # "site"
      BY <2>1, <2>3
    <3>2. Has(r) => r[Len(q) + 1] = "site" /\ Len(q) + 1 \in 1..Len(r)
      BY <2>1, <2>3
    <3> QED BY <2>1, <3>1, <3>2
  <2> QED BY <2>2, <2>3
<1>3. S = Seq(Entries)
  <2>1. S \in SUBSET Seq(Entries)
    OBVIOUS
  <2> HIDE DEF S
  <2> QED BY <1>1, <1>2, <2>1, G!SeqInduct
<1> QED BY <1>3, LenProperties

\* Where the libraries of the script would find gen's google.protobuf.
GenIsFound == regular \/ ~installed \/ ~Contains(path, "site")

LEMMA FoundGen ==
  ASSUME path \in Seq(Entries), Found(path) = "gen" PROVE GenIsFound
<1> SUFFICES ASSUME ~regular, installed, Contains(path, "site") PROVE Found(path) = "pip"
  BY DEF GenIsFound, Found
<1>1. \E i \in DOMAIN path : path[i] = "site"
  BY LenProperties DEF Contains
<1>2. PICK i \in DOMAIN path : path[i] = "site" /\ \A j \in 1..(i - 1) : path[j] # "site"
  BY <1>1, FirstSite
<1>3. \A j \in 1..(i - 1) : ~Regular(path[j])
  BY <1>2 DEF Regular
<1> QED BY <1>2, <1>3 DEF Found

-----------------------------------------------------------------------------
(* The inductive invariant. *)

\* The generated modules are registered.
Complete == IF wktDir THEN <<"pip", "gen">> ELSE <<"pip">>

\* No entry of gen stands before another one.
Behind(p) == \A i, j \in DOMAIN p : IsGen(p[i]) /\ i < j => IsGen(p[j])

Types ==
  /\ path \in Seq(Entries) /\ removed \in Seq(GenEntries) /\ initial \in Seq(Entries)
  /\ pc \in {"outside", "stripped", "imported", "restored", "dead"}
  /\ runs \in 0..MaxRuns /\ wktDir \in BOOLEAN /\ failed \in BOOLEAN

\* What was taken off is in the local list, as long as there is one, or lost.
EntriesInv ==
  /\ Others(path) = Others(initial)
  /\ Gens(path \o removed) = IF failed THEN <<>> ELSE Gens(initial)
  /\ pc \in {"stripped", "imported"} => path \in Seq(OtherEntries)
  /\ pc \notin {"stripped", "imported"} => removed = <<>>
  /\ runs > 0 => Behind(path)

\* The package is imported from pip, and its path complete after each registration;
\* or gen's was found at once, and the process is dead.
GoogleInv ==
  /\ google \in {"none", "pip", "gen"}
  /\ google = "none" => wkt = <<>>
  /\ google = "pip" => wkt \in {<<"pip">>, Complete}
  /\ Registered => wkt = Complete
  /\ pc \in {"imported", "restored"} => google = "pip"
  /\ pc \in {"stripped", "imported", "restored"} => runs > 0
  /\ pc = "dead" => google # "pip" /\ runs = 0
  /\ google = "gen" => wkt = <<"gen">> /\ pc = "dead" /\ GenIsFound

IInv == Types /\ EntriesInv /\ GoogleInv

LEMMA NoGensIsBehind ==
  ASSUME NEW p \in Seq(OtherEntries)
  PROVE  \A i \in DOMAIN p : ~IsGen(p[i])
BY DEF OtherEntries, GenEntries, IsGen

LEMMA GensBehindOthers ==
  ASSUME NEW p \in Seq(OtherEntries), NEW q \in Seq(GenEntries)
  PROVE  Behind(p \o q)
<1>1. p \in Seq(Entries) /\ q \in Seq(Entries)
  BY SeqMonotonic DEF OtherEntries, GenEntries, Entries
<1>2. /\ p \o q \in Seq(Entries)
      /\ DOMAIN (p \o q) = 1..(Len(p) + Len(q))
      /\ \A i \in 1..(Len(p) + Len(q)) :
           (p \o q)[i] = IF i <= Len(p) THEN p[i] ELSE q[i - Len(p)]
  BY <1>1, ConcatProperties, LenProperties
<1>3. Len(p) \in Nat /\ Len(q) \in Nat /\ DOMAIN p = 1..Len(p) /\ DOMAIN q = 1..Len(q)
  BY LenProperties
<1>4. ASSUME NEW i \in 1..(Len(p) + Len(q)), NEW j \in 1..(Len(p) + Len(q)),
             IsGen((p \o q)[i]), i < j
      PROVE  IsGen((p \o q)[j])
  <2>1. ~(i <= Len(p))
    BY <1>2, <1>3, <1>4, NoGensIsBehind
  <2>2. j - Len(p) \in 1..Len(q) /\ (p \o q)[j] = q[j - Len(p)]
    BY <1>2, <1>3, <1>4, <2>1
  <2>3. q[j - Len(p)] \in GenEntries
    BY <2>2, ElementOfSeq
  <2> QED BY <2>2, <2>3 DEF IsGen, GenEntries
<1> QED BY <1>2, <1>4 DEF Behind

\* Without an entry of gen an import finds nothing of gen.
LEMMA FoundWithoutGen ==
  ASSUME NEW p \in Seq(OtherEntries)
  PROVE  Found(p) \in {"pip", "none"}
BY NoGensIsBehind DEF Found

LEMMA GenTypes ==
  /\ \A p \in Seq(OtherEntries) : p \in Seq(Entries)
  /\ \A p \in Seq(GenEntries) : p \in Seq(Entries)
BY SeqMonotonic DEF OtherEntries, GenEntries, Entries

LEMMA InitIInv == ASSUME Init PROVE IInv
<1>1. path \in Seq(Entries)
  <2>1. PICK n \in 0..MaxEntries : path \in [1..n -> Entries]
    BY DEF Init
  <2> QED BY <2>1, PathAssumption DEF PathAssumption
<1>2. path \o removed = path
  BY <1>1, ConcatEmptySeq DEF Init
<1>3. Types
  <2>1. <<>> \in Seq(GenEntries) /\ 0 \in 0..MaxRuns
    BY EmptySeq, PathAssumption DEF PathAssumption
  <2> QED BY <1>1, <2>1 DEF Init, Types
<1>4. EntriesInv
  BY <1>2 DEF Init, EntriesInv
<1>5. GoogleInv
  BY DEF Init, GoogleInv, Registered
<1> QED BY <1>3, <1>4, <1>5 DEF IInv

\* Taking gen off the path and putting it back behind the rest.
LEMMA StripIInv == ASSUME IInv, Strip PROVE IInv'
<1> USE DEF IInv, Strip, environment
<1> DEFINE gs == Gens(path)
           os == Others(path)
<1>1. path \in Seq(Entries) /\ removed = <<>> /\ path \o removed = path
  BY ConcatEmptySeq DEF Types, EntriesInv
<1>2. gs \in Seq(GenEntries) /\ os \in Seq(OtherEntries)
  BY <1>1, GensType, OthersType
<1>3. gs \in Seq(Entries) /\ os \in Seq(Entries)
  BY <1>2, GenTypes
<1>4. Gens(os \o gs) = gs
  <2>1. Gens(os \o gs) = Gens(os) \o Gens(gs)
    BY <1>3, GensConcat
  <2>2. Gens(os) = <<>> /\ Gens(gs) = gs
    BY <1>2, OnlyOthers, OnlyGens
  <2> QED BY <2>1, <2>2, <1>2, ConcatEmptySeq
<1>5. Others(os) = os
  BY <1>2, OnlyOthers
<1>6. Behind(os)
  BY <1>2, NoGensIsBehind DEF Behind
<1>7. removed' = gs /\ path' = os
  OBVIOUS
<1> HIDE DEF gs, os
<1>8. Types'
  BY <1>2, <1>3, <1>7, PathAssumption DEF Types, PathAssumption
<1>9. os = Others(initial) /\ gs = IF failed THEN <<>> ELSE Gens(initial)
  BY <1>1 DEF EntriesInv, gs, os
<1>10. EntriesInv'
  BY <1>2, <1>4, <1>5, <1>6, <1>7, <1>9 DEF EntriesInv
<1>11. GoogleInv'
  BY DEF GoogleInv, Registered, Complete, Types
<1> QED BY <1>8, <1>10, <1>11

LEMMA RestoreIInv == ASSUME IInv, Restore PROVE IInv'
<1> USE DEF IInv, Restore, environment
<1>1. path \in Seq(OtherEntries) /\ removed \in Seq(GenEntries)
  BY DEF EntriesInv, Types
<1>2. path \in Seq(Entries) /\ removed \in Seq(Entries) /\ path \o removed \in Seq(Entries)
  BY <1>1, GenTypes, ConcatProperties
<1>3. Others(path \o removed) = Others(path)
  <2>1. Others(path \o removed) = Others(path) \o Others(removed)
    BY <1>2, OthersConcat
  <2>2. Others(removed) = <<>> /\ Others(path) \in Seq(OtherEntries)
    BY <1>1, <1>2, OnlyGens, OthersType
  <2> QED BY <2>1, <2>2, ConcatEmptySeq
<1>4. (path \o removed) \o <<>> = path \o removed
  BY <1>2, ConcatEmptySeq
<1>5. Behind(path \o removed)
  BY <1>1, GensBehindOthers
<1>6. Types'
  BY <1>2 DEF Types
<1>7. EntriesInv'
  BY <1>3, <1>4, <1>5 DEF EntriesInv
<1>8. GoogleInv'
  BY DEF GoogleInv, Registered, Complete
<1> QED BY <1>6, <1>7, <1>8

LEMMA ImportIInv == ASSUME IInv, ImportGoogle PROVE IInv'
<1> USE DEF IInv, environment
<1>1. path \in Seq(OtherEntries) /\ path' = path /\ initial' = initial
  BY DEF EntriesInv, ImportGoogle
<1>2. Found(path) \in {"pip", "none"}
  BY <1>1, FoundWithoutGen
<1>3. Types'
  <2>1. <<>> \in Seq(GenEntries)
    BY EmptySeq
  <2> QED BY <2>1 DEF Types, ImportGoogle
<1>4. EntriesInv'
  <2>1. CASE UNCHANGED <<removed, failed>> /\ pc' = "imported"
    BY <2>1 DEF EntriesInv, ImportGoogle, Behind
  <2>2. CASE pc' = "outside" /\ removed' = <<>> /\ failed' = TRUE
    <3>1. path \o <<>> = path /\ Gens(path) = <<>>
      BY <1>1, ConcatEmptySeq, OnlyOthers
    <3> QED BY <2>2, <3>1, <1>1 DEF EntriesInv, ImportGoogle, Behind
  <2> QED BY <2>1, <2>2 DEF ImportGoogle
<1>5. GoogleInv'
  BY <1>2 DEF GoogleInv, ImportGoogle, Import, Registered, Complete
<1> QED BY <1>3, <1>4, <1>5

\* google.protobuf looks in the directory of pip, and then in what is appended.
LEMMA AppendToOne ==
  ASSUME NEW T, NEW s \in Seq(T), NEW e \in T
  PROVE  Len(s) = 1 => Append(s, e) = <<s[1], e>>
<1> DEFINE t == Append(s, e)
<1>1. t \in Seq(T) /\ Len(t) = Len(s) + 1
  BY AppendProperties
<1>2. \A i \in 1..Len(s) : t[i] = s[i]
  BY AppendProperties
<1>3. t[Len(s) + 1] = e
  BY AppendProperties
<1> HIDE DEF t
<1>4. Len(s) = 1 => t[1] = s[1]
  BY <1>2
<1>5. Len(s) = 1 => t[2] = e
  <2>1. Len(s) = 1 => Len(s) + 1 = 2
    OBVIOUS
  <2> QED BY <1>3, <2>1, Zenon
<1>6. Len(t) = 2 => t = <<t[1], t[2]>>
  <2>1. t \in [1..Len(t) -> T]
    BY <1>1, LenProperties
  <2>2. t \in [1..2 -> T] => t = <<t[1], t[2]>>
    OBVIOUS
  <2> QED BY <2>1, <2>2, Zenon
<1> QED BY <1>1, <1>4, <1>5, <1>6 DEF t

LEMMA AddWktIInv == ASSUME IInv, AddWkt PROVE IInv'
<1> USE DEF IInv, AddWkt, environment
<1>1. Types'
  BY DEF Types
<1>2. EntriesInv'
  BY DEF EntriesInv, Behind
<1>3. wkt' = Complete
  <2>1. wkt \in {<<"pip">>, Complete}
    BY DEF GoogleInv
  <2>2. Append(<<"pip">>, "gen") = <<"pip", "gen">>
    <3>1. <<"pip">> \in Seq({"pip", "gen"}) /\ Len(<<"pip">>) = 1 /\ <<"pip">>[1] = "pip"
      OBVIOUS
    <3> QED BY <3>1, AppendToOne
  <2>3. ~Contains(<<"pip">>, "gen") /\ Contains(<<"pip", "gen">>, "gen")
    BY DEF Contains
  <2> QED BY <2>1, <2>2, <2>3 DEF Complete
<1>4. GoogleInv'
  BY <1>3 DEF GoogleInv, Registered, Complete
<1> QED BY <1>1, <1>2, <1>4

LEMMA PreloadIInv == ASSUME IInv, Preload PROVE IInv'
<1> USE DEF IInv, Preload, environment
<1>1. Types'
  BY DEF Types
<1>2. EntriesInv'
  BY DEF EntriesInv, Behind
<1>3. GoogleInv'
  <2>1. CASE Found(path) = "gen"
    <3>1. GenIsFound'
      BY <2>1, FoundGen DEF GenIsFound, Types
    <3> QED BY <2>1, <3>1 DEF GoogleInv, Import, Registered, Complete
  <2>2. CASE Found(path) # "gen"
    <3>1. Found(path) \in {"pip", "none"}
      BY <2>2 DEF Found
    <3> QED BY <3>1 DEF GoogleInv, Import, Registered, Complete
  <2> QED BY <2>1, <2>2
<1> QED BY <1>1, <1>2, <1>3

LEMMA NextIInv == ASSUME IInv, [Next]_vars PROVE IInv'
<1>1. CASE Install
  BY <1>1 DEF IInv, Install, environment, Types, EntriesInv, GoogleInv, GenIsFound, Behind,
              Registered, Complete
<1>2. CASE UNCHANGED vars
  BY <1>2 DEF IInv, vars, Types, EntriesInv, GoogleInv, GenIsFound, Behind, Registered, Complete
<1> QED BY <1>1, <1>2, PreloadIInv, StripIInv, ImportIInv, RestoreIInv, AddWktIInv DEF Next

\* In every reachable state sys.path holds, or the function has saved, the entries it
\* had, but for those of gen once an import has failed.
THEOREM Invariance == Spec => []IInv
<1>1. Init => IInv
  BY InitIInv
<1>2. IInv /\ [Next]_vars => IInv'
  BY NextIInv
<1> QED BY <1>1, <1>2, PTL DEF Spec

-----------------------------------------------------------------------------
(* The properties. *)

\* sys.path, the local list and the path of google.protobuf are well formed
\* throughout, for any path at the start and any number of executions.
THEOREM TypeCorrect == Spec => []TypeOK
<1>1. IInv => TypeOK
  BY DEF IInv, Types, GoogleInv, Complete, TypeOK, GenEntries
<1> QED BY <1>1, Invariance, PTL

\* google.protobuf is the one of pip, with the generated modules behind its own; a
\* process that has found gen's instead never executes the package root.
THEOREM PipIsFirst == Spec => []PipFirst
<1>1. IInv => PipFirst
  BY DEF IInv, GoogleInv, GenIsFound, Complete, PipFirst
<1> QED BY <1>1, Invariance, PTL

\* No other entry is lost or moved among the others, and no entry of gen doubled.
THEOREM OthersAreKept == Spec => []OthersStay
<1>1. IInv => OthersStay
  BY DEF IInv, EntriesInv, OthersStay
<1> QED BY <1>1, Invariance, PTL

\* After a registration gen is behind the rest, unless a failed import lost it.
THEOREM GenIsBehind == Spec => []GenBehind
<1>1. ASSUME IInv PROVE GenBehind
  <2>1. SUFFICES ASSUME Registered PROVE GenBehind
    BY DEF GenBehind
  <2>2. path \in Seq(Entries) /\ path \o removed = path
    BY <1>1, <2>1, ConcatEmptySeq DEF IInv, Types, EntriesInv, Registered
  <2> QED BY <1>1, <2>1, <2>2 DEF IInv, EntriesInv, Registered, Behind, GenBehind
<1> QED BY <1>1, Invariance, PTL
=============================================================================
