------------------------------ MODULE GenPath ------------------------------
(***************************************************************************)
(* The import of the Python package root (python/__init__.py) in a process *)
(* that runs python/echo/client/__main__.py: _register_generated_wkt takes *)
(* python/gen off sys.path while it imports google.protobuf from the pip   *)
(* package, puts it back behind the rest, and lets google.protobuf find    *)
(* the generated modules as well.  The import may fail, be tried again, or *)
(* be repeated (importlib.reload).                                         *)
(***************************************************************************)
EXTENDS Naturals, Sequences, SequenceFilter

CONSTANTS
  MaxEntries,  \* bound: entries of sys.path at the start
  MaxRuns      \* bound: how often the package root is executed

ASSUME PathAssumption == MaxEntries \in Nat /\ MaxRuns \in Nat \ {0}

\* Entries of sys.path: python/gen and another spelling of it, the directory of
\* the pip packages, the repository, and one that cannot be resolved.
Entries == {"gen", "alias", "site", "root", "broken"}
IsGen(e) == e \in {"gen", "alias"}

Gens(p) == Keep(p, IsGen)
Others(p) == Keep(p, LAMBDA e : ~IsGen(e))

VARIABLES
  path,       \* sys.path
  removed,    \* the entries that are taken off and not yet put back
  google,     \* where sys.modules has google.protobuf from, or "none"
  wkt,        \* google.protobuf.__path__, by where its directories lie
  pc,         \* where the process stands
  runs,       \* how often the package root was executed
  installed,  \* whether the pip package can be imported
  regular,    \* whether google is a regular package in gen, not a namespace
  wktDir,     \* whether gen/google/protobuf is there
  failed,     \* (history) an import of google.protobuf raised in the package root
  initial     \* (history) sys.path at the start

vars == <<path, removed, google, wkt, pc, runs, installed, regular, wktDir, failed, initial>>
environment == <<regular, wktDir, initial>>

Init ==
  /\ path \in UNION {[1..n -> Entries] : n \in 0..MaxEntries}
  /\ initial = path
  /\ removed = <<>> /\ google = "none" /\ wkt = <<>> /\ pc = "outside" /\ runs = 0
  /\ installed \in BOOLEAN /\ regular \in BOOLEAN /\ wktDir \in BOOLEAN
  /\ failed = FALSE

\* What an import of google.protobuf finds: the first regular package, or else
\* the namespace that gen alone makes of it, or nothing.
Regular(e) == (e = "site" /\ installed) \/ (IsGen(e) /\ regular)

Found(p) ==
  IF \E i \in DOMAIN p : /\ p[i] = "site" /\ installed
                         /\ \A j \in 1..(i - 1) : ~Regular(p[j])
  THEN "pip"
  ELSE IF \E i \in DOMAIN p : IsGen(p[i]) THEN "gen" ELSE "none"

Import(from) == google' = from /\ wkt' = <<from>>

\* __main__, run as a script, imports its libraries before anything of this
\* repository, and they import google.protobuf.  What of it they then import is
\* not in gen, so the script ends with a traceback if that is what they found.
Preload ==
  /\ pc = "outside" /\ google = "none" /\ runs = 0
  /\ IF Found(path) = "none" THEN UNCHANGED <<google, wkt>> ELSE Import(Found(path))
  /\ pc' = IF Found(path) = "pip" THEN pc ELSE "dead"
  /\ UNCHANGED <<path, removed, runs, installed, failed, environment>>

\* Mutant: the entries are compared as they are spelt.
BugStripsSpelling ==
  /\ pc = "outside" /\ runs < MaxRuns
  /\ runs' = runs + 1 /\ pc' = "stripped"
  /\ removed' = Keep(path, LAMBDA e : e = "gen")
  /\ path' = Keep(path, LAMBDA e : e # "gen")
  /\ UNCHANGED <<google, wkt, installed, failed, environment>>

\* Mutant: an entry that cannot be resolved is not kept.
BugStripsBroken ==
  /\ pc = "outside" /\ runs < MaxRuns
  /\ runs' = runs + 1 /\ pc' = "stripped"
  /\ removed' = Gens(path)
  /\ path' = Keep(path, LAMBDA e : ~IsGen(e) /\ e # "broken")
  /\ UNCHANGED <<google, wkt, installed, failed, environment>>

\* The loop over sys.path.
Strip ==
  /\ pc = "outside" /\ runs < MaxRuns
  /\ runs' = runs + 1 /\ pc' = "stripped"
  /\ removed' = Gens(path)
  /\ path' = Others(path)
  /\ UNCHANGED <<google, wkt, installed, failed, environment>>

\* import google.protobuf, unless sys.modules has it.  If it raises, so does the
\* import of the package root, and the local lists are gone.
ImportGoogle ==
  /\ pc = "stripped"
  /\ IF google # "none"
     THEN pc' = "imported" /\ UNCHANGED <<google, wkt, removed, failed>>
     ELSE IF Found(path) # "none"
     THEN pc' = "imported" /\ Import(Found(path)) /\ UNCHANGED <<removed, failed>>
     ELSE /\ pc' = "outside" /\ removed' = <<>> /\ failed' = TRUE
          /\ UNCHANGED <<google, wkt>>
  /\ UNCHANGED <<path, runs, installed, environment>>

\* Mutant: the entries go back to the front.
BugRestoresFront ==
  /\ pc = "imported" /\ pc' = "restored"
  /\ path' = removed \o path /\ removed' = <<>>
  /\ UNCHANGED <<google, wkt, runs, installed, failed, environment>>

\* sys.path.extend(removed)
Restore ==
  /\ pc = "imported" /\ pc' = "restored"
  /\ path' = path \o removed /\ removed' = <<>>
  /\ UNCHANGED <<google, wkt, runs, installed, failed, environment>>

\* Mutant: the directory is appended without a look at the list.
BugAddWkt ==
  /\ pc = "restored" /\ pc' = "outside"
  /\ wkt' = IF wktDir THEN Append(wkt, "gen") ELSE wkt
  /\ UNCHANGED <<path, removed, google, runs, installed, failed, environment>>

\* The directory of the generated modules, once; and the function returns.
AddWkt ==
  /\ pc = "restored" /\ pc' = "outside"
  /\ wkt' = IF wktDir /\ ~Contains(wkt, "gen") THEN Append(wkt, "gen") ELSE wkt
  /\ UNCHANGED <<path, removed, google, runs, installed, failed, environment>>

\* The pip package becomes importable.
Install ==
  /\ pc # "dead" /\ ~installed /\ installed' = TRUE
  /\ UNCHANGED <<path, removed, google, wkt, pc, runs, failed, environment>>

Next == Preload \/ Strip \/ ImportGoogle \/ Restore \/ AddWkt \/ Install

Spec == Init /\ [][Next]_vars
-----------------------------------------------------------------------------
TypeOK ==
  /\ path \in Seq(Entries) /\ removed \in Seq({"gen", "alias"})
  /\ google \in {"none", "pip", "gen"}
  /\ wkt \in {<<>>, <<"pip">>, <<"pip", "gen">>, <<"gen">>}
  /\ pc \in {"outside", "stripped", "imported", "restored", "dead"}
  /\ runs \in 0..MaxRuns

Registered == pc = "outside" /\ google # "none" /\ runs > 0

\* google.protobuf is the pip package, and its own modules come before the
\* generated ones of the same name, wherever gen stood on the path, however it
\* was spelt and whoever imported google.protobuf first.  The libraries of the
\* script may have found gen's before, but only if gen's google is a regular
\* package or pip's is not there: then the package root is never executed.
PipFirst ==
  /\ google = "gen" =>
       /\ pc = "dead" /\ runs = 0
       /\ regular \/ ~installed \/ ~Contains(path, "site")
  /\ Registered => wkt = (IF wktDir THEN <<"pip", "gen">> ELSE <<"pip">>)

\* Whatever happens to gen, all other entries stay, in their order, those that
\* cannot be resolved too; and the entries of gen, on the path or in the local
\* list, are what they were, none doubled by any number of runs, or all lost.
OthersStay ==
  /\ Others(path) = Others(initial)
  /\ Gens(path \o removed) \in {Gens(initial), <<>>}

\* After the registration gen is still on the path, for buf.validate, and behind
\* everything else, for what is imported later; only a failed import loses it.
GenBehind ==
  Registered =>
    /\ ~failed => Gens(path) = Gens(initial)
    /\ \A i, j \in DOMAIN path : IsGen(path[i]) /\ i < j => IsGen(path[j])

\* python/__init__.py:12 says "``python/gen`` is on ``sys.path`` for
\* ``buf.validate``": where it was, it is after the registration.
GenStays == Registered /\ Contains(initial, "gen") => Contains(path, "gen")
=============================================================================
