----------------------------- MODULE LoadOrder -----------------------------
(***************************************************************************)
(* What the loader of src/src/loader.cpp promises of the order in which it *)
(* loads files: a file is loaded once, and every file it imports is loaded *)
(* before it, but for those that import it back.                           *)
(***************************************************************************)
CONSTANT Files

VARIABLES imports,   \* the files each file imports: never changes
          loaded     \* the files whose declare and define passes are over

\* g imports f, perhaps through others: f is in every set that holds g and all
\* that its members import.
Reaches(g, f) ==
    \A S \in SUBSET Files :
        (g \in S /\ \A x \in S : imports[x] \subseteq S) => f \in S

Init == /\ imports \in [Files -> SUBSET Files]
        /\ loaded = {}

Load(f) == /\ f \notin loaded
           /\ \A g \in imports[f] : g \in loaded \/ Reaches(g, f)
           /\ loaded' = loaded \cup {f}
           /\ UNCHANGED imports

Next == \E f \in Files : Load(f)

Spec == Init /\ [][Next]_<<imports, loaded>>
=============================================================================
