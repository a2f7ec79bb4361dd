----------------------------- MODULE EmitterPasses -----------------------------
(***************************************************************************)
(* The emitter, one pass at a time: a pass writes the sections whose       *)
(* dependencies were satisfied before it.  The order within a pass is left *)
(* open.                                                                   *)
(***************************************************************************)
EXTENDS Naturals, Sequences

VARIABLES
    input,      \* [sections : Seq([keys, depends_on, ...]), given : the keys there already]
    written,    \* the indices of the sections written so far
    outcome     \* "running", "done", "failed"

vars == <<input, written, outcome>>

Indices  == DOMAIN input.sections
Provided == input.given \union UNION {input.sections[s].keys : s \in written}
Ready    == {s \in Indices \ written : input.sections[s].depends_on \subseteq Provided}

Init == written = {} /\ outcome = "running"

Pass == /\ outcome = "running"
        /\ Ready # {}
        /\ written' = written \union Ready
        /\ UNCHANGED <<input, outcome>>

Finish == /\ outcome = "running"
          /\ Ready = {}
          /\ outcome' = IF written = Indices THEN "done" ELSE "failed"
          /\ UNCHANGED <<input, written>>

Next == Pass \/ Finish

Spec == Init /\ [][Next]_vars /\ WF_vars(Next)
=============================================================================
