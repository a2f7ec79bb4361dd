----------------------------- MODULE OrderedOutput -----------------------------
(***************************************************************************)
(* What emitting sections promises: each is written once, after the keys   *)
(* it depends on, as long as that is possible for any section that is      *)
(* left; and in the end all are written, or those that are left cannot be. *)
(* How the sections are found, batched and grouped is left open.           *)
(***************************************************************************)
EXTENDS Naturals, Sequences

VARIABLES
    input,      \* [sections : Seq([keys, depends_on, ...]), given : the keys there already]
    written,    \* the indices of the sections written so far, in order
    outcome     \* "running", "done", "failed"

vars == <<input, written, outcome>>

Indices    == DOMAIN input.sections
WrittenSet == {written[k] : k \in DOMAIN written}
Provided   == input.given \union UNION {input.sections[s].keys : s \in WrittenSet}
Possible   == {s \in Indices \ WrittenSet : input.sections[s].depends_on \subseteq Provided}

Init == written = <<>> /\ outcome = "running"

Write(s) == /\ outcome = "running"
            /\ s \in Possible
            /\ written' = Append(written, s)
            /\ UNCHANGED <<input, outcome>>

Finish == /\ outcome = "running"
          /\ Possible = {}
          /\ outcome' = IF WrittenSet = Indices THEN "done" ELSE "failed"
          /\ UNCHANGED <<input, written>>

Next == (\E s \in Indices : Write(s)) \/ Finish

Spec == Init /\ [][Next]_vars /\ WF_vars(Next)
=============================================================================
