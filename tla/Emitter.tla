-------------------------------- MODULE Emitter --------------------------------
(***************************************************************************)
(* lidl::codegen::emitter: orders the sections of generated code so that   *)
(* what a section depends on comes before it.                              *)
(*                                                                         *)
(* emit() runs passes until one changes nothing.  A pass first scans the   *)
(* sections that are left and takes those whose dependencies are satisfied *)
(* already; then it writes what it took, one namespace after the other in  *)
(* the order of an unordered_map, and only then are their keys satisfied.  *)
(* A section is its keys, its dependencies and its namespace.              *)
(***************************************************************************)
EXTENDS Naturals, Sequences

CONSTANTS
    Inputs,      \* what the constructor may be given: [sections, marked, imported]
    Keys,        \* keys of sections: a symbol and what of it the section has
    Namespaces,  \* the namespaces of sections
    NoNamespace  \* nothing is being written

\* marked: the keys mark_module adds; imported: the keys of symbols whose module
\* was imported, satisfied because another file has them.
ASSUME EmitterAssumption ==
    /\ NoNamespace \notin Namespaces
    /\ \A in \in Inputs :
          /\ in.sections \in Seq([keys : SUBSET Keys, depends_on : SUBSET Keys,
                                  name_space : Namespaces])
          /\ in.marked \subseteq Keys /\ in.imported \subseteq Keys

VARIABLES
    input,            \* the constructor's arguments
    m_not_generated,  \* sections that are left, as indices in input.sections
    m_generated,      \* sections written, in order
    m_satisfied,      \* keys that are satisfied
    m_this_pass,      \* namespace |-> sections taken by this pass, in order
    i,                \* the position of the scan in m_not_generated
    changed,          \* this pass took something
    open,             \* the namespace that is being written
    phase             \* "scan", "write", "done", "failed"

vars == <<input, m_not_generated, m_generated, m_satisfied, m_this_pass, i,
          changed, open, phase>>

------------------------------------------------------------------------------
Sect(s) == input.sections[s]

\* Mutant of is_satisfied: some dependency is satisfied.
AnySatisfied(s) ==
    \E d \in Sect(s).depends_on : d \in m_satisfied \/ d \in input.imported

is_satisfied(s) ==
    \A d \in Sect(s).depends_on : d \in m_satisfied \/ d \in input.imported

Init == /\ input \in Inputs
        /\ m_not_generated = [s \in 1 .. Len(input.sections) |-> s]
        /\ m_generated = <<>>
        /\ m_satisfied = input.marked
        /\ m_this_pass = [ns \in Namespaces |-> <<>>]
        /\ i = 1
        /\ changed = FALSE
        /\ open = NoNamespace
        /\ phase = "scan"

\* The sequence without its element at position n.
Erase(seq, n) == [k \in 1 .. Len(seq) - 1 |-> IF k < n THEN seq[k] ELSE seq[k + 1]]

\* Mutant of Take: the keys of a section are satisfied as soon as it is taken.
TakeEagerly ==
    /\ phase = "scan" /\ i <= Len(m_not_generated)
    /\ LET s == m_not_generated[i] IN
       /\ is_satisfied(s)
       /\ m_this_pass' = [m_this_pass EXCEPT ![Sect(s).name_space] = Append(@, s)]
       /\ m_satisfied' = m_satisfied \union Sect(s).keys
    /\ m_not_generated' = Erase(m_not_generated, i)
    /\ changed' = TRUE
    /\ UNCHANGED <<input, m_generated, i, open, phase>>

\* The scan takes the section it looks at; those behind it move up.
Take ==
    /\ phase = "scan" /\ i <= Len(m_not_generated)
    /\ LET s == m_not_generated[i] IN
       /\ is_satisfied(s)
       /\ m_this_pass' = [m_this_pass EXCEPT ![Sect(s).name_space] = Append(@, s)]
    /\ m_not_generated' = Erase(m_not_generated, i)
    /\ changed' = TRUE
    /\ UNCHANGED <<input, m_generated, m_satisfied, i, open, phase>>

Skip ==
    /\ phase = "scan" /\ i <= Len(m_not_generated)
    /\ ~is_satisfied(m_not_generated[i])
    /\ i' = i + 1
    /\ UNCHANGED <<input, m_not_generated, m_generated, m_satisfied, m_this_pass,
                   changed, open, phase>>

EndScan ==
    /\ phase = "scan" /\ i > Len(m_not_generated)
    /\ phase' = "write"
    /\ UNCHANGED <<input, m_not_generated, m_generated, m_satisfied, m_this_pass,
                   i, changed, open>>

\* The next section of the open namespace, or the first of another one.
WriteSection(ns) ==
    /\ phase = "write"
    /\ open \in {ns, NoNamespace}
    /\ m_this_pass[ns] # <<>>
    /\ LET s == Head(m_this_pass[ns]) IN
       /\ m_satisfied' = m_satisfied \union Sect(s).keys
       /\ m_generated' = Append(m_generated, s)
    /\ m_this_pass' = [m_this_pass EXCEPT ![ns] = Tail(@)]
    /\ open' = IF Tail(m_this_pass[ns]) = <<>> THEN NoNamespace ELSE ns
    /\ UNCHANGED <<input, m_not_generated, i, changed, phase>>

\* Mutant of EndPass: emit() stops when nothing was taken or nothing is skipped.
EndPassEarly ==
    /\ phase = "write"
    /\ \A ns \in Namespaces : m_this_pass[ns] = <<>>
    /\ phase' = IF changed /\ i = 1 THEN "scan"
                ELSE IF m_not_generated = <<>> THEN "done" ELSE "failed"
    /\ i' = 1
    /\ changed' = FALSE
    /\ UNCHANGED <<input, m_not_generated, m_generated, m_satisfied, m_this_pass, open>>

\* Mutant of EndPass: the next pass starts as if it had taken something.
EndPassStale ==
    /\ phase = "write"
    /\ \A ns \in Namespaces : m_this_pass[ns] = <<>>
    /\ phase' = IF changed THEN "scan"
                ELSE IF m_not_generated = <<>> THEN "done" ELSE "failed"
    /\ i' = 1
    /\ UNCHANGED <<input, m_not_generated, m_generated, m_satisfied, m_this_pass,
                   changed, open>>

\* pass() returns changed; emit() goes on, or returns the text, or throws.
EndPass ==
    /\ phase = "write"
    /\ \A ns \in Namespaces : m_this_pass[ns] = <<>>
    /\ phase' = IF changed THEN "scan"
                ELSE IF m_not_generated = <<>> THEN "done" ELSE "failed"
    /\ i' = 1
    /\ changed' = FALSE
    /\ UNCHANGED <<input, m_not_generated, m_generated, m_satisfied, m_this_pass, open>>

Next == Take \/ Skip \/ EndScan \/ (\E ns \in Namespaces : WriteSection(ns)) \/ EndPass

Spec == Init /\ [][Next]_vars /\ WF_vars(Next)

------------------------------------------------------------------------------
Indices == DOMAIN input.sections

TypeOK == /\ Indices = 1 .. Len(input.sections)
          /\ m_not_generated \in Seq(Indices)
          /\ m_generated \in Seq(Indices)
          /\ m_satisfied \in SUBSET Keys
          /\ m_this_pass \in [Namespaces -> Seq(Indices)]
          /\ i \in 1 .. Len(m_not_generated) + 1
          /\ changed \in BOOLEAN
          /\ open \in Namespaces \union {NoNamespace}
          /\ phase \in {"scan", "write", "done", "failed"}

\* What was satisfied before anything is written.
Given == input.marked \union input.imported

\* In the emitted text a section comes after some section for each key it depends
\* on, although a pass regroups by namespace what it found in another order.
DependenciesFirst ==
    \A n \in 1 .. Len(m_generated) :
        \A d \in Sect(m_generated[n]).depends_on :
            d \in Given \/ \E k \in 1 .. n - 1 : d \in Sect(m_generated[k]).keys

\* The emitter is an OrderedOutput: in particular it throws only when no section
\* that is left could be written.
Output == INSTANCE OrderedOutput WITH
             input   <- [sections |-> input.sections, given |-> Given],
             written <- m_generated,
             outcome <- IF phase \in {"done", "failed"} THEN phase ELSE "running"
OutputSpec == Output!Spec

\* A pass writes the sections that are ready when it begins, all of them and no
\* others: keys that it provides itself count from the next pass on.
Taken == UNION {{m_this_pass[ns][n] : n \in DOMAIN m_this_pass[ns]} : ns \in Namespaces}
Passes == INSTANCE EmitterPasses WITH
             input   <- [sections |-> input.sections, given |-> Given],
             written <- {m_generated[n] : n \in DOMAIN m_generated} \union
                        (IF phase = "write" THEN Taken ELSE {}),
             outcome <- IF phase \in {"done", "failed"} THEN phase ELSE "running"
PassesSpec == Passes!Spec

\* emit() returns or throws, whatever depends on whatever.
Terminates == <>(phase \in {"done", "failed"})
=============================================================================
