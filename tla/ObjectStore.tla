----------------------------- MODULE ObjectStore -----------------------------
(***************************************************************************)
(* What a message under construction promises to the code that builds it:  *)
(* a growing set of objects, and references held by some of them, where a  *)
(* reference reads as the object that was last stored in it.  There are no *)
(* addresses, paddings or 16-bit offsets here: MessageBuilder, which has   *)
(* them, is shown to implement this module.                                *)
(***************************************************************************)
EXTENDS Integers

VARIABLES
    objects,    \* the objects created so far
    refs        \* reference |-> the object it reads as

vars == <<objects, refs>>

Init == /\ objects = {}
        /\ refs = [r \in {} |-> 0]

\* Objects and references appear, and a new reference reads as an object that
\* exists.  What was there before is not disturbed.
Add == /\ objects \subseteq objects'
       /\ DOMAIN refs \subseteq DOMAIN refs'
       /\ \A r \in DOMAIN refs : refs'[r] = refs[r]
       /\ \A r \in DOMAIN refs' \ DOMAIN refs : refs'[r] \in objects'

\* An existing reference is redirected; no other reference notices.
Link(r, o) == /\ r \in DOMAIN refs
              /\ o \in objects
              /\ refs' = [refs EXCEPT ![r] = o]
              /\ UNCHANGED objects

Next == Add \/ \E r \in DOMAIN refs, o \in objects : Link(r, o)

Spec == Init /\ [][Next]_vars
=============================================================================
