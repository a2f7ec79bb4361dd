------------------------------- MODULE MCEmitter -------------------------------
EXTENDS Emitter, FiniteSets

CONSTANT MaxDeps

\* Three sections; the third carries a key of the first as well.  Key x is marked,
\* y belongs to an imported module, z is nowhere.
Deps == {D \in SUBSET {"a", "b", "c", "y", "z"} : Cardinality(D) <= MaxDeps}
SectionKeys == <<{"a"}, {"b"}, {"c", "a"}>>
Section(n, D, ns) == [keys |-> SectionKeys[n], depends_on |-> D \union {"x"}, name_space |-> ns]

Graphs == {[sections |-> <<Section(1, D1, "lidl"), Section(2, D2, n2), Section(3, D3, n3)>>,
            marked |-> {"x"}, imported |-> {"y"}] :
                D1, D2, D3 \in Deps, n2, n3 \in {"lidl", "std"}}
=============================================================================
