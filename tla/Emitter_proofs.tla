---------------------------- MODULE Emitter_proofs ----------------------------
(***************************************************************************)
(* Proofs about the emitter, for every set of sections, namespaces and     *)
(* satisfied keys: types are kept, a section is never written before the   *)
(* keys it depends on, the emitter implements OrderedOutput (every section *)
(* is written once, when what it depends on is there, and emit() returns   *)
(* or throws only when no section that is left could be written), and it   *)
(* implements EmitterPasses (a pass writes what was ready when it began).  *)
(*                                                                         *)
(* Then about CppBackend, which collects what the emitter writes, for      *)
(* every set of interfaces: the instances of generics are all looked up    *)
(* before the generators go through them, but for those that the category  *)
(* of a declaration does not come by; and when the emitter is done, what   *)
(* the text of a section needs comes before it, also where the section     *)
(* does not depend on it.                                                  *)
(***************************************************************************)
EXTENDS Emitter, CppBackend, SequenceTheorems, FiniteSetTheorems, WellFoundedInduction, TLAPS

\* What is satisfied was there before or belongs to a section that is written.
SatisfiedIsWritten ==
    \A d \in m_satisfied :
        d \in Given \/ \E k \in 1 .. Len(m_generated) : d \in Sect(m_generated[k]).keys

\* What a pass has taken waits for nothing.
TakenIsReady ==
    \A ns \in Namespaces : \A n \in 1 .. Len(m_this_pass[ns]) :
        is_satisfied(m_this_pass[ns][n])

\* DependenciesFirst speaks of what is written only; a section becomes written from
\* what the pass took, so the invariant adds what is known of those sections.
IInv == /\ input \in Inputs
        /\ TypeOK
        /\ SatisfiedIsWritten
        /\ TakenIsReady
        /\ DependenciesFirst

\* Erasing a member of a sequence leaves a sequence that is one shorter.
LEMMA EraseType ==
    ASSUME NEW S, NEW seq \in Seq(S), NEW n \in 1 .. Len(seq)
    PROVE  Erase(seq, n) \in Seq(S) /\ Len(Erase(seq, n)) = Len(seq) - 1
<1> DEFINE m == Len(seq) - 1
           t == [k \in 1 .. m |-> IF k < n THEN seq[k] ELSE seq[k + 1]]
<1>1. m \in Nat /\ \A k \in 1 .. m : k \in 1 .. Len(seq) /\ k + 1 \in 1 .. Len(seq)
    BY LenProperties
<1>2. \A k \in 1 .. m : (IF k < n THEN seq[k] ELSE seq[k + 1]) \in S
    BY <1>1, ElementOfSeq
<1>3. t \in [1 .. m -> S]
    BY <1>2
<1>4. t \in Seq(S) /\ Len(t) = m
    BY <1>1, <1>3, SeqDef
<1> QED
    BY <1>4 DEF Erase

\* The initial states satisfy the invariant.
LEMMA IInvInit == Init => IInv
<1> SUFFICES ASSUME Init PROVE IInv
    OBVIOUS
<1> USE DEF Init
<1>1. /\ input.sections \in Seq([keys : SUBSET Keys, depends_on : SUBSET Keys,
                                  name_space : Namespaces])
      /\ input.marked \subseteq Keys
    BY EmitterAssumption
<1>2. Len(input.sections) \in Nat /\ Indices = 1 .. Len(input.sections)
    BY <1>1, LenProperties DEF Indices
<1>3. m_not_generated \in Seq(Indices) /\ Len(m_not_generated) \in Nat
    <2>1. m_not_generated \in [1 .. Len(input.sections) -> Indices]
        BY <1>2
    <2> QED
        BY <1>2, <2>1, SeqDef, LenProperties
<1>4. m_this_pass \in [Namespaces -> Seq(Indices)]
    BY EmptySeq
<1>5. m_generated \in Seq(Indices) /\ Len(m_generated) = 0
    BY EmptySeq
<1>6. TypeOK
    <2>1. i \in 1 .. Len(m_not_generated) + 1
        BY <1>3
    <2>2. m_satisfied \in SUBSET Keys
        BY <1>1
    <2>3. changed \in BOOLEAN /\ phase \in {"scan", "write", "done", "failed"}
        BY Zenon
    <2>4. open \in Namespaces \union {NoNamespace}
        OBVIOUS
    <2> QED
        BY <1>2, <1>3, <1>4, <1>5, <2>1, <2>2, <2>3, <2>4, Zenon DEF TypeOK
<1>7. SatisfiedIsWritten
    BY DEF SatisfiedIsWritten, Given
<1>8. TakenIsReady /\ DependenciesFirst
    BY <1>5 DEF TakenIsReady, DependenciesFirst
<1> QED
    BY <1>6, <1>7, <1>8 DEF IInv

\* Taking a section keeps the invariant: it is ready when it is taken.
LEMMA TakeKeeps ==
    ASSUME IInv, Take
    PROVE  IInv'
<1> USE DEF Take
<1> DEFINE s  == m_not_generated[i]
           ns == Sect(s).name_space
<1>1. TypeOK /\ input' = input /\ input \in Inputs
    BY DEF IInv
<1>2. s \in Indices /\ i \in 1 .. Len(m_not_generated) /\ Len(m_not_generated) \in Nat
    BY <1>1, LenProperties, ElementOfSeq DEF TypeOK
<1>3. Sect(s) \in [keys : SUBSET Keys, depends_on : SUBSET Keys, name_space : Namespaces]
    BY <1>1, <1>2, EmitterAssumption, ElementOfSeq DEF Sect, TypeOK
<1>4. /\ m_not_generated' \in Seq(Indices)
      /\ Len(m_not_generated') = Len(m_not_generated) - 1
    BY <1>1, <1>2, EraseType DEF TypeOK
<1>5. /\ ns \in Namespaces
      /\ m_this_pass' = [m_this_pass EXCEPT ![ns] = Append(m_this_pass[ns], s)]
      /\ m_this_pass[ns] \in Seq(Indices)
    BY <1>1, <1>3 DEF TypeOK
<1>6. /\ Append(m_this_pass[ns], s) \in Seq(Indices)
      /\ Len(Append(m_this_pass[ns], s)) = Len(m_this_pass[ns]) + 1
      /\ \A k \in 1 .. Len(m_this_pass[ns]) :
            Append(m_this_pass[ns], s)[k] = m_this_pass[ns][k]
      /\ Append(m_this_pass[ns], s)[Len(m_this_pass[ns]) + 1] = s
    BY <1>2, <1>5, AppendProperties
<1> HIDE DEF s, ns
<1>7. Indices' = Indices
    BY <1>1 DEF Indices
<1>8. TypeOK'
    <2>1. m_this_pass' \in [Namespaces -> Seq(Indices)]
        BY <1>1, <1>5, <1>6 DEF TypeOK
    <2>2. i' \in 1 .. Len(m_not_generated') + 1
        BY <1>2, <1>4
    <2>3. changed' \in BOOLEAN
        BY Zenon
    <2>4. /\ Indices = 1 .. Len(input.sections) /\ m_generated \in Seq(Indices)
          /\ m_satisfied \in SUBSET Keys
          /\ open \in Namespaces \union {NoNamespace}
          /\ phase \in {"scan", "write", "done", "failed"}
        BY <1>1, Zenon DEF TypeOK
    <2> QED
        BY <1>1, <1>4, <1>7, <2>1, <2>2, <2>3, <2>4, Zenon DEF TypeOK
<1>9. is_satisfied(s)
    BY DEF s
<1>10. TakenIsReady'
    <2> SUFFICES ASSUME NEW x \in Namespaces, NEW n \in 1 .. Len(m_this_pass'[x])
                 PROVE  \A d \in input'.sections[m_this_pass'[x][n]].depends_on :
                            d \in m_satisfied' \/ d \in input'.imported
        BY DEF TakenIsReady, is_satisfied, Sect
    <2>1. is_satisfied(m_this_pass'[x][n])
        <3>1. CASE x = ns
            <4>1. m_this_pass'[x] = Append(m_this_pass[ns], s)
                BY <1>1, <1>5, <3>1 DEF TypeOK
            <4>2. CASE n \in 1 .. Len(m_this_pass[ns])
                BY <1>5, <1>6, <4>1, <4>2 DEF TakenIsReady, IInv
            <4>3. CASE n = Len(m_this_pass[ns]) + 1
                BY <1>6, <1>9, <4>1, <4>3
            <4>4. Len(m_this_pass[ns]) \in Nat
                BY <1>5, LenProperties
            <4> QED
                BY <1>6, <4>1, <4>2, <4>3, <4>4
        <3>2. CASE x # ns
            <4>1. m_this_pass'[x] = m_this_pass[x]
                BY <1>1, <1>5, <3>2 DEF TypeOK
            <4> QED
                BY <4>1 DEF TakenIsReady, IInv
        <3> QED
            BY <3>1, <3>2
    <2>2. m_satisfied' = m_satisfied
        OBVIOUS
    <2> QED
        BY <1>1, <2>1, <2>2 DEF is_satisfied, Sect
<1>11. SatisfiedIsWritten' /\ DependenciesFirst'
    BY DEF IInv, SatisfiedIsWritten, DependenciesFirst, Given, Sect
<1> QED
    BY <1>1, <1>8, <1>10, <1>11 DEF IInv

\* Writing a section keeps the invariant: it was ready, its keys come with it, and
\* what is satisfied only grows.
LEMMA WriteKeeps ==
    ASSUME IInv, NEW ns \in Namespaces, WriteSection(ns)
    PROVE  IInv'
<1> USE DEF WriteSection
<1> DEFINE q == m_this_pass[ns]
           s == Head(q)
<1>1. TypeOK /\ input' = input /\ input \in Inputs
    BY DEF IInv
<1>2. q \in Seq(Indices) /\ q # <<>>
    BY <1>1 DEF TypeOK
<1>3. /\ s \in Indices /\ s = q[1] /\ 1 \in 1 .. Len(q)
      /\ Tail(q) \in Seq(Indices) /\ Len(q) \in Nat /\ Len(Tail(q)) = Len(q) - 1
      /\ \A k \in 1 .. Len(Tail(q)) : Tail(q)[k] = q[k + 1]
    BY <1>2, HeadTailProperties, LenProperties, EmptySeq
<1>4. Sect(s) \in [keys : SUBSET Keys, depends_on : SUBSET Keys, name_space : Namespaces]
    BY <1>1, <1>3, EmitterAssumption, ElementOfSeq DEF Sect, TypeOK
<1>5. /\ m_this_pass' = [m_this_pass EXCEPT ![ns] = Tail(q)]
      /\ m_satisfied' = m_satisfied \union Sect(s).keys
      /\ m_generated' = Append(m_generated, s)
    OBVIOUS
<1>6. /\ m_generated' \in Seq(Indices)
      /\ Len(m_generated) \in Nat /\ Len(m_generated') = Len(m_generated) + 1
      /\ \A k \in 1 .. Len(m_generated) : m_generated'[k] = m_generated[k]
      /\ m_generated'[Len(m_generated) + 1] = s
    BY <1>1, <1>3, <1>5, AppendProperties, LenProperties DEF TypeOK
<1> HIDE DEF q, s
<1>7. Indices' = Indices
    BY <1>1 DEF Indices
<1>8. TypeOK'
    <2>1. m_this_pass' \in [Namespaces -> Seq(Indices)]
        BY <1>1, <1>3, <1>5 DEF TypeOK
    <2>2. m_satisfied' \in SUBSET Keys
        BY <1>1, <1>4, <1>5 DEF TypeOK
    <2>3. open' \in Namespaces \union {NoNamespace}
        OBVIOUS
    <2>4. /\ Indices = 1 .. Len(input.sections) /\ m_not_generated \in Seq(Indices)
          /\ i \in 1 .. Len(m_not_generated) + 1 /\ changed \in BOOLEAN
          /\ phase \in {"scan", "write", "done", "failed"}
        BY <1>1, Zenon DEF TypeOK
    <2> QED
        BY <1>1, <1>6, <1>7, <2>1, <2>2, <2>3, <2>4, Zenon DEF TypeOK
<1>9. \A d \in Sect(s).depends_on : d \in m_satisfied \/ d \in input.imported
    <2>1. s = m_this_pass[ns][1] /\ 1 \in 1 .. Len(m_this_pass[ns])
        BY <1>3 DEF q
    <2> QED
        BY <2>1 DEF IInv, TakenIsReady, is_satisfied
<1>10. TakenIsReady'
    <2> SUFFICES ASSUME NEW x \in Namespaces, NEW n \in 1 .. Len(m_this_pass'[x])
                 PROVE  \A d \in input'.sections[m_this_pass'[x][n]].depends_on :
                            d \in m_satisfied' \/ d \in input'.imported
        BY DEF TakenIsReady, is_satisfied, Sect
    <2>1. \E k \in 1 .. Len(m_this_pass[x]) : m_this_pass'[x][n] = m_this_pass[x][k]
        <3>1. CASE x = ns
            <4>1. m_this_pass'[x] = Tail(q) /\ q = m_this_pass[x]
                BY <1>1, <1>5, <3>1 DEF TypeOK, q
            <4>2. n \in 1 .. Len(Tail(q))
                BY <4>1
            <4>3. Tail(q)[n] = q[n + 1]
                BY <1>3, <4>2, Zenon
            <4>4. n + 1 \in 1 .. Len(q)
                BY <1>3, <4>2
            <4> QED
                BY <4>1, <4>3, <4>4, Zenon
        <3>2. CASE x # ns
            BY <1>1, <1>5, <3>2 DEF TypeOK
        <3> QED
            BY <3>1, <3>2
    <2>2. PICK k \in 1 .. Len(m_this_pass[x]) : m_this_pass'[x][n] = m_this_pass[x][k]
        BY <2>1
    <2>3. is_satisfied(m_this_pass[x][k])
        BY DEF IInv, TakenIsReady
    <2> QED
        BY <1>1, <1>5, <2>2, <2>3 DEF is_satisfied, Sect
<1>11. SatisfiedIsWritten'
    <2> SUFFICES ASSUME NEW d \in m_satisfied'
                 PROVE  \/ d \in input'.marked \union input'.imported
                        \/ \E k \in 1 .. Len(m_generated') :
                               d \in input'.sections[m_generated'[k]].keys
        BY DEF SatisfiedIsWritten, Given, Sect
    <2>1. CASE d \in Sect(s).keys
        BY <1>1, <1>6, <2>1 DEF Sect
    <2>2. CASE d \in m_satisfied
        BY <1>1, <1>6, <2>2 DEF IInv, SatisfiedIsWritten, Given, Sect
    <2> QED
        BY <1>5, <2>1, <2>2
<1>12. DependenciesFirst'
    <2> SUFFICES ASSUME NEW n \in 1 .. Len(m_generated'),
                        NEW d \in input'.sections[m_generated'[n]].depends_on
                 PROVE  \/ d \in input'.marked \union input'.imported
                        \/ \E k \in 1 .. n - 1 : d \in input'.sections[m_generated'[k]].keys
        BY DEF DependenciesFirst, Given, Sect
    <2>1. CASE n = Len(m_generated) + 1
        <3>1. d \in m_satisfied \/ d \in input.imported
            BY <1>1, <1>6, <1>9, <2>1 DEF Sect
        <3>2. d \in Given \/ \E k \in 1 .. Len(m_generated) : d \in Sect(m_generated[k]).keys
            BY <3>1 DEF IInv, SatisfiedIsWritten, Given
        <3> QED
            BY <1>1, <1>6, <2>1, <3>2 DEF Given, Sect
    <2>2. CASE n \in 1 .. Len(m_generated)
        <3>1. m_generated'[n] = m_generated[n]
            BY <1>6, <2>2
        <3>2. d \in Given \/ \E k \in 1 .. n - 1 : d \in Sect(m_generated[k]).keys
            BY <1>1, <2>2, <3>1 DEF IInv, DependenciesFirst, Sect
        <3>3. \A k \in 1 .. n - 1 : m_generated'[k] = m_generated[k]
            BY <1>6, <2>2
        <3> QED
            BY <1>1, <3>2, <3>3 DEF Given, Sect
    <2> QED
        BY <1>6, <2>1, <2>2
<1> QED
    BY <1>1, <1>8, <1>10, <1>11, <1>12 DEF IInv

\* The steps that only move the scan or end a pass keep it.
LEMMA OtherKeeps ==
    ASSUME IInv, Skip \/ EndScan \/ EndPass \/ UNCHANGED vars
    PROVE  IInv'
<1>1. /\ UNCHANGED <<input, m_not_generated, m_generated, m_satisfied, m_this_pass>>
      /\ open' = open
    BY DEF Skip, EndScan, EndPass, vars
<1>2. Len(m_not_generated) \in Nat /\ i \in 1 .. Len(m_not_generated) + 1
    BY LenProperties DEF IInv, TypeOK
<1>3. i' \in 1 .. Len(m_not_generated) + 1
    BY <1>2 DEF Skip, EndScan, EndPass, vars
<1>4. changed' \in BOOLEAN /\ phase' \in {"scan", "write", "done", "failed"}
    <2>1. changed \in BOOLEAN /\ phase \in {"scan", "write", "done", "failed"}
        BY DEF IInv, TypeOK
    <2> QED
        BY <2>1, Zenon DEF Skip, EndScan, EndPass, vars
<1>5. TypeOK'
    BY <1>1, <1>3, <1>4, Zenon DEF IInv, TypeOK, Indices
<1>6. TakenIsReady' /\ SatisfiedIsWritten' /\ DependenciesFirst'
    BY <1>1 DEF IInv, TakenIsReady, is_satisfied, SatisfiedIsWritten, DependenciesFirst,
                Given, Sect
<1> QED
    BY <1>1, <1>5, <1>6 DEF IInv

\* The invariant holds in every state.
LEMMA Invariance == Spec => []IInv
<1>1. IInv /\ [Next]_vars => IInv'
    BY TakeKeeps, WriteKeeps, OtherKeeps DEF Next
<1> QED
    BY IInvInit, <1>1, PTL DEF Spec

\* The emitter's lists stay lists of sections and its scan stays inside them.
THEOREM EmitterTypes == Spec => []TypeOK
<1>1. IInv => TypeOK
    BY DEF IInv
<1> QED
    BY <1>1, Invariance, PTL

\* Whatever the sections and in whatever order the namespaces of a pass are written,
\* each section comes after what it depends on (emitter.cpp, pass).
THEOREM EmittedInOrder == Spec => []DependenciesFirst
<1>1. IInv => DependenciesFirst
    BY DEF IInv
<1> QED
    BY <1>1, Invariance, PTL

------------------------------------------------------------------------------
Elements(seq) == {seq[k] : k \in 1 .. Len(seq)}
Once(seq)     == \A j, k \in 1 .. Len(seq) : j # k => seq[j] # seq[k]

\* A section is in one list, and in it once; each list of a pass has the sections
\* of its namespace.
Apart ==
    /\ Once(m_not_generated)
    /\ \A s \in Elements(m_not_generated) : s \notin Elements(m_generated)
    /\ \A ns \in Namespaces :
          /\ Once(m_this_pass[ns])
          /\ \A s \in Elements(m_this_pass[ns]) :
                /\ s \notin Elements(m_not_generated)
                /\ s \notin Elements(m_generated)
                /\ Sect(s).name_space = ns

\* No section is lost.
Somewhere ==
    \A s \in Indices :
        \/ s \in Elements(m_not_generated)
        \/ s \in Elements(m_generated)
        \/ \E ns \in Namespaces : s \in Elements(m_this_pass[ns])

\* What is written is satisfied: together with SatisfiedIsWritten, the keys that are
\* satisfied are those that the output provides.
WrittenIsSatisfied ==
    /\ input.marked \subseteq m_satisfied
    /\ \A s \in Elements(m_generated) : Sect(s).keys \subseteq m_satisfied

\* What the scan went past was not ready, and it still is not when the pass took
\* nothing.
PassedOver ==
    /\ phase = "write" => i = Len(m_not_generated) + 1
    /\ ~changed => \A ns \in Namespaces : m_this_pass[ns] = <<>>
    /\ phase = "scan" \/ ~changed =>
          \A k \in 1 .. i - 1 : ~is_satisfied(m_not_generated[k])

OInv == IInv /\ Apart /\ Somewhere /\ WrittenIsSatisfied /\ PassedOver

------------------------------------------------------------------------------
LEMMA EraseElements ==
    ASSUME NEW S, NEW seq \in Seq(S), NEW n \in 1 .. Len(seq), Once(seq)
    PROVE  /\ Once(Erase(seq, n))
           /\ Elements(Erase(seq, n)) = Elements(seq) \ {seq[n]}
           /\ \A k \in 1 .. n - 1 : Erase(seq, n)[k] = seq[k]
<1> DEFINE t == Erase(seq, n)
           from(k) == IF k < n THEN k ELSE k + 1
<1>1. Len(seq) \in Nat /\ Len(t) = Len(seq) - 1
    BY EraseType, LenProperties
<1>2. \A k \in 1 .. Len(t) : t[k] = seq[from(k)] /\ from(k) \in 1 .. Len(seq) /\ from(k) # n
    BY <1>1 DEF Erase
<1>3. \A j, k \in 1 .. Len(t) : j # k => from(j) # from(k)
    BY <1>1
<1>4. \A m \in 1 .. Len(seq) : m # n => \E k \in 1 .. Len(t) : from(k) = m
    <2> TAKE m \in 1 .. Len(seq)
    <2> HAVE m # n
    <2>1. CASE m < n
        BY <1>1, <2>1
    <2>2. CASE m > n
        <3>1. m - 1 \in 1 .. Len(t) /\ from(m - 1) = m
            BY <1>1, <2>2
        <3> QED
            BY <3>1
    <2> QED
        BY <2>1, <2>2
<1>5. \A k \in 1 .. n - 1 : k \in 1 .. Len(t) /\ from(k) = k
    BY <1>1
<1> HIDE DEF t, from
<1>6. Once(t)
    BY <1>2, <1>3 DEF Once
<1>7. \A x \in Elements(t) : x \in Elements(seq) /\ x # seq[n]
    BY <1>2 DEF Elements, Once
<1>8. \A x \in Elements(seq) : x # seq[n] => x \in Elements(t)
    <2> TAKE x \in Elements(seq)
    <2> HAVE x # seq[n]
    <2>1. PICK m \in 1 .. Len(seq) : x = seq[m]
        BY DEF Elements
    <2>2. PICK k \in 1 .. Len(t) : from(k) = m
        BY <1>4, <2>1
    <2> QED
        BY <1>2, <2>1, <2>2 DEF Elements
<1>9. \A k \in 1 .. n - 1 : t[k] = seq[k]
    BY <1>2, <1>5
<1> QED
    BY <1>6, <1>7, <1>8, <1>9 DEF t

LEMMA AppendElements ==
    ASSUME NEW S, NEW seq \in Seq(S), NEW x \in S
    PROVE  /\ Elements(Append(seq, x)) = Elements(seq) \union {x}
           /\ Once(seq) /\ x \notin Elements(seq) => Once(Append(seq, x))
<1> DEFINE t == Append(seq, x)
<1>1. /\ Len(seq) \in Nat /\ Len(t) = Len(seq) + 1
      /\ \A k \in 1 .. Len(seq) : t[k] = seq[k]
      /\ t[Len(seq) + 1] = x
    BY AppendProperties, LenProperties
<1> HIDE DEF t
<1>2. \A k \in 1 .. Len(t) : k \in 1 .. Len(seq) \/ k = Len(seq) + 1
    BY <1>1
<1>3. \A k \in 1 .. Len(seq) : k \in 1 .. Len(t)
    BY <1>1
<1>4. Len(seq) + 1 \in 1 .. Len(t)
    BY <1>1
<1>5. Elements(t) = Elements(seq) \union {x}
    BY <1>1, <1>2, <1>3, <1>4 DEF Elements
<1>6. ASSUME Once(seq), x \notin Elements(seq)
      PROVE  Once(t)
    BY <1>1, <1>2, <1>6 DEF Once, Elements
<1> QED
    BY <1>5, <1>6 DEF t

LEMMA TailElements ==
    ASSUME NEW S, NEW seq \in Seq(S), seq # <<>>, Once(seq)
    PROVE  /\ Head(seq) \in Elements(seq)
           /\ Elements(Tail(seq)) = Elements(seq) \ {Head(seq)}
           /\ Once(Tail(seq))
<1> DEFINE t == Tail(seq)
<1>1. /\ Len(seq) \in Nat /\ 1 \in 1 .. Len(seq) /\ Len(t) = Len(seq) - 1
      /\ Head(seq) = seq[1]
      /\ \A k \in 1 .. Len(t) : t[k] = seq[k + 1]
    BY HeadTailProperties, LenProperties, EmptySeq
<1> HIDE DEF t
<1>2. \A k \in 1 .. Len(t) : k + 1 \in 1 .. Len(seq) /\ k + 1 # 1
    BY <1>1
<1>3. \A m \in 1 .. Len(seq) : m # 1 => m - 1 \in 1 .. Len(t) /\ t[m - 1] = seq[m]
    BY <1>1
<1>4. \A x \in Elements(t) : x \in Elements(seq) /\ x # seq[1]
    BY <1>1, <1>2 DEF Elements, Once
<1>5. \A x \in Elements(seq) : x # seq[1] => x \in Elements(t)
    BY <1>3 DEF Elements
<1>6. Once(t)
    <2> SUFFICES ASSUME NEW j \in 1 .. Len(t), NEW k \in 1 .. Len(t), j # k
                 PROVE  t[j] # t[k]
        BY DEF Once
    <2>1. j + 1 # k + 1 /\ j + 1 \in 1 .. Len(seq) /\ k + 1 \in 1 .. Len(seq)
        BY <1>2
    <2> QED
        BY <1>1, <2>1 DEF Once
<1>7. Head(seq) \in Elements(seq)
    BY <1>1 DEF Elements
<1> QED
    BY <1>1, <1>4, <1>5, <1>6, <1>7 DEF t

\* What the emitter has written and satisfied is what the output has and provides.
LEMMA OutputMeaning ==
    /\ Output!Indices = Indices
    /\ TypeOK => Output!WrittenSet = Elements(m_generated)
    /\ \A s \in Indices : s \in Output!Possible <=>
          s \notin Output!WrittenSet /\ Sect(s).depends_on \subseteq Output!Provided
    /\ \A d : d \in Output!Provided <=>
          d \in Given \/ \E s \in Output!WrittenSet : d \in Sect(s).keys
<1>1. TypeOK => DOMAIN m_generated = 1 .. Len(m_generated)
    BY LenProperties DEF TypeOK
<1> QED
    BY <1>1 DEF Output!Indices, Output!WrittenSet, Output!Possible, Output!Provided,
                Indices, Elements, Sect

------------------------------------------------------------------------------
\* The initial states satisfy the invariant.
LEMMA OInvInit == Init => OInv
<1> SUFFICES ASSUME Init PROVE OInv
    OBVIOUS
<1>1. IInv
    BY IInvInit
<1>2. Len(input.sections) \in Nat /\ Indices = 1 .. Len(input.sections)
    BY <1>1, EmitterAssumption, LenProperties DEF IInv, TypeOK
<1>3. /\ Len(m_not_generated) = Len(input.sections)
      /\ \A k \in Indices : m_not_generated[k] = k
    BY <1>2 DEF Init
<1>4. /\ Elements(m_not_generated) = Indices /\ Once(m_not_generated)
    BY <1>2, <1>3 DEF Elements, Once
<1>5. /\ Elements(m_generated) = {}
      /\ \A ns \in Namespaces : Elements(m_this_pass[ns]) = {} /\ Once(m_this_pass[ns])
    BY DEF Init, Elements, Once
<1>6. Apart /\ Somewhere
    BY <1>4, <1>5 DEF Apart, Somewhere
<1>7. WrittenIsSatisfied /\ PassedOver
    BY <1>5 DEF WrittenIsSatisfied, PassedOver, Init
<1> QED
    BY <1>1, <1>6, <1>7 DEF OInv

\* The section that is taken leaves the sections that are left for its namespace's list.
LEMMA TakeKeepsO ==
    ASSUME OInv, Take
    PROVE  OInv'
<1> DEFINE s  == m_not_generated[i]
           ns == Sect(s).name_space
<1>1. IInv /\ TypeOK /\ IInv' /\ input' = input
    BY TakeKeeps DEF OInv, IInv, Take
<1>2. s \in Indices /\ i \in 1 .. Len(m_not_generated) /\ Len(m_not_generated) \in Nat
    BY <1>1, LenProperties, ElementOfSeq DEF TypeOK, Take
<1>3. Sect(s) \in [keys : SUBSET Keys, depends_on : SUBSET Keys, name_space : Namespaces]
    BY <1>1, <1>2, EmitterAssumption, ElementOfSeq DEF Sect, TypeOK, IInv
<1>4. /\ ns \in Namespaces /\ s \in Elements(m_not_generated)
      /\ m_this_pass' = [m_this_pass EXCEPT ![ns] = Append(m_this_pass[ns], s)]
      /\ m_this_pass \in [Namespaces -> Seq(Indices)]
      /\ m_not_generated' = Erase(m_not_generated, i)
      /\ m_not_generated \in Seq(Indices)
      /\ changed' = TRUE /\ phase = "scan"
      /\ UNCHANGED <<input, m_generated, m_satisfied, i, phase>>
    BY <1>1, <1>2, <1>3 DEF Take, TypeOK, Elements
<1>5. /\ Once(m_not_generated')
      /\ Elements(m_not_generated') = Elements(m_not_generated) \ {s}
      /\ \A k \in 1 .. i - 1 : m_not_generated'[k] = m_not_generated[k]
    BY <1>2, <1>4, EraseElements DEF OInv, Apart
<1>6. /\ m_this_pass'[ns] = Append(m_this_pass[ns], s)
      /\ \A x \in Namespaces : x # ns => m_this_pass'[x] = m_this_pass[x]
    BY <1>4
<1>7. s \notin Elements(m_generated) /\ s \notin Elements(m_this_pass[ns])
    BY <1>4 DEF OInv, Apart
<1>8. /\ Elements(m_this_pass'[ns]) = Elements(m_this_pass[ns]) \union {s}
      /\ Once(m_this_pass'[ns])
    <2>1. Once(m_this_pass[ns]) /\ m_this_pass[ns] \in Seq(Indices)
        BY <1>4 DEF OInv, Apart
    <2> QED
        BY <1>2, <1>6, <1>7, <2>1, AppendElements
<1>9. Sect(s).name_space = ns /\ \A x : Sect(x)' = Sect(x)
    BY <1>1 DEF Sect
<1>10. Indices' = Indices
    BY <1>1 DEF Indices
<1> HIDE DEF s, ns
<1>11. Apart'
    <2>1. \A x \in Elements(m_not_generated') : x \notin Elements(m_generated')
        BY <1>4, <1>5 DEF OInv, Apart
    <2>2. ASSUME NEW x \in Namespaces
          PROVE  /\ Once(m_this_pass'[x])
                 /\ \A y \in Elements(m_this_pass'[x]) :
                       /\ y \notin Elements(m_not_generated')
                       /\ y \notin Elements(m_generated')
                       /\ Sect(y)' = Sect(y) /\ Sect(y).name_space = x
        <3>1. CASE x = ns
            BY <1>4, <1>5, <1>7, <1>8, <1>9, <3>1 DEF OInv, Apart
        <3>2. CASE x # ns
            BY <1>4, <1>5, <1>6, <1>9, <3>2 DEF OInv, Apart
        <3> QED
            BY <3>1, <3>2
    <2> QED
        BY <1>5, <2>1, <2>2 DEF Apart, Elements, Once, Sect
<1>12. Somewhere'
    <2> SUFFICES ASSUME NEW x \in Indices
                 PROVE  \/ x \in Elements(m_not_generated')
                        \/ x \in Elements(m_generated')
                        \/ \E y \in Namespaces : x \in Elements(m_this_pass'[y])
        BY <1>10 DEF Somewhere, Elements
    <2>1. CASE x = s
        BY <1>4, <1>8, <2>1
    <2>2. CASE x # s
        <3>1. \A y \in Namespaces :
                 x \in Elements(m_this_pass[y]) => x \in Elements(m_this_pass'[y])
            BY <1>6, <1>8
        <3> QED
            BY <1>4, <1>5, <2>2, <3>1 DEF OInv, Somewhere
    <2> QED
        BY <2>1, <2>2
<1>13. WrittenIsSatisfied'
    <2>1. /\ input.marked \subseteq m_satisfied
          /\ \A x \in Elements(m_generated) : Sect(x).keys \subseteq m_satisfied
        BY DEF OInv, WrittenIsSatisfied
    <2>2. UNCHANGED <<input, m_generated, m_satisfied>>
        BY <1>4
    <2> QED
        BY <2>1, <2>2 DEF WrittenIsSatisfied, Elements, Sect
<1>14. PassedOver'
    BY <1>4, <1>5 DEF OInv, PassedOver, is_satisfied, Sect
<1> QED
    BY <1>1, <1>11, <1>12, <1>13, <1>14 DEF OInv

\* The section that is written leaves its namespace's list for the output, and what
\* was not ready stays so unless the pass took something.
LEMMA WriteKeepsO ==
    ASSUME OInv, NEW ns \in Namespaces, WriteSection(ns)
    PROVE  OInv'
<1> DEFINE q == m_this_pass[ns]
           s == Head(q)
<1>1. IInv /\ TypeOK /\ IInv' /\ input' = input
    BY WriteKeeps DEF OInv, IInv, WriteSection
<1>2. /\ q \in Seq(Indices) /\ q # <<>> /\ s \in Indices
      /\ m_generated \in Seq(Indices)
      /\ m_this_pass \in [Namespaces -> Seq(Indices)]
    BY <1>1, HeadTailProperties DEF TypeOK, WriteSection
<1>3. /\ m_this_pass' = [m_this_pass EXCEPT ![ns] = Tail(q)]
      /\ m_satisfied' = m_satisfied \union Sect(s).keys
      /\ m_generated' = Append(m_generated, s)
      /\ phase = "write"
      /\ UNCHANGED <<input, m_not_generated, i, changed, phase>>
    BY DEF WriteSection
<1>4. /\ s \in Elements(q)
      /\ Elements(Tail(q)) = Elements(q) \ {s}
      /\ Once(Tail(q))
    BY <1>2, TailElements DEF OInv, Apart
<1>5. Elements(m_generated') = Elements(m_generated) \union {s}
    BY <1>2, <1>3, AppendElements
<1>6. /\ m_this_pass'[ns] = Tail(q)
      /\ \A x \in Namespaces : x # ns => m_this_pass'[x] = m_this_pass[x]
    BY <1>2, <1>3
<1>7. /\ s \notin Elements(m_not_generated)
      /\ \A x \in Namespaces : s \in Elements(m_this_pass[x]) => x = ns
    BY <1>4 DEF OInv, Apart
<1>8. \A x : Sect(x)' = Sect(x)
    BY <1>1 DEF Sect
<1>9. Indices' = Indices
    BY <1>1 DEF Indices
<1>10. changed
    BY <1>1, <1>2, <1>3 DEF OInv, PassedOver, TypeOK
<1>11. Apart'
    <2>1. \A x \in Elements(m_not_generated') : x \notin Elements(m_generated')
        BY <1>3, <1>5, <1>7 DEF OInv, Apart
    <2>2. ASSUME NEW x \in Namespaces
          PROVE  /\ Once(m_this_pass'[x])
                 /\ \A y \in Elements(m_this_pass'[x]) :
                       /\ y \notin Elements(m_not_generated')
                       /\ y \notin Elements(m_generated')
                       /\ Sect(y)' = Sect(y) /\ Sect(y).name_space = x
        <3>1. CASE x = ns
            BY <1>3, <1>4, <1>5, <1>6, <1>8, <3>1 DEF OInv, Apart
        <3>2. CASE x # ns
            BY <1>3, <1>5, <1>6, <1>7, <1>8, <3>2 DEF OInv, Apart
        <3> QED
            BY <3>1, <3>2
    <2>3. Once(m_not_generated')
        BY <1>3 DEF OInv, Apart
    <2> QED
        BY <2>1, <2>2, <2>3 DEF Apart, Elements, Once, Sect
<1>12. Somewhere'
    <2> SUFFICES ASSUME NEW x \in Indices
                 PROVE  \/ x \in Elements(m_not_generated')
                        \/ x \in Elements(m_generated')
                        \/ \E y \in Namespaces : x \in Elements(m_this_pass'[y])
        BY <1>9 DEF Somewhere, Elements
    <2>1. CASE x = s
        BY <1>5, <2>1
    <2>2. CASE x # s
        <3>1. \A y \in Namespaces :
                 x \in Elements(m_this_pass[y]) => x \in Elements(m_this_pass'[y])
            BY <1>4, <1>6, <2>2
        <3> QED
            BY <1>3, <1>5, <3>1 DEF OInv, Somewhere
    <2> QED
        BY <2>1, <2>2
<1>13. WrittenIsSatisfied'
    <2>1. input'.marked \subseteq m_satisfied'
        BY <1>3 DEF OInv, WrittenIsSatisfied
    <2>2. \A x \in Elements(m_generated') : Sect(x).keys \subseteq m_satisfied'
        BY <1>3, <1>5 DEF OInv, WrittenIsSatisfied
    <2> QED
        BY <1>8, <2>1, <2>2 DEF WrittenIsSatisfied, Elements, Sect
<1>14. PassedOver'
    BY <1>3, <1>10 DEF OInv, PassedOver
<1> QED
    BY <1>1, <1>11, <1>12, <1>13, <1>14 DEF OInv

\* The steps that only move the scan or end a pass keep the invariant.
LEMMA OtherKeepsO ==
    ASSUME OInv, Skip \/ EndScan \/ EndPass \/ UNCHANGED vars
    PROVE  OInv'
<1>1. IInv' /\ TypeOK
    BY OtherKeeps DEF OInv, IInv
<1>2. UNCHANGED <<input, m_not_generated, m_generated, m_satisfied, m_this_pass>>
    BY DEF Skip, EndScan, EndPass, vars
<1>3. Apart' /\ Somewhere' /\ WrittenIsSatisfied'
    BY <1>2 DEF OInv, Apart, Somewhere, WrittenIsSatisfied, Elements, Once, Sect, Indices
<1>4. i \in 1 .. Len(m_not_generated) + 1 /\ Len(m_not_generated) \in Nat
    BY <1>1, LenProperties DEF TypeOK
<1>5. /\ phase = "write" => i = Len(m_not_generated) + 1
      /\ ~changed => \A ns \in Namespaces : m_this_pass[ns] = <<>>
      /\ phase = "scan" \/ ~changed =>
            \A k \in 1 .. i - 1 : ~is_satisfied(m_not_generated[k])
    BY DEF OInv, PassedOver
<1>6. /\ phase' = "write" => i' = Len(m_not_generated) + 1
      /\ ~changed' => \A ns \in Namespaces : m_this_pass[ns] = <<>>
      /\ phase' = "scan" \/ ~changed' =>
            \A k \in 1 .. i' - 1 : ~is_satisfied(m_not_generated[k])
    <2>1. CASE Skip
        <3>1. /\ i' = i + 1 /\ phase' = "scan" /\ phase = "scan" /\ changed' = changed
              /\ ~is_satisfied(m_not_generated[i])
            BY <2>1 DEF Skip
        <3>2. \A k \in 1 .. i' - 1 : k \in 1 .. i - 1 \/ k = i
            BY <1>4, <3>1
        <3> QED
            BY <1>5, <3>1, <3>2
    <2>2. CASE EndScan
        <3>1. /\ i' = i /\ phase' = "write" /\ phase = "scan" /\ changed' = changed
              /\ i > Len(m_not_generated)
            BY <2>2 DEF EndScan
        <3>2. i = Len(m_not_generated) + 1
            BY <1>4, <3>1
        <3> QED
            BY <1>5, <3>1, <3>2
    <2>3. CASE EndPass
        <3>1. /\ i' = 1 /\ phase' # "write"
              /\ \A ns \in Namespaces : m_this_pass[ns] = <<>>
            BY <2>3 DEF EndPass
        <3>2. 1 .. i' - 1 = {}
            BY <3>1
        <3> QED
            BY <3>1, <3>2
    <2>4. CASE UNCHANGED vars
        <3>1. i' = i /\ phase' = phase /\ changed' = changed
            BY <2>4 DEF vars
        <3> QED
            BY <1>5, <3>1
    <2> QED
        BY <2>1, <2>2, <2>3, <2>4
<1>7. PassedOver'
    BY <1>2, <1>6 DEF PassedOver, is_satisfied, Sect
<1> QED
    BY <1>1, <1>3, <1>7 DEF OInv

------------------------------------------------------------------------------
\* Writing a section is the output's Write.
LEMMA WriteIsWrite ==
    ASSUME OInv, NEW ns \in Namespaces, WriteSection(ns)
    PROVE  Output!Next
<1> DEFINE s == Head(m_this_pass[ns])
<1>1. IInv /\ TypeOK
    BY DEF OInv, IInv
<1>2. m_this_pass[ns] \in Seq(Indices) /\ m_this_pass[ns] # <<>>
    BY <1>1 DEF TypeOK, WriteSection
<1>3. /\ s \in Indices /\ s = m_this_pass[ns][1] /\ 1 \in 1 .. Len(m_this_pass[ns])
      /\ s \in Elements(m_this_pass[ns])
    BY <1>2, HeadTailProperties, LenProperties, EmptySeq DEF Elements
<1>4. is_satisfied(s) /\ s \notin Elements(m_generated)
    BY <1>1, <1>3 DEF OInv, Apart, IInv, TakenIsReady
<1> HIDE DEF s
<1>5. ASSUME NEW d \in Sect(s).depends_on
      PROVE  d \in Output!Provided
    <2>1. d \in Given \/ \E k \in 1 .. Len(m_generated) : d \in Sect(m_generated[k]).keys
        BY <1>1, <1>4 DEF is_satisfied, IInv, SatisfiedIsWritten, Given
    <2>2. \A k \in 1 .. Len(m_generated) : m_generated[k] \in Output!WrittenSet
        BY <1>1, OutputMeaning DEF Elements
    <2> QED
        BY <2>1, <2>2, OutputMeaning
<1>6. s \in Output!Possible
    BY <1>1, <1>3, <1>4, <1>5, OutputMeaning
<1>7. /\ phase = "write" /\ phase' = phase /\ input' = input
      /\ m_generated' = Append(m_generated, s)
    BY DEF WriteSection, s
<1>8. Output!Write(s)
    BY <1>6, <1>7 DEF Output!Write, Given
<1> QED
    BY <1>3, <1>8, OutputMeaning DEF Output!Next

\* The end of a pass that took nothing is the output's Finish: everything that is
\* left was gone past and is not ready.
LEMMA EndIsFinish ==
    ASSUME OInv, EndPass, ~changed
    PROVE  Output!Next
<1>1. IInv /\ TypeOK /\ phase = "write"
    BY DEF OInv, IInv, EndPass
<1>2. Len(m_not_generated) \in Nat /\ m_not_generated \in Seq(Indices)
    BY <1>1, LenProperties DEF TypeOK
<1>3. \A k \in 1 .. Len(m_not_generated) : ~is_satisfied(m_not_generated[k])
    BY <1>1, <1>2 DEF OInv, PassedOver
<1>4. \A s \in Indices : s \in Elements(m_generated) \/ s \in Elements(m_not_generated)
    BY DEF OInv, Somewhere, Apart, EndPass, Elements
<1>5. ASSUME NEW s \in Indices, s \in Output!Possible
      PROVE  FALSE
    <2>1. PICK k \in 1 .. Len(m_not_generated) : s = m_not_generated[k]
        BY <1>1, <1>4, <1>5, OutputMeaning DEF Elements
    <2>2. PICK d \in Sect(s).depends_on : d \notin m_satisfied /\ d \notin input.imported
        BY <1>3, <2>1 DEF is_satisfied
    <2>3. d \in Output!Provided
        BY <1>5, OutputMeaning
    <2>4. d \in Given \/ \E x \in Elements(m_generated) : d \in Sect(x).keys
        BY <1>1, <2>3, OutputMeaning
    <2> QED
        BY <2>2, <2>4 DEF OInv, WrittenIsSatisfied, Given
<1>6. Output!Possible = {}
    BY <1>5, OutputMeaning DEF Output!Possible
<1>7. m_not_generated = <<>> <=> Output!WrittenSet = Output!Indices
    <2>1. Output!WrittenSet = Elements(m_generated) /\ Output!Indices = Indices
        BY <1>1, OutputMeaning
    <2>2. Elements(m_generated) \subseteq Indices
        BY <1>1, ElementOfSeq DEF TypeOK, Elements
    <2>3. CASE m_not_generated = <<>>
        BY <1>4, <2>1, <2>2, <2>3 DEF Elements
    <2>4. CASE m_not_generated # <<>>
        <3>1. /\ m_not_generated[1] \in Indices
              /\ m_not_generated[1] \in Elements(m_not_generated)
            BY <1>2, <2>4, EmptySeq, ElementOfSeq DEF Elements
        <3> QED
            BY <2>1, <2>4, <3>1 DEF OInv, Apart
    <2> QED
        BY <2>3, <2>4
<1>8. /\ phase' = (IF m_not_generated = <<>> THEN "done" ELSE "failed")
      /\ UNCHANGED <<input, m_generated>>
    BY DEF EndPass
<1>9. Output!Finish
    BY <1>1, <1>6, <1>7, <1>8 DEF Output!Finish, Given
<1> QED
    BY <1>9 DEF Output!Next

\* Every other step leaves the output as it is.
LEMMA OthersStutter ==
    ASSUME OInv, Take \/ Skip \/ EndScan \/ (EndPass /\ changed) \/ UNCHANGED vars
    PROVE  UNCHANGED Output!vars
<1>1. UNCHANGED <<input, m_generated>>
    BY DEF Take, Skip, EndScan, EndPass, vars
<1>2. (phase \in {"done", "failed"} \/ phase' \in {"done", "failed"}) => phase' = phase
    BY DEF Take, Skip, EndScan, EndPass, vars
<1> QED
    BY <1>1, <1>2 DEF Output!vars, Given

\* The safety part of OutputSpec: however many passes it takes and however they group
\* the sections, the emitted text is one OrderedOutput allows, and emit() ends or
\* throws where OrderedOutput does (emitter.cpp, emit and pass).
THEOREM EmitterImplementsOutput ==
    Spec => Output!Init /\ [][Output!Next]_(Output!vars)
<1>1. OInv /\ [Next]_vars => OInv'
    BY TakeKeepsO, WriteKeepsO, OtherKeepsO DEF Next
<1>2. OInv /\ [Next]_vars => [Output!Next]_(Output!vars)
    BY WriteIsWrite, EndIsFinish, OthersStutter DEF Next
<1>3. Init => Output!Init
    BY DEF Init, Output!Init
<1> QED
    BY OInvInit, <1>1, <1>2, <1>3, PTL DEF Spec

------------------------------------------------------------------------------
\* What the refinement mapping to EmitterPasses counts as written.
PassWritten == {m_generated[n] : n \in DOMAIN m_generated} \union
               (IF phase = "write" THEN Taken ELSE {})

\* A section counts as written from the end of the scan that took it.
LEMMA PassesMeaning ==
    ASSUME TypeOK
    PROVE  /\ \A s : s \in Taken <=> \E ns \in Namespaces : s \in Elements(m_this_pass[ns])
           /\ PassWritten = Elements(m_generated) \union
                            (IF phase = "write" THEN Taken ELSE {})
           /\ PassWritten \subseteq Indices
           /\ Passes!Indices = Indices
           /\ \A d : d \in Passes!Provided <=>
                 d \in Given \/ \E s \in PassWritten : d \in Sect(s).keys
           /\ \A s : s \in Passes!Ready <=>
                 /\ s \in Indices /\ s \notin PassWritten
                 /\ \A d \in Sect(s).depends_on : d \in Passes!Provided
<1>1. DOMAIN m_generated = 1 .. Len(m_generated)
    BY LenProperties DEF TypeOK
<1>2. ASSUME NEW ns \in Namespaces
      PROVE  /\ DOMAIN m_this_pass[ns] = 1 .. Len(m_this_pass[ns])
             /\ Elements(m_this_pass[ns]) \subseteq Indices
    <2>1. m_this_pass[ns] \in Seq(Indices)
        BY DEF TypeOK
    <2> QED
        BY <2>1, LenProperties, ElementOfSeq DEF Elements
<1>3. \A s : s \in Taken <=> \E ns \in Namespaces : s \in Elements(m_this_pass[ns])
    BY <1>2 DEF Taken, Elements
<1>4. PassWritten = Elements(m_generated) \union (IF phase = "write" THEN Taken ELSE {})
    BY <1>1 DEF PassWritten, Elements
<1>5. Elements(m_generated) \subseteq Indices
    BY ElementOfSeq DEF TypeOK, Elements
<1>6. PassWritten \subseteq Indices
    BY <1>2, <1>3, <1>4, <1>5
<1>7. Passes!Indices = Indices
    BY DEF Passes!Indices, Indices
<1>8. \A d : d \in Passes!Provided <=> d \in Given \/ \E s \in PassWritten : d \in Sect(s).keys
    BY DEF Passes!Provided, PassWritten, Sect
<1>9. \A s : s \in Passes!Ready <=>
          /\ s \in Indices /\ s \notin PassWritten
          /\ \A d \in Sect(s).depends_on : d \in Passes!Provided
    BY <1>7 DEF Passes!Ready, PassWritten, Sect
<1> QED
    BY <1>3, <1>4, <1>6, <1>7, <1>8, <1>9

\* While what counts as written is what the output has, a section is ready for the
\* next pass when is_satisfied says so.
LEMMA ReadyIsSatisfied ==
    ASSUME OInv, PassWritten = Elements(m_generated)
    PROVE  \A s : s \in Passes!Ready <=>
               s \in Indices /\ s \notin Elements(m_generated) /\ is_satisfied(s)
<1>1. TypeOK /\ SatisfiedIsWritten /\ WrittenIsSatisfied
    BY DEF OInv, IInv
<1>2. \A d : d \in Passes!Provided <=> d \in Given \/ \E s \in Elements(m_generated) : d \in Sect(s).keys
    BY <1>1, PassesMeaning
<1>3. \A d : d \in Passes!Provided <=> d \in m_satisfied \/ d \in input.imported
    <2>1. ASSUME NEW d, d \in Passes!Provided
          PROVE  d \in m_satisfied \/ d \in input.imported
        BY <1>1, <1>2, <2>1 DEF WrittenIsSatisfied, Given
    <2>2. ASSUME NEW d, d \in m_satisfied \/ d \in input.imported
          PROVE  d \in Passes!Provided
        BY <1>1, <1>2, <2>2 DEF SatisfiedIsWritten, Given, Elements
    <2> QED
        BY <2>1, <2>2
<1>4. \A s : s \in Passes!Ready <=>
          /\ s \in Indices /\ s \notin Elements(m_generated)
          /\ \A d \in Sect(s).depends_on : d \in Passes!Provided
    BY <1>1, PassesMeaning
<1> QED
    BY <1>3, <1>4 DEF is_satisfied

\* The end of a scan is the whole pass: what it took is what was ready, and what it
\* left was not.
LEMMA EndScanIsPass ==
    ASSUME OInv, EndScan
    PROVE  Passes!Next \/ UNCHANGED Passes!vars
<1>1. IInv /\ TypeOK /\ phase = "scan" /\ i = Len(m_not_generated) + 1
      /\ Len(m_not_generated) \in Nat
    BY LenProperties DEF OInv, IInv, EndScan, TypeOK
<1>2. /\ phase' = "write" /\ UNCHANGED <<input, m_generated, m_this_pass>>
    BY DEF EndScan
<1>3. PassWritten = Elements(m_generated) /\ PassWritten' = Elements(m_generated) \union Taken
    <2>1. PassWritten = {m_generated[n] : n \in DOMAIN m_generated}
        BY <1>1 DEF PassWritten
    <2>2. PassWritten' = {m_generated[n] : n \in DOMAIN m_generated} \union Taken
        BY <1>2 DEF PassWritten, Taken
    <2>3. PassWritten = Elements(m_generated)
        BY <1>1, PassesMeaning
    <2> QED
        BY <2>1, <2>2, <2>3
<1>4. \A k \in 1 .. Len(m_not_generated) : ~is_satisfied(m_not_generated[k])
    BY <1>1 DEF OInv, PassedOver
<1>5. ASSUME NEW s \in Taken
      PROVE  s \in Passes!Ready
    <2>1. PICK ns \in Namespaces : s \in Elements(m_this_pass[ns])
        BY <1>1, PassesMeaning
    <2>2. PICK n \in 1 .. Len(m_this_pass[ns]) : s = m_this_pass[ns][n]
        BY <2>1 DEF Elements
    <2>3. s \in Indices
        BY <1>1, <2>2, ElementOfSeq DEF TypeOK
    <2>4. is_satisfied(s)
        BY <1>1, <2>2 DEF IInv, TakenIsReady
    <2>5. s \notin Elements(m_generated)
        BY <2>1 DEF OInv, Apart
    <2> QED
        BY <1>3, <2>3, <2>4, <2>5, ReadyIsSatisfied
<1>6. ASSUME NEW s \in Passes!Ready
      PROVE  s \in Taken
    <2>1. s \in Indices /\ s \notin Elements(m_generated) /\ is_satisfied(s)
        BY <1>3, ReadyIsSatisfied
    <2>2. s \notin Elements(m_not_generated)
        BY <1>4, <2>1 DEF Elements
    <2> QED
        BY <1>1, <2>1, <2>2, PassesMeaning DEF OInv, Somewhere
<1>7. Passes!Ready = Taken
    BY <1>5, <1>6
<1>8. CASE Taken = {}
    BY <1>1, <1>2, <1>3, <1>8 DEF Passes!vars, PassWritten, Given
<1>9. CASE Taken # {}
    <2>1. PassWritten' = PassWritten \union Passes!Ready
        BY <1>3, <1>7
    <2>2. Passes!Pass
        BY <1>1, <1>2, <1>7, <1>9, <2>1 DEF Passes!Pass, PassWritten, Given
    <2> QED
        BY <2>2 DEF Passes!Next
<1> QED
    BY <1>8, <1>9

\* The end of a pass that took nothing is Finish; of one that took something, it
\* shows only in the scan that follows.
LEMMA EndPassIsFinish ==
    ASSUME OInv, EndPass
    PROVE  Passes!Next \/ UNCHANGED Passes!vars
<1>1. IInv /\ TypeOK /\ phase = "write"
    BY DEF OInv, IInv, EndPass
<1>2. /\ Len(m_not_generated) \in Nat /\ m_not_generated \in Seq(Indices)
      /\ phase' # "write"
      /\ UNCHANGED <<input, m_generated>>
    BY <1>1, LenProperties DEF TypeOK, EndPass
<1>3. Taken = {}
    BY <1>1, PassesMeaning DEF EndPass, Elements
<1>4. PassWritten = Elements(m_generated) /\ PassWritten' = PassWritten
    <2>1. PassWritten = {m_generated[n] : n \in DOMAIN m_generated}
        BY <1>3 DEF PassWritten
    <2>2. PassWritten' = {m_generated[n] : n \in DOMAIN m_generated}
        BY <1>2 DEF PassWritten
    <2>3. PassWritten = Elements(m_generated)
        BY <1>1, <1>3, PassesMeaning
    <2> QED
        BY <2>1, <2>2, <2>3
<1>5. CASE changed
    <2>1. phase' = "scan"
        BY <1>5 DEF EndPass
    <2> QED
        BY <1>1, <1>2, <1>4, <2>1 DEF Passes!vars, PassWritten, Given
<1>6. CASE ~changed
    <2>1. \A s \in Indices : s \in Elements(m_generated) \/ s \in Elements(m_not_generated)
        BY DEF OInv, Somewhere, EndPass, Elements
    <2>2. \A k \in 1 .. Len(m_not_generated) : ~is_satisfied(m_not_generated[k])
        BY <1>1, <1>2, <1>6 DEF OInv, PassedOver
    <2>3. Passes!Ready = {}
        BY <1>4, <2>1, <2>2, ReadyIsSatisfied DEF Elements
    <2>4. m_not_generated = <<>> <=> PassWritten = Indices
        <3>1. PassWritten \subseteq Indices
            BY <1>1, PassesMeaning
        <3>2. CASE m_not_generated = <<>>
            BY <1>4, <2>1, <3>1, <3>2 DEF Elements
        <3>3. CASE m_not_generated # <<>>
            <4>1. /\ m_not_generated[1] \in Indices
                  /\ m_not_generated[1] \in Elements(m_not_generated)
                BY <1>2, <3>3, EmptySeq, ElementOfSeq DEF Elements
            <4> QED
                BY <1>4, <3>3, <4>1 DEF OInv, Apart
        <3> QED
            BY <3>2, <3>3
    <2>5. phase' = IF PassWritten = Passes!Indices THEN "done" ELSE "failed"
        BY <1>1, <1>6, <2>4, PassesMeaning DEF EndPass
    <2>6. Passes!Finish
        BY <1>1, <1>2, <1>4, <2>3, <2>5 DEF Passes!Finish, PassWritten, Given
    <2> QED
        BY <2>6 DEF Passes!Next
<1> QED
    BY <1>5, <1>6

\* Writing a section changes nothing that EmitterPasses sees: the section counts as
\* written since the end of the scan.
LEMMA WriteStutters ==
    ASSUME OInv, NEW ns \in Namespaces, WriteSection(ns)
    PROVE  UNCHANGED Passes!vars
<1> DEFINE q == m_this_pass[ns]
           s == Head(q)
<1>1. TypeOK /\ TypeOK'
    BY WriteKeeps DEF OInv, IInv
<1>2. /\ q \in Seq(Indices) /\ q # <<>> /\ s \in Indices
      /\ m_generated \in Seq(Indices)
      /\ m_this_pass \in [Namespaces -> Seq(Indices)]
    BY <1>1, HeadTailProperties DEF TypeOK, WriteSection
<1>3. /\ m_this_pass' = [m_this_pass EXCEPT ![ns] = Tail(q)]
      /\ m_generated' = Append(m_generated, s)
      /\ phase = "write" /\ UNCHANGED <<input, phase>>
    BY DEF WriteSection
<1>4. s \in Elements(q) /\ Elements(Tail(q)) = Elements(q) \ {s}
    BY <1>2, TailElements DEF OInv, Apart
<1>5. Elements(m_generated') = Elements(m_generated) \union {s}
    BY <1>2, <1>3, AppendElements
<1>6. /\ m_this_pass'[ns] = Tail(q)
      /\ \A x \in Namespaces : x # ns => m_this_pass'[x] = m_this_pass[x]
    BY <1>2, <1>3
<1>7. \A x : x \in PassWritten <=>
          x \in Elements(m_generated) \/ \E y \in Namespaces : x \in Elements(m_this_pass[y])
    BY <1>1, <1>3, PassesMeaning
<1>8. \A x : x \in PassWritten' <=>
          x \in Elements(m_generated') \/ \E y \in Namespaces : x \in Elements(m_this_pass'[y])
    <2>1. DOMAIN m_generated' = 1 .. Len(m_generated')
        BY <1>1, LenProperties DEF TypeOK
    <2>2. ASSUME NEW y \in Namespaces
          PROVE  DOMAIN m_this_pass'[y] = 1 .. Len(m_this_pass'[y])
        <3>1. m_this_pass'[y] \in Seq(Indices')
            BY <1>1 DEF TypeOK
        <3> QED
            BY <3>1, LenProperties
    <2>3. \A x : x \in Taken' <=> \E y \in Namespaces : x \in Elements(m_this_pass'[y])
        BY <2>2 DEF Taken, Elements
    <2>4. PassWritten' = Elements(m_generated') \union Taken'
        <3>1. PassWritten' = {m_generated'[n] : n \in DOMAIN m_generated'} \union Taken'
            BY <1>3 DEF PassWritten
        <3> QED
            BY <2>1, <3>1 DEF Elements
    <2> QED
        BY <2>3, <2>4
<1>9. \A x : (\E y \in Namespaces : x \in Elements(m_this_pass'[y]))
             <=> (x # s /\ \E y \in Namespaces : x \in Elements(m_this_pass[y]))
    <2>1. \A y \in Namespaces : y # ns => s \notin Elements(m_this_pass[y])
        BY <1>4 DEF OInv, Apart
    <2> QED
        BY <1>4, <1>6, <2>1
<1> HIDE DEF q, s
<1>10. s \in PassWritten
    BY <1>4, <1>7 DEF q
<1>11. PassWritten' = PassWritten
    BY <1>5, <1>7, <1>8, <1>9, <1>10
<1> QED
    BY <1>3, <1>11 DEF Passes!vars, PassWritten, Given

\* What a scan takes counts when the scan ends.
LEMMA ScanStutters ==
    ASSUME OInv, Take \/ Skip \/ UNCHANGED vars
    PROVE  UNCHANGED Passes!vars
<1>1. UNCHANGED <<input, m_generated, phase>> /\ (phase = "scan" \/ m_this_pass' = m_this_pass)
    BY DEF Take, Skip, vars
<1>2. PassWritten' = PassWritten
    BY <1>1 DEF PassWritten, Taken
<1> QED
    BY <1>1, <1>2 DEF Passes!vars, PassWritten, Given

\* The safety part of PassesSpec: what a pass writes is exactly what was ready when it
\* began, whatever the order of its namespaces, so the back end may count a pass as
\* one step (emitter.cpp, pass).
THEOREM EmitterImplementsPasses ==
    Spec => Passes!Init /\ [][Passes!Next]_(Passes!vars)
<1>1. OInv /\ [Next]_vars => OInv'
    BY TakeKeepsO, WriteKeepsO, OtherKeepsO DEF Next
<1>2. OInv /\ [Next]_vars => [Passes!Next]_(Passes!vars)
    BY EndScanIsPass, EndPassIsFinish, WriteStutters, ScanStutters DEF Next
<1>3. Init => Passes!Init
    BY DEF Init, Passes!Init
<1> QED
    BY OInvInit, <1>1, <1>2, <1>3, PTL DEF Spec

------------------------------------------------------------------------------
\* Induction over the natural numbers, for a set.
LEMMA NatSetInduction ==
    ASSUME NEW T, 0 \in T, \A n \in Nat : n \in T => n + 1 \in T
    PROVE  Nat \subseteq T
<1> DEFINE U == Nat \ T
           R == {ss \in Nat \X Nat : ss[1] < ss[2]}
<1>1. IsWellFoundedOn(R, Nat)
  BY NatLessThanWellFounded, Zenon DEF OpToRel
<1>2. SUFFICES ASSUME U # {} PROVE FALSE
  OBVIOUS
<1>3. U \subseteq Nat
  OBVIOUS
<1> HIDE DEF U, R
<1>4. PICK x \in U : \A y \in U : ~ (<<y, x>> \in R)
  BY <1>1, <1>2, <1>3, WFMin
<1> USE DEF U
<1>5. x # 0 /\ x - 1 \in Nat /\ x - 1 + 1 = x
  BY <1>4
<1>6. x - 1 \in U
  BY <1>4, <1>5
<1>7. <<x - 1, x>> \in R
  BY <1>4, <1>5 DEF R
<1> QED BY <1>4, <1>6, <1>7

\* What FlattenSeq computes on the way.
Joins(sq, n, f) == /\ DOMAIN f = 1 .. n
                   /\ \A k \in 1 .. n : f[k] = IF k = 1 THEN sq[k] ELSE f[k - 1] \o sq[k]

\* What a joining function is at the next place.
LEMMA JoinsAt ==
    ASSUME NEW sq, NEW m \in Nat, NEW f, Joins(sq, m, f), NEW n \in Nat, n + 1 <= m
    PROVE  f[n + 1] = IF n = 0 THEN sq[n + 1] ELSE f[n] \o sq[n + 1]
<1> DEFINE k == n + 1
<1>1. k \in 1 .. m /\ k - 1 = n /\ (k = 1 <=> n = 0)
  OBVIOUS
<1> HIDE DEF k
<1>2. f[k] = IF k = 1 THEN sq[k] ELSE f[k - 1] \o sq[k]
  BY <1>1, Zenon DEF Joins
<1>3. f[k] = IF n = 0 THEN sq[k] ELSE f[n] \o sq[k]
  BY <1>1, <1>2, Zenon
<1> QED BY <1>3, Zenon DEF k

\* There is one for every beginning of a sequence of sequences.
LEMMA JoinsExist ==
    ASSUME NEW S, NEW sq \in Seq(Seq(S))
    PROVE  \A n \in 0 .. Len(sq) : \E f \in [1 .. n -> Seq(S)] : Joins(sq, n, f)
<1> DEFINE T == {n \in Nat : n <= Len(sq) => \E f \in [1 .. n -> Seq(S)] : Joins(sq, n, f)}
<1>1. 0 \in T
  <2> DEFINE f == [k \in 1 .. 0 |-> <<>>]
  <2>1. f \in [1 .. 0 -> Seq(S)] /\ Joins(sq, 0, f)
    BY DEF Joins
  <2> QED BY <2>1
<1>2. ASSUME NEW n \in Nat, n \in T PROVE n + 1 \in T
  <2> SUFFICES ASSUME n + 1 <= Len(sq)
               PROVE  \E f \in [1 .. n + 1 -> Seq(S)] : Joins(sq, n + 1, f)
    BY <1>2
  <2>1. PICK f \in [1 .. n -> Seq(S)] : Joins(sq, n, f)
    BY <1>2
  <2> DEFINE end == IF n = 0 THEN sq[1] ELSE f[n] \o sq[n + 1]
             g == [k \in 1 .. n + 1 |-> IF k = n + 1 THEN end ELSE f[k]]
  <2>2. sq[1] \in Seq(S) /\ sq[n + 1] \in Seq(S)
    OBVIOUS
  <2>3. end \in Seq(S)
    <3>1. CASE n = 0 BY <3>1, <2>2
    <3>2. CASE n # 0
      <4>1. f[n] \in Seq(S) BY <3>2
      <4> QED BY <3>2, <4>1, <2>2, ConcatProperties
    <3> QED BY <3>1, <3>2
  <2> HIDE DEF end
  <2>4. g \in [1 .. n + 1 -> Seq(S)]
    BY <2>3
  <2>5. ASSUME NEW k \in 1 .. n + 1
        PROVE  g[k] = IF k = 1 THEN sq[k] ELSE g[k - 1] \o sq[k]
    <3>1. CASE k = n + 1
      <4>1. CASE n = 0 BY <3>1, <4>1 DEF end
      <4>2. CASE n # 0
        <5>1. k - 1 = n /\ k # 1 /\ n \in 1 .. n + 1 /\ n # n + 1
          BY <3>1, <4>2
        <5>2. g[k] = f[n] \o sq[n + 1]
          BY <3>1, <4>2, Zenon DEF end
        <5>3. g[k - 1] = f[n]
          BY <5>1
        <5> QED BY <3>1, <5>1, <5>2, <5>3, Zenon
      <4> QED BY <4>1, <4>2
    <3>2. CASE k # n + 1
      <4>1. k \in 1 .. n /\ (k # 1 => k - 1 \in 1 .. n) BY <3>2
      <4>2. f[k] = IF k = 1 THEN sq[k] ELSE f[k - 1] \o sq[k]
        BY <2>1, <4>1, Zenon DEF Joins
      <4>3. g[k] = f[k] /\ (k # 1 => g[k - 1] = f[k - 1])
        BY <3>2, <4>1
      <4> QED BY <4>2, <4>3, Zenon
    <3> QED BY <3>1, <3>2
  <2> HIDE DEF g
  <2>6. Joins(sq, n + 1, g)
    BY <2>4, <2>5 DEF Joins
  <2> QED BY <2>4, <2>6
<1> HIDE DEF T
<1>3. Nat \subseteq T
  BY <1>1, <1>2, NatSetInduction
<1> QED BY <1>3 DEF T

\* FlattenSeq gives the last value of one.
LEMMA FlattenIsJoin ==
    ASSUME NEW S, NEW sq \in Seq(Seq(S)), Len(sq) # 0
    PROVE  \E f \in [1 .. Len(sq) -> Seq(S)] :
              Joins(sq, Len(sq), f) /\ FlattenSeq(sq) = f[Len(sq)]
<1> DEFINE G(f) == [k \in 1 .. Len(sq) |-> IF k = 1 THEN sq[k] ELSE f[k - 1] \o sq[k]]
           F == CHOOSE f : f = G(f)
<1>1. FlattenSeq(sq) = F[Len(sq)]
  BY Zenon DEF FlattenSeq
<1>2. PICK f \in [1 .. Len(sq) -> Seq(S)] : Joins(sq, Len(sq), f)
  BY JoinsExist
<1>3. f = G(f)
  <2>1. f = [k \in 1 .. Len(sq) |-> f[k]]
    OBVIOUS
  <2>2. \A k \in 1 .. Len(sq) : f[k] = IF k = 1 THEN sq[k] ELSE f[k - 1] \o sq[k]
    BY <1>2, Zenon DEF Joins
  <2> QED BY <2>1, <2>2, Zenon
<1> HIDE DEF G
<1>4. F = G(F)
  BY <1>3, Zenon
<1> USE DEF G
<1> HIDE DEF F
<1>5. Joins(sq, Len(sq), F)
  <2>1. ASSUME NEW k \in 1 .. Len(sq)
        PROVE  F[k] = IF k = 1 THEN sq[k] ELSE F[k - 1] \o sq[k]
    <3>1. G(F)[k] = IF k = 1 THEN sq[k] ELSE F[k - 1] \o sq[k]
      OBVIOUS
    <3> QED BY <3>1, <1>4, Zenon
  <2>2. DOMAIN F = 1 .. Len(sq)
    <3>1. DOMAIN G(F) = 1 .. Len(sq)
      OBVIOUS
    <3> QED BY <3>1, <1>4, Zenon
  <2> QED BY <2>1, <2>2, Zenon DEF Joins
<1> DEFINE T == {n \in Nat : n \in 1 .. Len(sq) => F[n] = f[n]}
<1>6. 0 \in T
  OBVIOUS
<1>7. ASSUME NEW n \in Nat, n \in T PROVE n + 1 \in T
  <2> SUFFICES ASSUME n + 1 \in 1 .. Len(sq) PROVE F[n + 1] = f[n + 1]
    OBVIOUS
  <2>1. n # 0 => F[n] = f[n]
    BY <1>7
  <2>2. Len(sq) \in Nat /\ n + 1 <= Len(sq)
    OBVIOUS
  <2>3. /\ F[n + 1] = IF n = 0 THEN sq[n + 1] ELSE F[n] \o sq[n + 1]
        /\ f[n + 1] = IF n = 0 THEN sq[n + 1] ELSE f[n] \o sq[n + 1]
    BY <1>2, <1>5, <2>2, JoinsAt, Zenon
  <2> QED BY <2>1, <2>3, Zenon
<1> HIDE DEF T
<1>8. Nat \subseteq T
  BY <1>6, <1>7, NatSetInduction
<1>9. F[Len(sq)] = f[Len(sq)]
  <2>1. Len(sq) \in T BY <1>8
  <2> QED BY <2>1 DEF T
<1> QED BY <1>1, <1>2, <1>9

\* FlattenSeq, one sequence more at a time.
LEMMA FlattenType ==
    ASSUME NEW S, NEW sq \in Seq(Seq(S)) PROVE FlattenSeq(sq) \in Seq(S)
<1>1. CASE Len(sq) = 0
  <2>1. sq = <<>> BY <1>1, EmptySeq
  <2> QED BY <1>1, <2>1 DEF FlattenSeq
<1>2. CASE Len(sq) # 0
  <2>1. PICK f \in [1 .. Len(sq) -> Seq(S)] : FlattenSeq(sq) = f[Len(sq)]
    BY <1>2, FlattenIsJoin
  <2>2. Len(sq) \in 1 .. Len(sq)
    BY <1>2
  <2> QED BY <2>1, <2>2
<1> QED BY <1>1, <1>2

\* FlattenSeq of one sequence more.
LEMMA FlattenAppend ==
    ASSUME NEW S, NEW sq \in Seq(Seq(S)), NEW s \in Seq(S)
    PROVE  FlattenSeq(Append(sq, s)) = FlattenSeq(sq) \o s
<1> DEFINE all == Append(sq, s)
           n   == Len(sq)
<1>1. /\ all \in Seq(Seq(S)) /\ Len(all) = n + 1 /\ n \in Nat
      /\ all[n + 1] = s /\ \A k \in 1 .. n : all[k] = sq[k]
  BY AppendProperties
<1> HIDE DEF all
<1>2. PICK f \in [1 .. n + 1 -> Seq(S)] : Joins(all, n + 1, f) /\ FlattenSeq(all) = f[n + 1]
  BY <1>1, FlattenIsJoin
<1>3. f[n + 1] = IF n = 0 THEN all[n + 1] ELSE f[n] \o all[n + 1]
  <2>1. n \in Nat /\ n + 1 \in Nat /\ n + 1 <= n + 1 BY <1>1
  <2> QED BY <1>2, <2>1, JoinsAt, Zenon
<1>4. CASE n = 0
  <2>1. sq = <<>> BY <1>4, EmptySeq
  <2>2. FlattenSeq(sq) = <<>> BY <1>4, <2>1 DEF FlattenSeq
  <2>3. <<>> \o s = s BY ConcatEmptySeq
  <2> QED BY <1>1, <1>2, <1>3, <1>4, <2>2, <2>3, Zenon DEF all
<1>5. CASE n # 0
  <2>1. PICK g \in [1 .. n -> Seq(S)] : Joins(sq, n, g) /\ FlattenSeq(sq) = g[n]
    BY <1>5, FlattenIsJoin
  <2> DEFINE T == {k \in Nat : k \in 1 .. n => f[k] = g[k]}
  <2>2. 0 \in T
    OBVIOUS
  <2>3. ASSUME NEW k \in Nat, k \in T PROVE k + 1 \in T
    <3> SUFFICES ASSUME k + 1 \in 1 .. n PROVE f[k + 1] = g[k + 1]
      OBVIOUS
    <3>1. /\ n \in Nat /\ n + 1 \in Nat /\ k + 1 <= n /\ k + 1 <= n + 1
          /\ all[k + 1] = sq[k + 1]
      BY <1>1
    <3>2. k # 0 => f[k] = g[k]
      BY <2>3
    <3>3. f[k + 1] = IF k = 0 THEN all[k + 1] ELSE f[k] \o all[k + 1]
      BY <1>2, <3>1, JoinsAt, Zenon
    <3>4. g[k + 1] = IF k = 0 THEN sq[k + 1] ELSE g[k] \o sq[k + 1]
      BY <2>1, <3>1, JoinsAt, Zenon
    <3> QED BY <3>1, <3>2, <3>3, <3>4, Zenon
  <2> HIDE DEF T
  <2>4. Nat \subseteq T
    BY <2>2, <2>3, NatSetInduction
  <2>5. f[n] = g[n]
    <3>1. n \in T /\ n \in 1 .. n BY <1>1, <1>5, <2>4
    <3> QED BY <3>1 DEF T
  <2> QED BY <1>1, <1>2, <1>3, <1>5, <2>1, <2>5, Zenon DEF all
<1> QED BY <1>4, <1>5

\* FlattenSeq of none.
LEMMA FlattenEmpty == FlattenSeq(<<>>) = <<>>
BY DEF FlattenSeq

\* Induction over sequences, for what holds of the sequences in a set.
LEMMA SeqSetInduction ==
    ASSUME NEW S, NEW T, <<>> \in T,
           \A sq \in Seq(S), s \in S : sq \in T => Append(sq, s) \in T
    PROVE  Seq(S) \subseteq T
<1> DEFINE N == {n \in Nat : \A sq \in Seq(S) : Len(sq) = n => sq \in T}
<1>1. 0 \in N
  BY EmptySeq
<1>2. ASSUME NEW n \in Nat, n \in N PROVE n + 1 \in N
  <2> SUFFICES ASSUME NEW sq \in Seq(S), Len(sq) = n + 1 PROVE sq \in T
    OBVIOUS
  <2> DEFINE front == SubSeq(sq, 1, n)
  <2>1. front \in Seq(S) /\ Len(front) = n /\ \A k \in 1 .. n : front[k] = sq[k]
    BY SubSeqProperties
  <2>2. sq[n + 1] \in S
    OBVIOUS
  <2> HIDE DEF front
  <2>3. /\ Append(front, sq[n + 1]) \in Seq(S) /\ Len(Append(front, sq[n + 1])) = n + 1
        /\ \A k \in 1 .. n + 1 : Append(front, sq[n + 1])[k] = sq[k]
    BY <2>1, <2>2, AppendProperties
  <2>4. Append(front, sq[n + 1]) = sq
    BY <2>3, SeqEqual
  <2>5. front \in T
    BY <1>2, <2>1
  <2> QED BY <2>1, <2>2, <2>4, <2>5
<1> HIDE DEF N
<1>3. Nat \subseteq N
  BY <1>1, <1>2, NatSetInduction
<1>4. ASSUME NEW sq \in Seq(S) PROVE sq \in T
  <2>1. Len(sq) \in N BY <1>3
  <2> QED BY <2>1 DEF N
<1> QED BY <1>4

\* FlattenSeq has what the sequences have.
LEMMA FlattenRange ==
    ASSUME NEW S, NEW sq \in Seq(Seq(S))
    PROVE  Range(FlattenSeq(sq)) = UNION {Range(sq[k]) : k \in DOMAIN sq}
<1> DEFINE T == {q \in Seq(Seq(S)) :
                   Range(FlattenSeq(q)) = UNION {Range(q[k]) : k \in DOMAIN q}}
<1>1. <<>> \in T
  <2>1. <<>> \in Seq(Seq(S)) /\ DOMAIN <<>> = {} /\ Range(<<>>) = {}
    BY EmptySeq DEF Range
  <2> QED BY <2>1, FlattenEmpty
<1>2. ASSUME NEW q \in Seq(Seq(S)), NEW s \in Seq(S), q \in T PROVE Append(q, s) \in T
  <2> DEFINE all == Append(q, s)
             n == Len(q)
  <2>1. /\ all \in Seq(Seq(S)) /\ DOMAIN all = 1 .. n + 1 /\ n \in Nat
        /\ all[n + 1] = s /\ \A k \in 1 .. n : all[k] = q[k]
    BY AppendProperties, LenProperties
  <2>2. FlattenSeq(all) = FlattenSeq(q) \o s /\ FlattenSeq(q) \in Seq(S)
    BY FlattenAppend, FlattenType
  <2>3. Range(FlattenSeq(all)) = Range(FlattenSeq(q)) \cup Range(s)
    BY <2>2, RangeConcatenation
  <2> HIDE DEF all
  <2>4. \A x : (\E k \in 1 .. n + 1 : x \in Range(all[k]))
                 <=> (\E k \in 1 .. n : x \in Range(q[k])) \/ x \in Range(s)
    <3>1. n + 1 \in 1 .. n + 1 /\ \A k \in 1 .. n + 1 : k = n + 1 \/ k \in 1 .. n
      BY <2>1
    <3>2. \A k \in 1 .. n : k \in 1 .. n + 1
      BY <2>1
    <3> QED BY <2>1, <3>1, <3>2, Zenon
  <2>5. DOMAIN q = 1 .. n
    BY LenProperties
  <2>6. Range(FlattenSeq(q)) = UNION {Range(q[k]) : k \in DOMAIN q}
    BY <1>2
  <2> HIDE DEF T
  <2>7. \A x : x \in Range(FlattenSeq(all)) <=> \E k \in DOMAIN all : x \in Range(all[k])
    BY <2>1, <2>3, <2>4, <2>5, <2>6, Zenon
  <2>8. Range(FlattenSeq(all)) = UNION {Range(all[k]) : k \in DOMAIN all}
    BY <2>7, Zenon
  <2> QED BY <2>1, <2>8, Zenon DEF all, T
<1> HIDE DEF T
<1>3. Seq(Seq(S)) \subseteq T
  BY <1>1, <1>2, SeqSetInduction
<1> QED BY <1>3 DEF T

------------------------------------------------------------------------------
\* The names of an interface, and those of which the type of every part is looked up
\* in less than MaxDepth steps.
Proper  == NamesIn(iface.decl)
Takers  == {"ptr", "vector"} \union OfKinds(iface.decl, Generics)
Fine    == {nm \in Proper : \A k \in 1 .. Len(nm) : SubSeq(nm, k, Len(nm)) \in ends[MaxDepth]}

\* The same for a function on 1 .. n, which is what the generators' loops are.
LEMMA FlattenMap ==
    ASSUME NEW S, NEW n \in Nat, NEW sq \in [1 .. n -> Seq(S)]
    PROVE  /\ FlattenSeq(sq) \in Seq(S)
           /\ Range(FlattenSeq(sq)) = UNION {Range(sq[k]) : k \in 1 .. n}
<1>1. sq \in Seq(Seq(S))
  BY SeqDef
<1>2. DOMAIN sq = 1 .. n
  OBVIOUS
<1> QED BY <1>1, <1>2, FlattenType, FlattenRange

\* The language's own types are of no kind that is declared.
LEMMA IntrinsicKind ==
    ASSUME NEW x \in Intrinsics PROVE Kind(x) = "intrinsic" /\ Kind(x) \notin Compounds
BY DEF Kind, Compounds

\* What the assumption says of an interface.
LEMMA InterfaceIs ==
    ASSUME iface \in Interfaces
    PROVE  /\ \A s \in DOMAIN iface.decl : s \notin Intrinsics /\ Kind(s) = iface.decl[s].kind
           /\ \A s \in DOMAIN iface.decl :
                 iface.decl[s].members \in Seq(Proper \union
                     IF Kind(s) \in Generics THEN {<<"T">>} ELSE {})
<1>1. WellFormed(iface)
  BY BackendAssumption
<1>2. /\ DOMAIN iface.decl \intersect Intrinsics = {}
      /\ \A s \in DOMAIN iface.decl :
              iface.decl[s].members \in Seq(Proper \union
                  IF iface.decl[s].kind \in Generics THEN {<<"T">>} ELSE {})
  BY <1>1, Zenon DEF WellFormed, Proper
<1>4. \A s \in DOMAIN iface.decl : s \notin Intrinsics /\ Kind(s) = iface.decl[s].kind
  BY <1>2 DEF Kind
<1> QED BY <1>2, <1>4

\* A name that a loader makes: a list of known symbols that ends in a type.
LEMMA ProperIs ==
    ASSUME iface \in Interfaces, NEW nm \in Proper
    PROVE  /\ nm \in Seq(Symbols) /\ nm \in Name /\ nm # <<>>
           /\ Len(nm) \in Nat \ {0} /\ DOMAIN nm = 1 .. Len(nm)
           /\ \A k \in 1 .. Len(nm) : nm[k] \in Symbols
           /\ Head(nm) = nm[1] /\ Head(nm) \in Symbols
           /\ \A k \in 1 .. Len(nm) : nm[k] \in Takers <=> k < Len(nm)
           /\ nm[Len(nm)] # "vector" /\ Kind(nm[Len(nm)]) \notin Generics
<1>1. /\ nm \in Seq(Symbols) /\ nm # <<>>
      /\ \A k \in 1 .. Len(nm) : nm[k] \in Takers <=> k < Len(nm)
  BY Zenon DEF Proper, NamesIn, Symbols, Takers
<1>2. nm[Len(nm)] \notin Takers
  BY <1>1, EmptySeq, LenProperties
<1>3. Len(nm) \in Nat \ {0} /\ DOMAIN nm = 1 .. Len(nm) /\ \A k \in 1 .. Len(nm) : nm[k] \in Symbols
  BY <1>1, EmptySeq, LenProperties, ElementOfSeq
<1>4. Head(nm) = nm[1]
  BY <1>1
<1>5. nm \in Name
  BY <1>1 DEF Name
<1>6. nm[Len(nm)] \in Symbols
  BY <1>3
<1>7. Kind(nm[Len(nm)]) \notin Generics
  <2>1. CASE nm[Len(nm)] \in Intrinsics
    BY <2>1, IntrinsicKind DEF Generics, Compounds
  <2>2. CASE nm[Len(nm)] \in DOMAIN iface.decl
    BY <1>2, <2>2, InterfaceIs DEF Takers, OfKinds
  <2> QED BY <1>6, <2>1, <2>2 DEF Symbols
<1>8. 1 \in 1 .. Len(nm)
  BY <1>3
<1>9. nm[Len(nm)] # "vector"
  BY <1>2 DEF Takers
<1> QED BY <1>1, <1>3, <1>4, <1>5, <1>7, <1>8, <1>9

\* Proper, said of symbols that are known.
LEMMA IsProper ==
    ASSUME NEW nm \in Seq(Symbols), nm # <<>>,
           \A k \in 1 .. Len(nm) : nm[k] \in Takers <=> k < Len(nm)
    PROVE  nm \in Proper
BY Zenon DEF Proper, NamesIn, Symbols, Takers

\* What is inside a name is a name.
LEMMA SuffixProper ==
    ASSUME iface \in Interfaces, NEW nm \in Proper, NEW k \in 1 .. Len(nm)
    PROVE  /\ SubSeq(nm, k, Len(nm)) \in Proper
           /\ Len(SubSeq(nm, k, Len(nm))) = Len(nm) - k + 1
           /\ Head(SubSeq(nm, k, Len(nm))) = nm[k]
           /\ NestedNames(nm)[k] = SubSeq(nm, k, Len(nm))
<1> DEFINE s == SubSeq(nm, k, Len(nm))
           len == Len(nm) - k + 1
<1>1. /\ nm \in Seq(Symbols) /\ Len(nm) \in Nat /\ k \in Nat /\ k <= Len(nm) /\ k >= 1
      /\ \A m \in 1 .. Len(nm) : nm[m] \in Symbols
      /\ \A m \in 1 .. Len(nm) : nm[m] \in Takers <=> m < Len(nm)
  BY ProperIs
<1>2. s \in Seq(Symbols) /\ Len(s) = len /\ \A at \in 1 .. len : s[at] = nm[k + at - 1]
  <2>1. \A m \in k .. Len(nm) : nm[m] \in Symbols
    BY <1>1
  <2> QED BY <1>1, <2>1, SubSeqProperties
<1>3. len \in 1 .. len
  BY <1>1
<1> HIDE DEF s
<1>4. s # <<>> /\ \A m \in 1 .. len : s[m] \in Takers <=> m < len
  <2>1. s # <<>>
    BY <1>2, <1>3, EmptySeq
  <2>2. ASSUME NEW m \in 1 .. len PROVE s[m] \in Takers <=> m < len
    <3>1. k + m - 1 \in 1 .. Len(nm) /\ (k + m - 1 < Len(nm) <=> m < len)
      BY <1>1
    <3> QED BY <1>1, <1>2, <3>1
  <2> QED BY <2>1, <2>2
<1>5. s \in Proper
  BY <1>2, <1>4, IsProper
<1>6. 1 \in 1 .. len /\ k + 1 - 1 = k
  BY <1>1
<1>7. Head(s) = nm[k]
  BY <1>2, <1>4, <1>6
<1>8. NestedNames(nm)[k] = s
  BY DEF NestedNames, s
<1> QED BY <1>2, <1>5, <1>7, <1>8 DEF s

\* The names nested in one are its suffixes.
LEMMA NestedAre ==
    ASSUME iface \in Interfaces, NEW nm \in Proper
    PROVE  /\ NestedNames(nm) \in Seq(Proper) /\ DOMAIN NestedNames(nm) = 1 .. Len(nm)
           /\ \A k \in 1 .. Len(nm) : NestedNames(nm)[k] = SubSeq(nm, k, Len(nm))
           /\ Range(NestedNames(nm)) = {SubSeq(nm, k, Len(nm)) : k \in 1 .. Len(nm)}
<1>1. Len(nm) \in Nat
  BY ProperIs
<1>2. NestedNames(nm) \in [1 .. Len(nm) -> Proper]
  BY SuffixProper, Zenon DEF NestedNames
<1>3. NestedNames(nm) \in Seq(Proper)
  BY <1>1, <1>2, SeqDef
<1>4. \A k \in 1 .. Len(nm) : NestedNames(nm)[k] = SubSeq(nm, k, Len(nm))
  BY DEF NestedNames
<1>5. DOMAIN NestedNames(nm) = 1 .. Len(nm)
  BY <1>2
<1> QED BY <1>3, <1>4, <1>5 DEF Range

\* The argument of a name that has one is a name.
LEMMA TailProper ==
    ASSUME iface \in Interfaces, NEW nm \in Proper, Len(nm) > 1
    PROVE  Tail(nm) \in Proper /\ Tail(nm) = SubSeq(nm, 2, Len(nm)) /\ 2 \in 1 .. Len(nm)
<1>1. Tail(nm) = SubSeq(nm, 2, Len(nm))
  BY ProperIs, TailIsSubSeq
<1>2. 2 \in 1 .. Len(nm)
  BY ProperIs
<1> QED BY <1>1, <1>2, SuffixProper

\* A vector, or an instance of a generic, has an argument.
LEMMA HasArgument ==
    ASSUME iface \in Interfaces, NEW nm \in Proper,
           Head(nm) = "vector" \/ Kind(Head(nm)) \in Generics
    PROVE  Len(nm) > 1
<1>1. Len(nm) # 1
  <2> SUFFICES ASSUME Len(nm) = 1 PROVE FALSE
    OBVIOUS
  <2>1. Head(nm) = nm[Len(nm)]
    BY ProperIs
  <2> QED BY <2>1, ProperIs
<1> QED BY <1>1, ProperIs

\* A name can be given as an argument to any symbol.
LEMMA ConsProper ==
    ASSUME iface \in Interfaces, NEW nm \in Proper, NEW x \in Takers
    PROVE  /\ <<x>> \o nm \in Proper
           /\ Head(<<x>> \o nm) = x /\ Tail(<<x>> \o nm) = nm
           /\ Len(<<x>> \o nm) = Len(nm) + 1
           /\ \A k \in 1 .. Len(nm) :
                 SubSeq(<<x>> \o nm, k + 1, Len(nm) + 1) = SubSeq(nm, k, Len(nm))
<1> DEFINE s == <<x>> \o nm
<1>1. /\ nm \in Seq(Symbols) /\ Len(nm) \in Nat \ {0}
      /\ \A k \in 1 .. Len(nm) : nm[k] \in Takers <=> k < Len(nm)
  BY ProperIs
<1> x \in Symbols
  BY DEF Takers, Symbols, Intrinsics, OfKinds
<1>2. <<x>> \in Seq(Symbols) /\ Len(<<x>>) = 1 /\ <<x>>[1] = x
  OBVIOUS
<1>3. /\ s \in Seq(Symbols) /\ Len(s) = Len(nm) + 1
      /\ \A at \in 1 .. Len(nm) + 1 : s[at] = IF at <= 1 THEN x ELSE nm[at - 1]
  <2>1. /\ s \in Seq(Symbols) /\ Len(s) = Len(<<x>>) + Len(nm)
        /\ \A at \in 1 .. Len(<<x>>) + Len(nm) : s[at] =
                     IF at <= Len(<<x>>) THEN <<x>>[at] ELSE nm[at - Len(<<x>>)]
    BY <1>1, <1>2, ConcatProperties
  <2>2. Len(<<x>>) + Len(nm) = Len(nm) + 1
    BY <1>1, <1>2
  <2> QED BY <1>2, <2>1, <2>2
<1> HIDE DEF s
<1>4. s # <<>> /\ s[1] = x
  BY <1>1, <1>3, EmptySeq
<1>5. s \in Proper
  <2>1. ASSUME NEW at \in 1 .. Len(s) PROVE s[at] \in Takers <=> at < Len(s)
    <3>1. CASE at = 1
      BY <1>1, <1>3, <3>1
    <3>2. CASE at # 1
      <4>1. at - 1 \in 1 .. Len(nm) /\ (at - 1 < Len(nm) <=> at < Len(s)) /\ ~(at <= 1)
        BY <1>1, <1>3, <3>2
      <4>2. s[at] = nm[at - 1]
        BY <1>3, <4>1
      <4> QED BY <1>1, <4>1, <4>2
    <3> QED BY <3>1, <3>2
  <2> QED BY <1>3, <1>4, <2>1, IsProper
<1>6. Head(s) = x
  BY <1>3, <1>4
<1>7. ASSUME NEW k \in 1 .. Len(nm)
      PROVE  SubSeq(s, k + 1, Len(nm) + 1) = SubSeq(nm, k, Len(nm))
  <2>1. /\ k + 1 \in Len(<<x>>) + 1 .. Len(<<x>>) + Len(nm)
        /\ Len(nm) + 1 \in Len(<<x>>) + 1 .. Len(<<x>>) + Len(nm)
        /\ k + 1 - Len(<<x>>) = k /\ Len(nm) + 1 - Len(<<x>>) = Len(nm)
    BY <1>1, <1>2
  <2> QED BY <1>1, <1>2, <2>1, SubSeqOfConcat2 DEF s
<1>8. Tail(s) = nm
  <2>1. Tail(s) = SubSeq(s, 2, Len(nm) + 1)
    BY <1>3, <1>4, TailIsSubSeq
  <2>2. 1 \in 1 .. Len(nm) /\ 1 + 1 = 2
    BY <1>1
  <2>3. Tail(s) = SubSeq(nm, 1, Len(nm))
    BY <1>7, <2>1, <2>2
  <2> QED BY <1>1, <2>3, SubSeqFull
<1> QED BY <1>3, <1>5, <1>6, <1>7, <1>8 DEF s

------------------------------------------------------------------------------
\* The functions that are defined by recursion are what their definitions say.
LEMMA EndsIs ==
    ends = [n \in 0 .. MaxDepth |->
              IF n = 0 THEN {} ELSE {nm \in Name : Range(Visited(nm)) \subseteq ends[n - 1]}]
<1> DEFINE Level(n, x) == IF n = 0 THEN {} ELSE {nm \in Name : Range(Visited(nm)) \subseteq x}
           Is(m, h) == h = [n \in 0 .. m |-> Level(n, h[n - 1])]
           F == CHOOSE h : Is(MaxDepth, h)
           T == {m \in Nat : \E h : Is(m, h)}
<1>1. ends = F
  BY Zenon DEF ends
<1>2. \A x, y : Level(0, x) = Level(0, y)
  OBVIOUS
<1> HIDE DEF Level
<1>3. 0 \in T
  <2> DEFINE h == [n \in 0 .. 0 |-> Level(n, 0)]
  <2>1. ASSUME NEW n \in 0 .. 0 PROVE Level(n, 0) = Level(n, h[n - 1])
    <3>1. n = 0 OBVIOUS
    <3> QED BY <1>2, <3>1, Zenon
  <2>2. Is(0, h)
    BY <2>1
  <2> QED BY <2>2
<1>4. ASSUME NEW m \in Nat, m \in T PROVE m + 1 \in T
  <2>1. PICK h : Is(m, h)
    BY <1>4
  <2> DEFINE g == [n \in 0 .. m + 1 |-> IF n = m + 1 THEN Level(m + 1, h[m]) ELSE h[n]]
  <2>2. ASSUME NEW n \in 0 .. m + 1 PROVE g[n] = Level(n, g[n - 1])
    <3>1. CASE n = m + 1
      <4>1. n - 1 = m /\ m # m + 1 /\ m \in 0 .. m + 1 BY <3>1
      <4>2. g[n] = Level(m + 1, h[m]) /\ g[m] = h[m] BY <3>1, <4>1, Zenon
      <4> QED BY <3>1, <4>1, <4>2, Zenon
    <3>2. CASE n # m + 1
      <4>1. n \in 0 .. m BY <3>2
      <4>2. g[n] = h[n] BY <3>2, Zenon
      <4>3. h[n] = Level(n, h[n - 1]) BY <2>1, <4>1, Zenon
      <4>4. CASE n = 0
        BY <1>2, <4>2, <4>3, <4>4, Zenon
      <4>5. CASE n # 0
        <5>1. n - 1 \in 0 .. m + 1 /\ n - 1 # m + 1 BY <4>1, <4>5
        <5>2. g[n - 1] = h[n - 1] BY <5>1, Zenon
        <5> QED BY <4>2, <4>3, <5>2, Zenon
      <4> QED BY <4>4, <4>5
    <3> QED BY <3>1, <3>2
  <2>3. g = [n \in 0 .. m + 1 |-> g[n]]
    OBVIOUS
  <2> HIDE DEF g
  <2>4. Is(m + 1, g)
    BY <2>2, <2>3, Zenon
  <2> QED BY <2>4
<1> HIDE DEF T
<1>5. MaxDepth \in T
  BY <1>3, <1>4, NatSetInduction, BackendAssumption
<1>6. \E h : Is(MaxDepth, h)
  BY <1>5 DEF T
<1> HIDE DEF Is
<1>7. Is(MaxDepth, F)
  BY <1>6, Zenon
<1> HIDE DEF F
<1> QED BY <1>1, <1>7, Zenon DEF Is, Level

\* The same for the instances that get_wire_type_name looks up.
LEMMA WiredIs ==
    wired = [n \in 0 .. MaxDepth |->
               [nm \in Name |->
                  IF n = 0 THEN <<>>
                  ELSE Resolved(nm)
                       \o FlattenSeq([k \in DOMAIN Visited(nm) |-> wired[n - 1][Visited(nm)[k]]])
                       \o Pointer(nm)]]
<1> DEFINE Level(n, x) ==
               [nm \in Name |->
                  IF n = 0 THEN <<>>
                  ELSE Resolved(nm)
                       \o FlattenSeq([k \in DOMAIN Visited(nm) |-> x[Visited(nm)[k]]])
                       \o Pointer(nm)]
           Is(m, h) == h = [n \in 0 .. m |-> Level(n, h[n - 1])]
           F == CHOOSE h : Is(MaxDepth, h)
           T == {m \in Nat : \E h : Is(m, h)}
<1>1. wired = F
  BY Zenon DEF wired
<1>2. \A x, y : Level(0, x) = Level(0, y)
  BY Zenon
<1> HIDE DEF Level
<1>3. 0 \in T
  <2> DEFINE h == [n \in 0 .. 0 |-> Level(n, 0)]
  <2>1. ASSUME NEW n \in 0 .. 0 PROVE Level(n, 0) = Level(n, h[n - 1])
    <3>1. n = 0 OBVIOUS
    <3> QED BY <1>2, <3>1, Zenon
  <2>2. Is(0, h)
    BY <2>1
  <2> QED BY <2>2
<1>4. ASSUME NEW m \in Nat, m \in T PROVE m + 1 \in T
  <2>1. PICK h : Is(m, h)
    BY <1>4
  <2> DEFINE g == [n \in 0 .. m + 1 |-> IF n = m + 1 THEN Level(m + 1, h[m]) ELSE h[n]]
  <2>2. ASSUME NEW n \in 0 .. m + 1 PROVE g[n] = Level(n, g[n - 1])
    <3>1. CASE n = m + 1
      <4>1. n - 1 = m /\ m # m + 1 /\ m \in 0 .. m + 1 BY <3>1
      <4>2. g[n] = Level(m + 1, h[m]) /\ g[m] = h[m] BY <3>1, <4>1, Zenon
      <4> QED BY <3>1, <4>1, <4>2, Zenon
    <3>2. CASE n # m + 1
      <4>1. n \in 0 .. m BY <3>2
      <4>2. g[n] = h[n] BY <3>2, Zenon
      <4>3. h[n] = Level(n, h[n - 1]) BY <2>1, <4>1, Zenon
      <4>4. CASE n = 0
        BY <1>2, <4>2, <4>3, <4>4, Zenon
      <4>5. CASE n # 0
        <5>1. n - 1 \in 0 .. m + 1 /\ n - 1 # m + 1 BY <4>1, <4>5
        <5>2. g[n - 1] = h[n - 1] BY <5>1, Zenon
        <5> QED BY <4>2, <4>3, <5>2, Zenon
      <4> QED BY <4>4, <4>5
    <3> QED BY <3>1, <3>2
  <2>3. g = [n \in 0 .. m + 1 |-> g[n]]
    OBVIOUS
  <2> HIDE DEF g
  <2>4. Is(m + 1, g)
    BY <2>2, <2>3, Zenon
  <2> QED BY <2>4
<1> HIDE DEF T
<1>5. MaxDepth \in T
  BY <1>3, <1>4, NatSetInduction, BackendAssumption
<1>6. \E h : Is(MaxDepth, h)
  BY <1>5 DEF T
<1> HIDE DEF Is
<1>7. Is(MaxDepth, F)
  BY <1>6, Zenon
<1> HIDE DEF F
<1> QED BY <1>1, <1>7, Zenon DEF Is, Level

\* ends, one level at a time.
LEMMA EndsAt ==
    ASSUME NEW n \in 0 .. MaxDepth - 1
    PROVE  /\ ends[0] = {}
           /\ ends[n + 1] = {nm \in Name : Range(Visited(nm)) \subseteq ends[n]}
<1> DEFINE m == n + 1
<1>1. /\ m \in 0 .. MaxDepth /\ m # 0 /\ m - 1 = n /\ 0 \in 0 .. MaxDepth
  BY BackendAssumption
<1> HIDE DEF m
<1>2. ends[m] = {nm \in Name : Range(Visited(nm)) \subseteq ends[m - 1]}
  BY <1>1, EndsIs, Zenon
<1>3. ends[0] = {}
  BY <1>1, EndsIs, Zenon
<1> QED BY <1>1, <1>2, <1>3, Zenon DEF m

\* What ends in few steps ends in more.
LEMMA EndsGrow ==
    ASSUME NEW n \in 0 .. MaxDepth PROVE ends[n] \subseteq ends[MaxDepth]
<1> DEFINE T == {k \in Nat : k < MaxDepth => ends[k] \subseteq ends[k + 1]}
           U == {k \in Nat : k <= MaxDepth => ends[MaxDepth - k] \subseteq ends[MaxDepth]}
<1>0. MaxDepth \in Nat /\ MaxDepth >= 2
  BY BackendAssumption
<1>1. 0 \in T
  BY <1>0, EndsAt
<1>2. ASSUME NEW k \in Nat, k \in T PROVE k + 1 \in T
  <2> SUFFICES ASSUME k + 1 < MaxDepth PROVE ends[k + 1] \subseteq ends[k + 1 + 1]
    OBVIOUS
  <2>1. ends[k] \subseteq ends[k + 1]
    BY <1>0, <1>2
  <2>2. ends[k + 1] = {nm \in Name : Range(Visited(nm)) \subseteq ends[k]}
    <3>1. k \in 0 .. MaxDepth - 1 BY <1>0
    <3> QED BY <3>1, EndsAt
  <2>3. ends[k + 1 + 1] = {nm \in Name : Range(Visited(nm)) \subseteq ends[k + 1]}
    <3>1. k + 1 \in 0 .. MaxDepth - 1 BY <1>0
    <3> QED BY <3>1, EndsAt
  <2> QED BY <2>1, <2>2, <2>3, Zenon
<1> HIDE DEF T
<1>3. Nat \subseteq T
  BY <1>1, <1>2, NatSetInduction
<1>4. 0 \in U
  BY <1>0
<1>5. ASSUME NEW k \in Nat, k \in U PROVE k + 1 \in U
  <2> SUFFICES ASSUME k + 1 <= MaxDepth PROVE ends[MaxDepth - (k + 1)] \subseteq ends[MaxDepth]
    OBVIOUS
  <2> DEFINE m == MaxDepth - (k + 1)
  <2>1. m \in Nat /\ m < MaxDepth /\ m + 1 = MaxDepth - k
    BY <1>0
  <2> HIDE DEF m
  <2>2. ends[m] \subseteq ends[m + 1]
    BY <1>3, <2>1 DEF T
  <2>3. ends[m + 1] \subseteq ends[MaxDepth]
    BY <1>0, <1>5, <2>1
  <2> QED BY <2>2, <2>3 DEF m
<1> HIDE DEF U
<1>6. Nat \subseteq U
  BY <1>4, <1>5, NatSetInduction
<1>7. MaxDepth - n \in U /\ MaxDepth - n <= MaxDepth /\ MaxDepth - (MaxDepth - n) = n
  BY <1>0, <1>6
<1> QED BY <1>7 DEF U

\* A set of natural numbers that is not empty has a least member.
LEMMA LeastNat ==
    ASSUME NEW S, S \subseteq Nat, S # {}
    PROVE  \E x \in S : \A y \in S : x <= y
<1> DEFINE T == {n \in Nat : \A m \in 0 .. n : m \notin S}
<1> SUFFICES ASSUME \A x \in S : \E y \in S : ~ (x <= y) PROVE FALSE
  OBVIOUS
<1>1. 0 \in T
  OBVIOUS
<1>2. ASSUME NEW n \in Nat, n \in T PROVE n + 1 \in T
  <2>1. n + 1 \notin S
    <3> SUFFICES ASSUME n + 1 \in S PROVE FALSE
      OBVIOUS
    <3>1. PICK y \in S : ~ (n + 1 <= y)
      OBVIOUS
    <3>2. y \in 0 .. n
      BY <3>1
    <3> QED BY <1>2, <3>2
  <2>2. \A m \in 0 .. n + 1 : m = n + 1 \/ m \in 0 .. n
    OBVIOUS
  <2> QED BY <1>2, <2>1, <2>2
<1>3. Nat \subseteq T
  <2> HIDE DEF T
  <2> QED BY <1>1, <1>2, NatSetInduction
<1>4. PICK x \in S : x \in Nat
  OBVIOUS
<1> QED BY <1>3, <1>4

------------------------------------------------------------------------------
\* What is looked up stays within the names that are fine.
LEMMA FineIs ==
    ASSUME iface \in Interfaces, NEW nm \in Fine
    PROVE  nm \in Proper /\ nm \in Name /\ nm \in ends[MaxDepth]
<1>1. nm \in Proper /\ \A k \in 1 .. Len(nm) : SubSeq(nm, k, Len(nm)) \in ends[MaxDepth]
  BY DEF Fine
<1>2. nm \in Name /\ 1 \in 1 .. Len(nm) /\ SubSeq(nm, 1, Len(nm)) = nm
  BY <1>1, ProperIs, SubSeqFull
<1> QED BY <1>1, <1>2

\* What is inside a fine name is fine.
LEMMA FineSuffix ==
    ASSUME iface \in Interfaces, NEW nm \in Fine, NEW k \in 1 .. Len(nm)
    PROVE  SubSeq(nm, k, Len(nm)) \in Fine
<1> DEFINE s == SubSeq(nm, k, Len(nm))
<1>1. nm \in Proper /\ \A m \in 1 .. Len(nm) : SubSeq(nm, m, Len(nm)) \in ends[MaxDepth]
  BY DEF Fine
<1>2. s \in Proper /\ Len(s) = Len(nm) - k + 1 /\ Len(nm) \in Nat /\ nm \in Seq(Symbols)
  BY <1>1, SuffixProper, ProperIs
<1>3. ASSUME NEW m \in 1 .. Len(s) PROVE SubSeq(s, m, Len(s)) \in ends[MaxDepth]
  <2>1. /\ Len(nm) \in 1 .. Len(nm) /\ k + m - 1 \in 1 .. Len(nm)
        /\ m \in 1 .. Len(nm) - k + 1 /\ Len(s) \in 1 .. Len(nm) - k + 1
        /\ k + Len(s) - 1 = Len(nm)
    BY <1>2
  <2>2. SubSeq(s, m, Len(s)) = SubSeq(nm, k + m - 1, k + Len(s) - 1)
    BY <1>2, <2>1, SubSeqOfSubSeq
  <2> QED BY <1>1, <2>1, <2>2
<1> HIDE DEF s
<1> QED BY <1>2, <1>3 DEF s, Fine

\* A fine name under a symbol is fine when it ends.
LEMMA FineCons ==
    ASSUME iface \in Interfaces, NEW nm \in Fine, NEW x \in Takers,
           <<x>> \o nm \in ends[MaxDepth]
    PROVE  <<x>> \o nm \in Fine
<1> DEFINE s == <<x>> \o nm
<1>1. nm \in Proper /\ \A m \in 1 .. Len(nm) : SubSeq(nm, m, Len(nm)) \in ends[MaxDepth]
  BY DEF Fine
<1>2. /\ s \in Proper /\ Len(s) = Len(nm) + 1 /\ Len(nm) \in Nat /\ s \in Seq(Symbols)
      /\ \A m \in 1 .. Len(nm) : SubSeq(s, m + 1, Len(nm) + 1) = SubSeq(nm, m, Len(nm))
  BY <1>1, ConsProper, ProperIs
<1> HIDE DEF s
<1>3. ASSUME NEW m \in 1 .. Len(s) PROVE SubSeq(s, m, Len(s)) \in ends[MaxDepth]
  <2>1. CASE m = 1
    BY <2>1, <1>2, SubSeqFull DEF s
  <2>2. CASE m # 1
    <3>1. m - 1 \in 1 .. Len(nm) /\ m - 1 + 1 = m
      BY <1>2, <2>2
    <3>2. SubSeq(s, m, Len(s)) = SubSeq(nm, m - 1, Len(nm))
      BY <1>2, <3>1
    <3> QED BY <1>1, <3>1, <3>2
  <2> QED BY <2>1, <2>2
<1>4. s \in Fine
  BY <1>2, <1>3 DEF Fine
<1> QED BY <1>4 DEF s

\* The names of the language's own types but vectors end at once.
LEMMA OwnEnds ==
    ASSUME iface \in Interfaces, NEW nm \in Proper, Head(nm) \in Intrinsics, Head(nm) # "vector",
           NEW n \in 1 .. MaxDepth
    PROVE  Visited(nm) = <<>> /\ nm \in ends[n]
<1>1. ~IsCompound(nm)
  BY IntrinsicKind DEF IsCompound
<1>2. Visited(nm) = <<>>
  BY <1>1 DEF Visited
<1>3. Range(Visited(nm)) = {}
  BY <1>2 DEF Range
<1>4. n - 1 \in 0 .. MaxDepth - 1 /\ n - 1 + 1 = n
  BY BackendAssumption
<1>5. ends[n] = {x \in Name : Range(Visited(x)) \subseteq ends[n - 1]}
  BY <1>4, EndsAt
<1> QED BY <1>2, <1>3, <1>5, ProperIs

\* A pointer to what is fine is fine, and so is a vector of pointers.
LEMMA FinePointer ==
    ASSUME iface \in Interfaces, NEW nm \in Fine
    PROVE  /\ <<"ptr">> \o nm \in Fine /\ Head(<<"ptr">> \o nm) = "ptr"
           /\ Head(nm) = "ptr" => <<"vector">> \o nm \in Fine
<1>1. "ptr" \in Takers /\ "ptr" \in Intrinsics /\ "vector" \in Takers
  BY DEF Takers, Intrinsics
<1>2. nm \in Proper
  BY FineIs
<1>3. MaxDepth \in 1 .. MaxDepth /\ MaxDepth - 1 \in 1 .. MaxDepth
  BY BackendAssumption
<1> DEFINE p == <<"ptr">> \o nm
           v == <<"vector">> \o nm
<1>4. p \in Proper /\ Head(p) = "ptr"
  BY <1>1, <1>2, ConsProper
<1>5. p \in ends[MaxDepth]
  <2> HIDE DEF p
  <2> QED BY <1>1, <1>3, <1>4, OwnEnds
<1>6. p \in Fine
  BY <1>1, <1>5, FineCons
<1>7. ASSUME Head(nm) = "ptr" PROVE v \in Fine
  <2>1. v \in Proper /\ Head(v) = "vector" /\ Tail(v) = nm
    BY <1>1, <1>2, ConsProper
  <2>2. nm \in ends[MaxDepth - 1]
    BY <1>1, <1>2, <1>3, <1>7, OwnEnds
  <2>3. v \in ends[MaxDepth]
    <3> HIDE DEF v
    <3>1. Visited(v) = <<nm>>
      BY <2>1 DEF Visited
    <3>2. Range(Visited(v)) \subseteq ends[MaxDepth - 1]
      BY <2>2, <3>1 DEF Range
    <3>3. MaxDepth - 1 \in 0 .. MaxDepth - 1 /\ MaxDepth - 1 + 1 = MaxDepth
      BY BackendAssumption
    <3>4. ends[MaxDepth] = {x \in Name : Range(Visited(x)) \subseteq ends[MaxDepth - 1]}
      BY <3>3, EndsAt
    <3> QED BY <2>1, <3>2, <3>4, ProperIs
  <2> QED BY <1>1, <2>3, FineCons
<1> QED BY <1>4, <1>6, <1>7

\* The names that string_view is on the wire.
LEMMA FineString ==
    ASSUME iface \in Interfaces
    PROVE  <<"string">> \in Fine /\ <<"ptr", "string">> \in Fine /\ Head(<<"ptr", "string">>) = "ptr"
<1> DEFINE s == <<"string">>
<1>1. "string" \in Symbols /\ "string" \in Intrinsics
  BY DEF Symbols, Intrinsics
<1>2. s \in Seq(Symbols) /\ Len(s) = 1 /\ s[1] = "string" /\ s # <<>> /\ Head(s) = "string"
  BY <1>1
<1>3. "string" \notin Takers
  BY <1>1, InterfaceIs DEF Takers, OfKinds
<1>4. s \in Proper
  <2> HIDE DEF s
  <2>1. \A k \in 1 .. Len(s) : s[k] = "string" /\ ~(k < Len(s))
    BY <1>2
  <2> QED BY <1>2, <1>3, <2>1, IsProper
<1>5. MaxDepth \in 1 .. MaxDepth
  BY BackendAssumption
<1>6. s \in ends[MaxDepth]
  <2> HIDE DEF s
  <2> QED BY <1>1, <1>2, <1>4, <1>5, OwnEnds
<1>7. s \in Fine
  <2> HIDE DEF s
  <2>1. SubSeq(s, 1, 1) = s
    BY <1>2, SubSeqFull
  <2>2. \A m \in 1 .. Len(s) : m = 1
    BY <1>2
  <2> QED BY <1>2, <1>4, <1>6, <2>1, <2>2 DEF Fine
<1>8. <<"ptr", "string">> = <<"ptr">> \o s
  OBVIOUS
<1> HIDE DEF s
<1>9. <<"ptr">> \o s \in Fine /\ Head(<<"ptr">> \o s) = "ptr"
  BY <1>7, FinePointer
<1> QED BY <1>7, <1>8, <1>9 DEF s

\* Four sequences joined one by one.
LEMMA FourJoined ==
    ASSUME NEW S, NEW a \in Seq(S), NEW b \in Seq(S), NEW c \in Seq(S), NEW d \in Seq(S)
    PROVE  (a \o (b \o c)) \o d = a \o (b \o (c \o d))
<1>1. b \o c \in Seq(S)
  BY ConcatProperties
<1>2. ASSUME NEW e \in Seq(S) PROVE (a \o e) \o d = a \o (e \o d)
  BY ConcatAssociative, Z3
<1>3. (a \o (b \o c)) \o d = a \o ((b \o c) \o d)
  BY <1>1, <1>2, Zenon
<1>4. (b \o c) \o d = b \o (c \o d)
  BY ConcatAssociative, Z3
<1> QED BY <1>3, <1>4, Zenon

\* One pointer to a vector more.
LEMMA PairJoined ==
    ASSUME NEW S, "ptr" \in S, "vector" \in S, NEW q \in Seq(S), NEW x \in Seq(S)
    PROVE  (q \o <<"ptr", "vector">>) \o x = q \o (<<"ptr">> \o (<<"vector">> \o x))
<1>1. <<"ptr">> \in Seq(S) /\ <<"vector">> \in Seq(S)
  OBVIOUS
<1>2. <<"ptr", "vector">> = <<"ptr">> \o <<"vector">>
  OBVIOUS
<1>3. (q \o (<<"ptr">> \o <<"vector">>)) \o x = q \o (<<"ptr">> \o (<<"vector">> \o x))
  BY <1>1, FourJoined, Z3
<1> QED BY <1>2, <1>3, Zenon

\* Pointers to vectors around a name.
LEMMA FinePairs ==
    ASSUME iface \in Interfaces, NEW nm \in Fine, <<"vector">> \o nm \in Fine, NEW n \in Nat \ {0}
    PROVE  LET all == FlattenSeq([k \in 1 .. n |-> <<"ptr", "vector">>]) \o nm
           IN  all \in Fine /\ Head(all) = "ptr"
<1> DEFINE pairs(m) == FlattenSeq([k \in 1 .. m |-> <<"ptr", "vector">>])
           Good(x) == <<"vector">> \o x \in Fine
           pair(x) == <<"ptr">> \o (<<"vector">> \o x)
           T == {m \in Nat : \A x \in Fine : Good(x) =>
                   /\ pairs(m) \o x \in Fine
                   /\ m # 0 \/ Head(x) = "ptr" => Head(pairs(m) \o x) = "ptr"}
<1>1. \A x \in Fine : x \in Seq(Symbols)
  BY FineIs DEF Name
<1>2. pairs(0) = <<>>
  <2>1. [k \in 1 .. 0 |-> <<"ptr", "vector">>] = <<>>
    OBVIOUS
  <2> QED BY <2>1, FlattenEmpty
<1>3. ASSUME NEW m \in Nat
      PROVE  /\ pairs(m) \in Seq(Symbols)
             /\ pairs(m + 1) = pairs(m) \o <<"ptr", "vector">>
  <2> DEFINE sq == [k \in 1 .. m |-> <<"ptr", "vector">>]
             more == [k \in 1 .. m + 1 |-> <<"ptr", "vector">>]
  <2>1. <<"ptr", "vector">> \in Seq(Symbols)
    BY DEF Symbols, Intrinsics
  <2>2. sq \in Seq(Seq(Symbols)) /\ more = Append(sq, <<"ptr", "vector">>)
    BY <2>1
  <2> HIDE DEF sq, more
  <2>3. FlattenSeq(more) = FlattenSeq(sq) \o <<"ptr", "vector">> /\ FlattenSeq(sq) \in Seq(Symbols)
    BY <2>1, <2>2, FlattenAppend, FlattenType
  <2> QED BY <2>3 DEF sq, more
<1> HIDE DEF pairs
<1>4. 0 \in T
  <2>1. ASSUME NEW x \in Fine PROVE pairs(0) \o x = x
    BY <1>1, <1>2, ConcatEmptySeq
  <2> QED BY <2>1, Zenon
<1>5. ASSUME NEW m \in Nat, m \in T PROVE m + 1 \in T
  <2> SUFFICES ASSUME NEW x \in Fine, Good(x)
               PROVE  /\ pairs(m + 1) \o x \in Fine
                      /\ m + 1 # 0 \/ Head(x) = "ptr" => Head(pairs(m + 1) \o x) = "ptr"
    <3>1. m + 1 \in Nat
      OBVIOUS
    <3> QED BY <3>1, Zenon
  <2>1. pair(x) \in Fine /\ Head(pair(x)) = "ptr" /\ Good(pair(x))
    BY FinePointer
  <2>2. pairs(m + 1) \o x = pairs(m) \o pair(x)
    <3>1. "ptr" \in Symbols /\ "vector" \in Symbols
      BY DEF Symbols, Intrinsics
    <3>2. /\ pairs(m) \in Seq(Symbols) /\ x \in Seq(Symbols)
          /\ pairs(m + 1) = pairs(m) \o <<"ptr", "vector">>
      BY <1>1, <1>3
    <3> HIDE DEF T, Good, pairs
    <3>3. (pairs(m) \o <<"ptr", "vector">>) \o x
            = pairs(m) \o (<<"ptr">> \o (<<"vector">> \o x))
      BY <3>1, <3>2, PairJoined, Z3
    <3> QED BY <3>2, <3>3, Zenon
  <2>3. pairs(m) \o pair(x) \in Fine /\ Head(pairs(m) \o pair(x)) = "ptr"
    <3> HIDE DEF pair
    <3> QED BY <1>5, <2>1
  <2> QED BY <2>2, <2>3
<1> HIDE DEF T
<1>6. n \in T
  BY <1>4, <1>5, NatSetInduction
<1> QED BY <1>6 DEF T, pairs

\* The name of a type on the wire is its own or that of a pointer.
LEMMA WireName ==
    ASSUME iface \in Interfaces, NEW nm \in Fine
    PROVE  /\ get_wire_type_name(nm) \in Fine
           /\ get_wire_type_name(nm) = nm \/ Head(get_wire_type_name(nm)) = "ptr"
           /\ Head(nm) = "vector" => Head(get_wire_type_name(nm)) = "ptr"
<1> DEFINE others == {k \in DOMAIN nm : nm[k] # "vector"}
           at == Min(others)
           rest == SubSeq(nm, at, Len(nm))
           wire == CASE Head(rest) = "ptr" -> rest
                     [] Head(rest) = "string_view" -> <<"ptr", "string">>
                     [] OTHER -> IF is_reference_type(rest) THEN <<"ptr">> \o rest ELSE rest
           pairs == FlattenSeq([k \in 1 .. at - 1 |-> <<"ptr", "vector">>])
<1>1. get_wire_type_name(nm) = pairs \o wire
  BY Zenon DEF get_wire_type_name
<1>2. /\ nm \in Proper /\ nm \in Seq(Symbols) /\ Len(nm) \in Nat \ {0} /\ DOMAIN nm = 1 .. Len(nm)
      /\ nm[Len(nm)] # "vector" /\ Head(nm) = nm[1]
  BY FineIs, ProperIs
<1>3. others \subseteq Nat /\ Len(nm) \in others
  BY <1>2
<1>4. at \in others /\ \A k \in others : at <= k
  <2> HIDE DEF others
  <2>1. \E x \in others : \A y \in others : x <= y
    BY <1>3, LeastNat
  <2> QED BY <2>1 DEF Min
<1>5. /\ at \in 1 .. Len(nm) /\ \A k \in 1 .. Len(nm) : k < at => nm[k] = "vector"
      /\ nm[at] # "vector"
  <2>1. at \in DOMAIN nm /\ nm[at] # "vector"
    BY <1>4, Zenon
  <2>2. \A k \in DOMAIN nm : nm[k] # "vector" => at <= k
    BY <1>4, Zenon
  <2> HIDE DEF others, at
  <2>3. at \in 1 .. Len(nm)
    BY <1>2, <2>1
  <2>4. \A k \in 1 .. Len(nm) : k < at => ~ (at <= k)
    BY <1>2, <2>3
  <2> QED BY <1>2, <2>1, <2>2, <2>3, <2>4, Zenon
<1> HIDE DEF others, at
<1>6. rest \in Fine
  BY <1>5, FineSuffix
<1> HIDE DEF rest
<1>7. wire \in Fine /\ (wire = rest \/ Head(wire) = "ptr")
  <2>1. <<"ptr">> \o rest \in Fine /\ Head(<<"ptr">> \o rest) = "ptr"
    BY <1>6, FinePointer
  <2> QED BY <1>6, <2>1, FineString
<1> HIDE DEF wire
<1>8. wire \in Seq(Symbols)
  BY <1>7, FineIs DEF Name
<1>9. CASE at = 1
  <2>1. pairs = <<>>
    <3>1. [k \in 1 .. at - 1 |-> <<"ptr", "vector">>] = <<>>
      BY <1>9
    <3> QED BY <3>1, FlattenEmpty
  <2>2. pairs \o wire = wire
    BY <1>8, <2>1, ConcatEmptySeq
  <2>3. rest = nm
    BY <1>2, <1>9, SubSeqFull DEF rest
  <2>4. Head(nm) # "vector"
    <3>1. nm[1] # "vector"
      BY <1>5, <1>9
    <3> QED BY <1>2, <3>1
  <2>5. get_wire_type_name(nm) = wire /\ (wire = nm \/ Head(wire) = "ptr") /\ wire \in Fine
    BY <1>1, <1>7, <2>2, <2>3
  <2> QED BY <2>4, <2>5
<1>10. CASE at # 1
  <2>1. at - 1 \in Nat \ {0} /\ at - 1 \in 1 .. Len(nm) /\ Len(nm) \in at - 1 .. Len(nm)
    BY <1>5, <1>10
  <2>2. <<"vector">> \o wire \in Fine
    <3>1. CASE wire = rest
      <4>1. SubSeq(nm, at - 1, Len(nm)) = <<nm[at - 1]>> \o SubSeq(nm, at - 1 + 1, Len(nm))
        BY <1>2, <2>1, SubSeqRecursiveFirst
      <4>2. nm[at - 1] = "vector" /\ at - 1 + 1 = at
        BY <1>5, <2>1
      <4>3. <<"vector">> \o wire = SubSeq(nm, at - 1, Len(nm))
        BY <3>1, <4>1, <4>2 DEF rest
      <4> QED BY <2>1, <4>3, FineSuffix
    <3>2. CASE Head(wire) = "ptr"
      BY <1>7, <3>2, FinePointer
    <3> QED BY <1>7, <3>1, <3>2
  <2>3. pairs \o wire \in Fine /\ Head(pairs \o wire) = "ptr"
    BY <1>7, <2>1, <2>2, FinePairs
  <2> QED BY <1>1, <2>3
<1> QED BY <1>9, <1>10

\* What the declarations use is fine: they are names, and those end.
LEMMA NamesFine ==
    ASSUME iface \in Interfaces, Names \subseteq ends[MaxDepth]
    PROVE  Names \subseteq Fine
<1> DEFINE used == (UNION {Range(iface.decl[s].members) : s \in DOMAIN iface.decl}) \ {<<"T">>}
           own  == {<<s>> : s \in {t \in DOMAIN iface.decl : Kind(t) \notin Generics}}
<1>1. Names = own \union UNION {Range(NestedNames(nm)) : nm \in used}
  BY Zenon DEF Names
<1>2. ASSUME NEW x \in own PROVE x \in Fine
  <2>1. PICK s \in DOMAIN iface.decl : Kind(s) \notin Generics /\ x = <<s>>
    BY <1>2
  <2>2. x \in Seq(Symbols) /\ x # <<>> /\ Len(x) = 1 /\ x[Len(x)] = s
    BY <2>1 DEF Symbols
  <2>3. s \notin Takers
    BY <2>1, InterfaceIs DEF Takers, OfKinds, Intrinsics
  <2>4. x \in Proper
    <3>1. \A k \in 1 .. Len(x) : x[k] = s /\ ~(k < Len(x))
      BY <2>2
    <3> QED BY <2>2, <2>3, <3>1, IsProper
  <2>5. x \in ends[MaxDepth]
    BY <1>1, <1>2
  <2>6. \A k \in 1 .. Len(x) : SubSeq(x, k, Len(x)) = x
    BY <2>2, SubSeqFull
  <2> QED BY <2>4, <2>5, <2>6 DEF Fine
<1>3. used \subseteq Proper
  <2> SUFFICES ASSUME NEW s \in DOMAIN iface.decl, NEW m \in Range(iface.decl[s].members),
                      m # <<"T">>
               PROVE  m \in Proper
    BY Zenon
  <2>1. iface.decl[s].members \in Seq(Proper \union IF Kind(s) \in Generics THEN {<<"T">>} ELSE {})
    BY InterfaceIs
  <2>2. m \in Proper \union IF Kind(s) \in Generics THEN {<<"T">>} ELSE {}
    BY <2>1, RangeOfSeq
  <2> QED BY <2>2
<1> HIDE DEF used, own
<1>4. ASSUME NEW nm \in used, NEW x \in Range(NestedNames(nm)) PROVE x \in Fine
  <2>1. nm \in Proper
    BY <1>3
  <2>2. PICK k \in 1 .. Len(nm) : x = SubSeq(nm, k, Len(nm))
    BY <2>1, NestedAre
  <2>3. \A m \in 1 .. Len(nm) : SubSeq(nm, m, Len(nm)) \in ends[MaxDepth]
    <3>1. Range(NestedNames(nm)) \subseteq Names
      BY <1>1
    <3> QED BY <2>1, <3>1, NestedAre
  <2>4. nm \in Fine
    BY <2>1, <2>3 DEF Fine
  <2> QED BY <2>2, <2>4, FineSuffix
<1> QED BY <1>1, <1>2, <1>4

\* Declared members are fine, or the parameter of their generic.
LEMMA DeclaredFine ==
    ASSUME iface \in Interfaces, Names \subseteq ends[MaxDepth], NEW s \in DOMAIN iface.decl
    PROVE  iface.decl[s].members \in Seq(Fine \union IF Kind(s) \in Generics THEN {<<"T">>} ELSE {})
<1> DEFINE X == IF Kind(s) \in Generics THEN {<<"T">>} ELSE {}
           mem == iface.decl[s].members
<1>1. mem \in Seq(Proper \union X)
  BY InterfaceIs
<1>2. ASSUME NEW m \in Range(mem), m \in Proper PROVE m \in Fine
  <2>1. CASE m = <<"T">>
    <3>1. "T" \in Symbols /\ "T" \notin Intrinsics /\ Kind("T") \notin Generics
      <4>1. Len(m) = 1 /\ m[1] = "T"
        BY <2>1
      <4>2. m[1] \in Symbols /\ Kind(m[1]) \notin Generics
        BY <1>2, <4>1, ProperIs
      <4> QED BY <4>1, <4>2 DEF Intrinsics
    <3>2. "T" \in DOMAIN iface.decl
      BY <3>1 DEF Symbols
    <3>3. m \in Names
      BY <2>1, <3>1, <3>2 DEF Names
    <3> QED BY <3>3, NamesFine
  <2>2. CASE m # <<"T">>
    <3>1. m \in Range(NestedNames(m))
      <4>1. 1 \in 1 .. Len(m) /\ SubSeq(m, 1, Len(m)) = m
        BY <1>2, ProperIs, SubSeqFull
      <4> QED BY <1>2, <4>1, NestedAre
    <3>2. m \in (UNION {Range(iface.decl[t].members) : t \in DOMAIN iface.decl}) \ {<<"T">>}
      BY <1>2, <2>2, Zenon
    <3>3. m \in Names
      BY <3>1, <3>2, Zenon DEF Names
    <3> QED BY <3>3, NamesFine
  <2> QED BY <2>1, <2>2
<1>3. mem \in [1 .. Len(mem) -> Proper \union X] /\ Len(mem) \in Nat /\ DOMAIN mem = 1 .. Len(mem)
  BY <1>1, LenProperties
<1> HIDE DEF X, mem
<1>4. \A k \in 1 .. Len(mem) : mem[k] \in Fine \union X
  BY <1>2, <1>3 DEF Range
<1>5. mem \in [1 .. Len(mem) -> Fine \union X]
  BY <1>3, <1>4
<1>6. mem \in Seq(Fine \union X)
  BY <1>3, <1>5, SeqDef
<1> QED BY <1>6 DEF X, mem

\* A compound is declared.
LEMMA CompoundDeclared ==
    ASSUME iface \in Interfaces, NEW nm \in Fine, IsCompound(nm)
    PROVE  Head(nm) \in DOMAIN iface.decl
<1>1. Head(nm) \in Symbols
  BY FineIs, ProperIs
<1>2. Head(nm) \notin Intrinsics
  BY IntrinsicKind DEF IsCompound
<1> QED BY <1>1, <1>2 DEF Symbols

\* With the parameter substituted they are fine.
LEMMA TypesFine ==
    ASSUME iface \in Interfaces, Names \subseteq ends[MaxDepth], NEW nm \in Fine,
           Head(nm) \in DOMAIN iface.decl
    PROVE  Types(nm) \in Seq(Fine)
<1> DEFINE X == IF Kind(Head(nm)) \in Generics THEN {<<"T">>} ELSE {}
           decl == iface.decl[Head(nm)]
           mem == decl.members
<1>1. mem \in Seq(Fine \union X)
  BY DeclaredFine
<1>2. decl.kind = Kind(Head(nm))
  BY InterfaceIs
<1>3. Types(nm) = [n \in DOMAIN mem |->
                      IF decl.kind \in Generics /\ mem[n] = <<"T">> THEN Tail(nm) ELSE mem[n]]
  BY Zenon DEF Types
<1>4. Len(mem) \in Nat /\ DOMAIN mem = 1 .. Len(mem) /\ \A n \in 1 .. Len(mem) : mem[n] \in Fine \union X
  BY <1>1, LenProperties
<1>5. Kind(Head(nm)) \in Generics => Tail(nm) \in Fine
  <2> SUFFICES ASSUME Kind(Head(nm)) \in Generics PROVE Tail(nm) \in Fine
    OBVIOUS
  <2>1. nm \in Proper /\ Len(nm) > 1
    BY FineIs, HasArgument
  <2> QED BY <2>1, TailProper, FineSuffix
<1> HIDE DEF decl, mem
<1>6. \A n \in 1 .. Len(mem) :
        (IF decl.kind \in Generics /\ mem[n] = <<"T">> THEN Tail(nm) ELSE mem[n]) \in Fine
  BY <1>2, <1>4, <1>5
<1>7. Types(nm) \in [1 .. Len(mem) -> Fine]
  BY <1>3, <1>4, <1>6
<1> QED BY <1>4, <1>7, SeqDef

\* So are the wire types of a procedure's parameters and results.
LEMMA MembersFine ==
    ASSUME iface \in Interfaces, Names \subseteq ends[MaxDepth], NEW nm \in Fine,
           Head(nm) \in DOMAIN iface.decl
    PROVE  Members(nm) \in Seq(Fine)
<1>1. Types(nm) \in Seq(Fine)
  BY TypesFine
<1>2. /\ Len(Types(nm)) \in Nat /\ DOMAIN Types(nm) = 1 .. Len(Types(nm))
      /\ \A n \in 1 .. Len(Types(nm)) : Types(nm)[n] \in Fine
  BY <1>1, LenProperties
<1>3. \A n \in 1 .. Len(Types(nm)) : get_wire_type_name(Types(nm)[n]) \in Fine
  BY <1>2, WireName
<1>4. [n \in DOMAIN Types(nm) |-> get_wire_type_name(Types(nm)[n])] \in [1 .. Len(Types(nm)) -> Fine]
  BY <1>2, <1>3
<1>5. [n \in DOMAIN Types(nm) |-> get_wire_type_name(Types(nm)[n])] \in Seq(Fine)
  BY <1>2, <1>4, SeqDef
<1> QED BY <1>1, <1>5 DEF Members

\* category looks at members only, and at all when none before the last is a reference.
LEMMA UpToFine ==
    ASSUME NEW S, NEW mem \in Seq(S)
    PROVE  /\ UpToReference(mem) \in Seq(S)
           /\ Range(UpToReference(mem)) \subseteq Range(mem)
           /\ (\A n \in DOMAIN mem : \A k \in 1 .. n - 1 : ~is_reference_type(mem[k]))
                 => Range(UpToReference(mem)) = Range(mem)
<1> DEFINE Before(n) == \A k \in 1 .. n - 1 : ~is_reference_type(mem[k])
           sq == [n \in DOMAIN mem |-> IF Before(n) THEN <<mem[n]>> ELSE <<>>]
<1>1. UpToReference(mem) = FlattenSeq(sq)
  BY Zenon DEF UpToReference
<1>2. Len(mem) \in Nat /\ DOMAIN mem = 1 .. Len(mem) /\ \A n \in 1 .. Len(mem) : mem[n] \in S
  BY LenProperties
<1> HIDE DEF Before
<1>3. \A n \in 1 .. Len(mem) : <<mem[n]>> \in Seq(S) /\ <<>> \in Seq(S)
  BY <1>2
<1>4. sq \in [1 .. Len(mem) -> Seq(S)]
  BY <1>2, <1>3
<1>5. FlattenSeq(sq) \in Seq(S) /\ Range(FlattenSeq(sq)) = UNION {Range(sq[n]) : n \in 1 .. Len(mem)}
  BY <1>2, <1>4, FlattenMap
<1>6. \A n \in 1 .. Len(mem) : Range(sq[n]) = IF Before(n) THEN {mem[n]} ELSE {}
  <2>1. ASSUME NEW x PROVE Range(<<x>>) = {x}
    BY DEF Range
  <2>2. Range(<<>>) = {}
    BY DEF Range
  <2>3. \A n \in 1 .. Len(mem) : sq[n] = IF Before(n) THEN <<mem[n]>> ELSE <<>>
    BY <1>2, Zenon
  <2> HIDE DEF sq
  <2> SUFFICES ASSUME NEW n \in 1 .. Len(mem)
               PROVE  Range(sq[n]) = IF Before(n) THEN {mem[n]} ELSE {}
    BY Zenon
  <2>4. CASE Before(n)
    BY <2>1, <2>3, <2>4, Zenon
  <2>5. CASE ~Before(n)
    BY <2>2, <2>3, <2>5, Zenon
  <2> QED BY <2>4, <2>5
<1>7. Range(mem) = {mem[n] : n \in 1 .. Len(mem)}
  BY <1>2 DEF Range
<1> HIDE DEF sq
<1>8. Range(FlattenSeq(sq)) \subseteq Range(mem)
  <2> SUFFICES ASSUME NEW x \in Range(FlattenSeq(sq)) PROVE x \in Range(mem)
    OBVIOUS
  <2>1. PICK n \in 1 .. Len(mem) : x \in Range(sq[n])
    BY <1>5, Zenon
  <2>2. x = mem[n]
    BY <1>6, <2>1
  <2> QED BY <1>7, <2>2
<1>9. (\A n \in 1 .. Len(mem) : Before(n)) => Range(mem) \subseteq Range(FlattenSeq(sq))
  <2> SUFFICES ASSUME \A n \in 1 .. Len(mem) : Before(n), NEW x \in Range(mem)
               PROVE  x \in Range(FlattenSeq(sq))
    OBVIOUS
  <2>1. PICK n \in 1 .. Len(mem) : x = mem[n]
    BY <1>7
  <2>2. x \in Range(sq[n])
    BY <1>6, <2>1
  <2> QED BY <1>5, <2>2, Zenon
<1> QED BY <1>1, <1>2, <1>5, <1>8, <1>9 DEF Before

\* What a category looks at is fine.
LEMMA VisitedFine ==
    ASSUME iface \in Interfaces, Names \subseteq ends[MaxDepth], NEW nm \in Fine
    PROVE  Visited(nm) \in Seq(Fine)
<1>1. CASE Head(nm) = "vector"
  <2>1. Tail(nm) \in Fine
    BY <1>1, FineIs, HasArgument, TailProper, FineSuffix
  <2>2. Visited(nm) = <<Tail(nm)>>
    BY <1>1 DEF Visited
  <2> QED BY <2>1, <2>2
<1>2. CASE Head(nm) # "vector" /\ IsCompound(nm)
  <2>1. Visited(nm) = UpToReference(Members(nm))
    BY <1>2 DEF Visited
  <2>2. Members(nm) \in Seq(Fine)
    BY <1>2, CompoundDeclared, MembersFine
  <2> QED BY <2>1, <2>2, UpToFine
<1>3. CASE Head(nm) # "vector" /\ ~IsCompound(nm)
  BY <1>3 DEF Visited
<1> QED BY <1>1, <1>2, <1>3

\* What is looked up at each level.
LEMMA WiredRange ==
    ASSUME iface \in Interfaces, Names \subseteq ends[MaxDepth]
    PROVE  \A n \in 0 .. MaxDepth : \A nm \in Fine :
              /\ wired[n][nm] \in Seq(Fine)
              /\ n = 0 => wired[n][nm] = <<>>
              /\ n # 0 => Range(wired[n][nm]) =
                             Range(Resolved(nm))
                             \union (UNION {Range(wired[n - 1][v]) : v \in Range(Visited(nm))})
                             \union Range(Pointer(nm))
<1> DEFINE Typed(n) == \A nm \in Fine : wired[n][nm] \in Seq(Fine)
           T == {n \in Nat : n <= MaxDepth => Typed(n)}
           Looked(n, nm) == [k \in DOMAIN Visited(nm) |-> wired[n][Visited(nm)[k]]]
<1>0. MaxDepth \in Nat
  BY BackendAssumption
<1>1. ASSUME NEW nm \in Fine
      PROVE  /\ Resolved(nm) \in Seq(Fine) /\ Pointer(nm) \in Seq(Fine)
             /\ Len(Visited(nm)) \in Nat /\ DOMAIN Visited(nm) = 1 .. Len(Visited(nm))
             /\ \A k \in 1 .. Len(Visited(nm)) : Visited(nm)[k] \in Fine
  <2>1. get_wire_type_name(nm) \in Fine
    BY WireName
  <2>2. Resolved(nm) \in Seq(Fine)
    BY DEF Resolved
  <2>3. Pointer(nm) \in Seq(Fine)
    BY <2>1 DEF Pointer
  <2> QED BY <2>2, <2>3, VisitedFine, LenProperties
<1>2. ASSUME NEW n \in 0 .. MaxDepth, NEW nm \in Fine
      PROVE  /\ n = 0 => wired[n][nm] = <<>>
             /\ n # 0 => wired[n][nm] = Resolved(nm) \o FlattenSeq(Looked(n - 1, nm)) \o Pointer(nm)
  <2> DEFINE Level(x) ==
               IF n = 0 THEN <<>>
               ELSE Resolved(x)
                    \o FlattenSeq([k \in DOMAIN Visited(x) |-> wired[n - 1][Visited(x)[k]]])
                    \o Pointer(x)
  <2>1. nm \in Name
    BY FineIs
  <2>2. wired[n] = [x \in Name |-> Level(x)]
    BY WiredIs, Zenon
  <2> HIDE DEF Level
  <2>3. wired[n][nm] = Level(nm)
    BY <2>1, <2>2, Zenon
  <2> QED BY <2>3, Zenon DEF Level
<1>3. ASSUME NEW n \in 1 .. MaxDepth, NEW nm \in Fine, Typed(n - 1)
      PROVE  /\ wired[n][nm] \in Seq(Fine)
             /\ Range(wired[n][nm]) =
                             Range(Resolved(nm))
                             \union (UNION {Range(wired[n - 1][v]) : v \in Range(Visited(nm))})
                             \union Range(Pointer(nm))
  <2> DEFINE v == Visited(nm)
             m == n - 1
             sq == Looked(m, nm)
             begin == Resolved(nm) \o FlattenSeq(sq)
  <2>0. Len(v) \in Nat /\ DOMAIN v = 1 .. Len(v) /\ Typed(m) /\ \A k \in 1 .. Len(v) : v[k] \in Fine
    BY <1>1, <1>3
  <2>1. wired[n][nm] = begin \o Pointer(nm)
    <3>1. n \in 0 .. MaxDepth /\ n # 0
      BY <1>0
    <3> QED BY <1>2, <3>1, Zenon
  <2>2. sq = [k \in DOMAIN v |-> wired[m][v[k]]]
    BY Zenon
  <2> HIDE DEF m, sq, v
  <2>3. sq \in [1 .. Len(v) -> Seq(Fine)] /\ \A k \in 1 .. Len(v) : sq[k] = wired[m][v[k]]
    BY <2>0, <2>2
  <2>4. /\ FlattenSeq(sq) \in Seq(Fine)
        /\ Range(FlattenSeq(sq)) = UNION {Range(sq[k]) : k \in 1 .. Len(v)}
    <3> DEFINE len == Len(v)
    <3>1. len \in Nat /\ sq \in [1 .. len -> Seq(Fine)]
      BY <2>0, <2>3
    <3> HIDE DEF len
    <3>2. /\ FlattenSeq(sq) \in Seq(Fine)
          /\ Range(FlattenSeq(sq)) = UNION {Range(sq[k]) : k \in 1 .. len}
      BY <3>1, FlattenMap
    <3> QED BY <3>2 DEF len
  <2>5. begin \in Seq(Fine) /\ Range(begin) = Range(Resolved(nm)) \union Range(FlattenSeq(sq))
    BY <1>1, <2>4, ConcatProperties, RangeConcatenation
  <2> HIDE DEF begin
  <2>6. wired[n][nm] \in Seq(Fine) /\ Range(wired[n][nm]) = Range(begin) \union Range(Pointer(nm))
    BY <1>1, <2>1, <2>5, ConcatProperties, RangeConcatenation
  <2>7. Range(FlattenSeq(sq)) = UNION {Range(wired[m][x]) : x \in Range(v)}
    <3>1. Range(v) = {v[k] : k \in 1 .. Len(v)}
      BY <2>0 DEF Range
    <3>2. \A z : z \in Range(FlattenSeq(sq)) <=> \E k \in 1 .. Len(v) : z \in Range(sq[k])
      BY <2>4, Zenon
    <3>3. \A z : (\E k \in 1 .. Len(v) : z \in Range(sq[k]))
                   <=> \E x \in Range(v) : z \in Range(wired[m][x])
      BY <2>3, <3>1, Zenon
    <3> QED BY <3>2, <3>3, Zenon
  <2>8. Range(wired[n][nm]) = Range(Resolved(nm))
                              \union (UNION {Range(wired[m][x]) : x \in Range(v)})
                              \union Range(Pointer(nm))
    BY <2>5, <2>6, <2>7, Zenon
  <2> QED BY <2>6, <2>8, Zenon DEF m, v
<1>4. 0 \in T
  <2>1. <<>> \in Seq(Fine) /\ 0 \in 0 .. MaxDepth
    BY <1>0
  <2> QED BY <1>2, <2>1
<1>5. ASSUME NEW n \in Nat, n \in T PROVE n + 1 \in T
  <2> SUFFICES ASSUME n + 1 <= MaxDepth PROVE Typed(n + 1)
    OBVIOUS
  <2> DEFINE m == n + 1
  <2>1. m \in 1 .. MaxDepth /\ m - 1 = n /\ Typed(n)
    BY <1>0, <1>5
  <2> HIDE DEF m, Typed
  <2>2. Typed(m)
    BY <1>3, <2>1 DEF Typed
  <2> QED BY <2>2 DEF m
<1> HIDE DEF T
<1>6. Nat \subseteq T
  BY <1>4, <1>5, NatSetInduction
<1>7. \A n \in 0 .. MaxDepth : Typed(n)
  BY <1>0, <1>6 DEF T
<1> HIDE DEF Typed, Looked
<1> SUFFICES ASSUME NEW n \in 0 .. MaxDepth, NEW nm \in Fine
             PROVE  /\ wired[n][nm] \in Seq(Fine)
                    /\ n = 0 => wired[n][nm] = <<>>
                    /\ n # 0 => Range(wired[n][nm]) =
                             Range(Resolved(nm))
                             \union (UNION {Range(wired[n - 1][v]) : v \in Range(Visited(nm))})
                             \union Range(Pointer(nm))
  BY Zenon
<1>8. CASE n = 0
  BY <1>2, <1>7, <1>8 DEF Typed
<1>9. CASE n # 0
  <2>1. n \in 1 .. MaxDepth /\ n - 1 \in 0 .. MaxDepth
    BY <1>0, <1>9
  <2>2. Typed(n - 1)
    BY <1>7, <2>1
  <2> QED BY <1>3, <1>9, <2>1, <2>2, Zenon
<1> QED BY <1>8, <1>9

\* A name that ends in n steps has all its calls after n.
LEMMA WiredStable ==
    ASSUME iface \in Interfaces, Names \subseteq ends[MaxDepth]
    PROVE  \A nm \in Fine \intersect ends[MaxDepth - 1] :
              Range(wired[MaxDepth][nm]) = Range(wired[MaxDepth - 1][nm])
<1> DEFINE Same(n) == \A nm \in Fine \intersect ends[n] :
                         Range(wired[n + 1][nm]) = Range(wired[n][nm])
           T == {n \in Nat : n < MaxDepth => Same(n)}
<1>0. MaxDepth \in Nat /\ MaxDepth >= 2
  BY BackendAssumption
<1>1. 0 \in T
  BY <1>0, EndsAt
<1>2. ASSUME NEW n \in Nat, n \in T PROVE n + 1 \in T
  <2> DEFINE m == n + 1
             r == n + 1 + 1
  <2> SUFFICES ASSUME m < MaxDepth, NEW nm \in Fine, nm \in ends[m]
               PROVE  Range(wired[r][nm]) = Range(wired[m][nm])
    OBVIOUS
  <2>1. /\ m \in 0 .. MaxDepth /\ r \in 0 .. MaxDepth /\ n \in 0 .. MaxDepth - 1
        /\ m # 0 /\ r # 0 /\ m - 1 = n /\ r - 1 = m /\ n < MaxDepth
    BY <1>0
  <2>2. Same(n)
    BY <1>2, <2>1
  <2>3. ends[m] = {x \in Name : Range(Visited(x)) \subseteq ends[n]}
    BY <2>1, EndsAt
  <2>4. \A v \in Range(Visited(nm)) : v \in Fine /\ v \in ends[n]
    BY <2>3, VisitedFine, RangeOfSeq
  <2>5. \A v \in Range(Visited(nm)) : Range(wired[m][v]) = Range(wired[n][v])
    BY <2>2, <2>4
  <2> HIDE DEF m, r, Same
  <2>6. Range(wired[m][nm]) = Range(Resolved(nm))
                              \union (UNION {Range(wired[n][v]) : v \in Range(Visited(nm))})
                              \union Range(Pointer(nm))
    <3>1. Range(wired[m][nm]) = Range(Resolved(nm))
                              \union (UNION {Range(wired[m - 1][v]) : v \in Range(Visited(nm))})
                              \union Range(Pointer(nm))
      BY <2>1, WiredRange, Zenon
    <3> QED BY <2>1, <3>1, Zenon
  <2>7. Range(wired[r][nm]) = Range(Resolved(nm))
                              \union (UNION {Range(wired[m][v]) : v \in Range(Visited(nm))})
                              \union Range(Pointer(nm))
    <3>1. Range(wired[r][nm]) = Range(Resolved(nm))
                              \union (UNION {Range(wired[r - 1][v]) : v \in Range(Visited(nm))})
                              \union Range(Pointer(nm))
      BY <2>1, WiredRange, Zenon
    <3> QED BY <2>1, <3>1, Zenon
  <2>8. {Range(wired[m][v]) : v \in Range(Visited(nm))} = {Range(wired[n][v]) : v \in Range(Visited(nm))}
    BY <2>5
  <2> QED BY <2>6, <2>7, <2>8
<1> HIDE DEF T
<1>3. MaxDepth - 1 \in T /\ MaxDepth - 1 < MaxDepth /\ MaxDepth - 1 + 1 = MaxDepth
  BY <1>0, <1>1, <1>2, NatSetInduction
<1> QED BY <1>3 DEF T

\* wire_calls is the function that the code has, which knows no levels.
LEMMA WireCallsAre ==
    ASSUME iface \in Interfaces, Names \subseteq ends[MaxDepth], NEW nm \in Fine
    PROVE  /\ wire_calls(nm) \in Seq(Fine)
           /\ Range(Visited(nm)) \subseteq Fine
           /\ Range(wire_calls(nm)) = Range(Resolved(nm))
                                      \union (UNION {Range(wire_calls(v)) : v \in Range(Visited(nm))})
                                      \union Range(Pointer(nm))
<1>0. /\ MaxDepth \in 0 .. MaxDepth /\ MaxDepth # 0 /\ MaxDepth - 1 \in 0 .. MaxDepth - 1
      /\ MaxDepth - 1 + 1 = MaxDepth
  BY BackendAssumption
<1>1. nm \in ends[MaxDepth]
  BY FineIs
<1>2. ends[MaxDepth] = {x \in Name : Range(Visited(x)) \subseteq ends[MaxDepth - 1]}
  BY <1>0, EndsAt
<1>3. Range(Visited(nm)) \subseteq Fine
  BY VisitedFine, RangeOfSeq
<1>4. \A v \in Range(Visited(nm)) : Range(wired[MaxDepth - 1][v]) = Range(wire_calls(v))
  BY <1>1, <1>2, <1>3, WiredStable DEF wire_calls
<1>5. /\ wired[MaxDepth][nm] \in Seq(Fine)
      /\ Range(wired[MaxDepth][nm]) =
             Range(Resolved(nm))
             \union (UNION {Range(wired[MaxDepth - 1][v]) : v \in Range(Visited(nm))})
             \union Range(Pointer(nm))
  BY <1>0, WiredRange
<1>6. {Range(wired[MaxDepth - 1][v]) : v \in Range(Visited(nm))}
         = {Range(wire_calls(v)) : v \in Range(Visited(nm))}
  BY <1>4
<1>7. wired[MaxDepth][nm] = wire_calls(nm)
  BY DEF wire_calls
<1> HIDE DEF wire_calls
<1> QED BY <1>3, <1>5, <1>6, <1>7

\* category_calls is the function the code has, and part of what wire_calls gives.
LEMMA CategoryCallsAre ==
    ASSUME iface \in Interfaces, Names \subseteq ends[MaxDepth], NEW nm \in Fine
    PROVE  /\ category_calls(nm) \in Seq(Fine)
           /\ Range(category_calls(nm)) =
                 IF IsCompound(nm) THEN UNION {Range(wire_calls(v)) : v \in Range(Visited(nm))} ELSE {}
           /\ Range(category_calls(nm)) \subseteq Range(wire_calls(nm))
<1> DEFINE v == Visited(nm)
           len == Len(v)
           sq == [k \in DOMAIN v |-> wire_calls(v[k])]
<1>1. len \in Nat /\ DOMAIN v = 1 .. len /\ Range(v) = {v[k] : k \in 1 .. len}
  BY VisitedFine, LenProperties, RangeEquality
<1>2. \A k \in 1 .. len : wire_calls(v[k]) \in Seq(Fine)
  BY VisitedFine, ElementOfSeq, WireCallsAre
<1> HIDE DEF v, len
<1>3. sq \in [1 .. len -> Seq(Fine)] /\ \A k \in 1 .. len : sq[k] = wire_calls(v[k])
  BY <1>1, <1>2
<1>4. category_calls(nm) = IF IsCompound(nm) THEN FlattenSeq(sq) ELSE <<>>
  BY Zenon DEF category_calls, v
<1> HIDE DEF sq
<1>5. FlattenSeq(sq) \in Seq(Fine) /\ Range(FlattenSeq(sq)) = UNION {Range(sq[k]) : k \in 1 .. len}
  BY <1>1, <1>3, FlattenMap
<1>6. UNION {Range(sq[k]) : k \in 1 .. len} = UNION {Range(wire_calls(x)) : x \in Range(v)}
  <2>1. \A z : (\E k \in 1 .. len : z \in Range(sq[k])) <=> \E x \in Range(v) : z \in Range(wire_calls(x))
    BY <1>1, <1>3, Zenon
  <2> QED BY <2>1, Zenon
<1>7. <<>> \in Seq(Fine) /\ Range(<<>>) = {}
  BY DEF Range
<1>8. category_calls(nm) \in Seq(Fine)
  BY <1>4, <1>5, <1>7
<1>9. Range(category_calls(nm)) =
         IF IsCompound(nm) THEN UNION {Range(wire_calls(x)) : x \in Range(v)} ELSE {}
  <2>1. CASE IsCompound(nm)
    BY <1>4, <1>5, <1>6, <2>1, Zenon
  <2>2. CASE ~IsCompound(nm)
    BY <1>4, <1>7, <2>2, Zenon
  <2> QED BY <2>1, <2>2
<1>10. (UNION {Range(wire_calls(x)) : x \in Range(v)}) \subseteq Range(wire_calls(nm))
  BY WireCallsAre DEF v
<1>11. Range(category_calls(nm)) \subseteq Range(wire_calls(nm))
  BY <1>9, <1>10
<1> QED BY <1>8, <1>9, <1>11, Zenon DEF v

\* Names of which each has with it what its category asks for.
Closed(names) == names \subseteq Fine /\ \A x \in names : Range(category_calls(x)) \subseteq names

\* Sets that are closed are closed together.
LEMMA ClosedUnion ==
    ASSUME NEW sets, \A names \in sets : Closed(names)
    PROVE  Closed(UNION sets)
<1> SUFFICES ASSUME NEW x \in UNION sets
             PROVE  x \in Fine /\ Range(category_calls(x)) \subseteq UNION sets
  BY DEF Closed
<1>1. PICK names \in sets : x \in names
  OBVIOUS
<1>2. Closed(names)
  OBVIOUS
<1> QED BY <1>1, <1>2 DEF Closed

\* Whoever asks for a wire type asks for the categories of all that it looks up.
LEMMA WireCallsClosed ==
    ASSUME iface \in Interfaces, Names \subseteq ends[MaxDepth], NEW nm \in Fine
    PROVE  Closed(Range(wire_calls(nm)))
<1> DEFINE Good(n) == \A x \in Fine \intersect ends[n] : Closed(Range(wire_calls(x)))
           T == {n \in Nat : n <= MaxDepth => Good(n)}
<1>0. MaxDepth \in Nat /\ MaxDepth >= 2
  BY BackendAssumption
<1>1. 0 \in T
  BY <1>0, EndsAt
<1>2. ASSUME NEW n \in Nat, n \in T PROVE n + 1 \in T
  <2> SUFFICES ASSUME n + 1 <= MaxDepth, NEW x \in Fine, x \in ends[n + 1]
               PROVE  Closed(Range(wire_calls(x)))
    OBVIOUS
  <2>1. n \in 0 .. MaxDepth - 1 /\ n <= MaxDepth
    BY <1>0
  <2>2. Good(n)
    BY <1>2, <2>1
  <2>3. ends[n + 1] = {z \in Name : Range(Visited(z)) \subseteq ends[n]}
    BY <2>1, EndsAt
  <2>4. /\ wire_calls(x) \in Seq(Fine)
        /\ Range(Visited(x)) \subseteq Fine
        /\ Range(wire_calls(x)) = Range(Resolved(x))
                                  \union (UNION {Range(wire_calls(v)) : v \in Range(Visited(x))})
                                  \union Range(Pointer(x))
    BY WireCallsAre
  <2>5. \A v \in Range(Visited(x)) : Closed(Range(wire_calls(v)))
    BY <2>2, <2>3, <2>4
  <2>6. Range(wire_calls(x)) \subseteq Fine
    BY <2>4, RangeOfSeq
  <2>7. ASSUME NEW z \in Range(wire_calls(x)) PROVE Range(category_calls(z)) \subseteq Range(wire_calls(x))
    <3>1. CASE z \in Range(Resolved(x))
      <4>1. z = x
        BY <3>1 DEF Resolved, Range
      <4> QED BY <4>1, CategoryCallsAre
    <3>2. ASSUME NEW v \in Range(Visited(x)), z \in Range(wire_calls(v))
          PROVE  Range(category_calls(z)) \subseteq Range(wire_calls(x))
      <4>1. Range(category_calls(z)) \subseteq Range(wire_calls(v))
        BY <2>5, <3>2 DEF Closed
      <4>2. Range(wire_calls(v)) \subseteq Range(wire_calls(x))
        BY <2>4, Zenon
      <4> QED BY <4>1, <4>2
    <3>3. CASE z \in Range(Pointer(x))
      <4>1. z = get_wire_type_name(x) /\ z # x
        BY <3>3 DEF Pointer, Range
      <4>2. z \in Fine /\ Head(z) = "ptr"
        BY <4>1, WireName
      <4>3. ~IsCompound(z)
        BY <4>2, IntrinsicKind DEF IsCompound, Intrinsics
      <4> QED BY <4>2, <4>3, CategoryCallsAre
    <3>4. \/ z \in Range(Resolved(x)) \/ z \in Range(Pointer(x))
          \/ \E v \in Range(Visited(x)) : z \in Range(wire_calls(v))
      BY <2>4
    <3> QED BY <3>1, <3>2, <3>3, <3>4
  <2> QED BY <2>6, <2>7 DEF Closed
<1> HIDE DEF T
<1>3. MaxDepth \in T
  BY <1>0, <1>1, <1>2, NatSetInduction
<1>4. nm \in ends[MaxDepth]
  BY FineIs
<1> QED BY <1>0, <1>3, <1>4 DEF T

\* So does whoever asks for a category.
LEMMA CategoryClosed ==
    ASSUME iface \in Interfaces, Names \subseteq ends[MaxDepth], NEW nm \in Fine
    PROVE  Closed(Range(category_calls(nm)))
<1>1. CASE IsCompound(nm)
  <2> DEFINE sets == {Range(wire_calls(v)) : v \in Range(Visited(nm))}
  <2>1. \A names \in sets : Closed(names)
    BY WireCallsAre, WireCallsClosed
  <2> HIDE DEF sets
  <2>2. Closed(UNION sets)
    BY <2>1, ClosedUnion
  <2> QED BY <1>1, <2>2, CategoryCallsAre DEF sets
<1>2. CASE ~IsCompound(nm)
  BY <1>2, CategoryCallsAre DEF Closed
<1> QED BY <1>1, <1>2

\* What is looked up for the keys that a name depends on: its parts, and what their
\* categories ask for.
LEMMA DefKeysCallsAre ==
    ASSUME iface \in Interfaces, Names \subseteq ends[MaxDepth], NEW nm \in Fine
    PROVE  /\ def_keys_calls(nm) \in Seq(Fine)
           /\ Range(def_keys_calls(nm)) =
                 UNION {Range(Resolved(SubSeq(nm, k, Len(nm))))
                        \union Range(category_calls(SubSeq(nm, k, Len(nm)))) : k \in 1 .. Len(nm)}
           /\ Closed(Range(def_keys_calls(nm)))
<1> DEFINE len == Len(nm)
           s(k) == SubSeq(nm, k, len)
           sq == [n \in DOMAIN nm |-> Resolved(NestedNames(nm)[n]) \o category_calls(NestedNames(nm)[n])]
<1>1. def_keys_calls(nm) = FlattenSeq(sq)
  BY Zenon DEF def_keys_calls
<1>2. /\ len \in Nat /\ DOMAIN nm = 1 .. len
      /\ \A k \in 1 .. len : s(k) \in Fine /\ NestedNames(nm)[k] = s(k)
  BY FineIs, ProperIs, NestedAre, FineSuffix
<1> HIDE DEF s, len
<1>3. ASSUME NEW k \in 1 .. len
      PROVE  /\ sq[k] \in Seq(Fine)
             /\ Range(sq[k]) = Range(Resolved(s(k))) \union Range(category_calls(s(k)))
             /\ Closed(Range(sq[k]))
  <2>1. sq[k] = Resolved(s(k)) \o category_calls(s(k))
    BY <1>2
  <2> HIDE DEF sq
  <2> DEFINE x == s(k)
  <2>2. x \in Fine
    BY <1>2
  <2> HIDE DEF x
  <2>3. Resolved(x) \in Seq(Fine) /\ Range(Resolved(x)) \subseteq {x}
    BY <2>2 DEF Resolved, Range
  <2>4. category_calls(x) \in Seq(Fine) /\ Closed(Range(category_calls(x)))
    BY <2>2, CategoryCallsAre, CategoryClosed
  <2>5. /\ Resolved(x) \o category_calls(x) \in Seq(Fine)
        /\ Range(Resolved(x) \o category_calls(x)) = Range(Resolved(x)) \union Range(category_calls(x))
    BY <2>3, <2>4, ConcatProperties, RangeConcatenation
  <2>6. Closed(Range(Resolved(x)) \union Range(category_calls(x)))
    BY <2>2, <2>3, <2>4 DEF Closed
  <2> QED BY <2>1, <2>5, <2>6 DEF x
<1>4. sq \in [1 .. len -> Seq(Fine)]
  <2>1. sq = [k \in 1 .. len |-> sq[k]]
    BY <1>2
  <2> HIDE DEF sq
  <2> QED BY <1>3, <2>1
<1> HIDE DEF sq
<1>5. FlattenSeq(sq) \in Seq(Fine) /\ Range(FlattenSeq(sq)) = UNION {Range(sq[k]) : k \in 1 .. len}
  BY <1>2, <1>4, FlattenMap
<1>6. UNION {Range(sq[k]) : k \in 1 .. len}
         = UNION {Range(Resolved(s(k))) \union Range(category_calls(s(k))) : k \in 1 .. len}
  BY <1>3
<1>7. Closed(UNION {Range(sq[k]) : k \in 1 .. len})
  <2> DEFINE sets == {Range(sq[k]) : k \in 1 .. len}
  <2>1. \A names \in sets : Closed(names)
    BY <1>3
  <2> HIDE DEF sets
  <2>2. Closed(UNION sets)
    BY <2>1, ClosedUnion
  <2> QED BY <2>2 DEF sets
<1> QED BY <1>1, <1>5, <1>6, <1>7, Zenon DEF s, len

\* What a generator looks up for members: their wire types and their keys; it is closed.
LEMMA MemberCallsAre ==
    ASSUME iface \in Interfaces, Names \subseteq ends[MaxDepth], NEW mem \in Seq(Fine)
    PROVE  /\ member_calls(mem) \in Seq(Fine)
           /\ Range(member_calls(mem)) =
                 UNION {Range(wire_calls(x)) \union Range(def_keys_calls(x)) : x \in Range(mem)}
           /\ Closed(Range(member_calls(mem)))
<1> DEFINE len == Len(mem)
           wires == [n \in DOMAIN mem |-> wire_calls(mem[n])]
           keys  == [n \in DOMAIN mem |-> def_keys_calls(mem[n])]
<1>1. member_calls(mem) = FlattenSeq(wires) \o FlattenSeq(keys)
  BY Zenon DEF member_calls, types_calls
<1>2. /\ len \in Nat /\ DOMAIN mem = 1 .. len /\ \A n \in 1 .. len : mem[n] \in Fine
      /\ Range(mem) = {mem[n] : n \in 1 .. len}
  BY LenProperties, RangeEquality
<1>3. \A x \in Fine : /\ wire_calls(x) \in Seq(Fine) /\ def_keys_calls(x) \in Seq(Fine)
                      /\ Closed(Range(wire_calls(x))) /\ Closed(Range(def_keys_calls(x)))
  BY WireCallsAre, WireCallsClosed, DefKeysCallsAre
<1> HIDE DEF len
<1>4. /\ wires \in [1 .. len -> Seq(Fine)] /\ \A n \in 1 .. len : wires[n] = wire_calls(mem[n])
      /\ keys \in [1 .. len -> Seq(Fine)] /\ \A n \in 1 .. len : keys[n] = def_keys_calls(mem[n])
  BY <1>2, <1>3
<1> HIDE DEF wires, keys
<1>5. /\ FlattenSeq(wires) \in Seq(Fine)
      /\ Range(FlattenSeq(wires)) = UNION {Range(wires[n]) : n \in 1 .. len}
  BY <1>2, <1>4, FlattenMap
<1>6. /\ FlattenSeq(keys) \in Seq(Fine)
      /\ Range(FlattenSeq(keys)) = UNION {Range(keys[n]) : n \in 1 .. len}
  BY <1>2, <1>4, FlattenMap
<1>7. /\ member_calls(mem) \in Seq(Fine)
      /\ Range(member_calls(mem)) = Range(FlattenSeq(wires)) \union Range(FlattenSeq(keys))
  <2> DEFINE a == FlattenSeq(wires)
             b == FlattenSeq(keys)
  <2>1. a \in Seq(Fine) /\ b \in Seq(Fine)
    BY <1>5, <1>6
  <2> HIDE DEF a, b
  <2>2. a \o b \in Seq(Fine) /\ Range(a \o b) = Range(a) \union Range(b)
    BY <2>1, ConcatProperties, RangeConcatenation
  <2> QED BY <1>1, <2>2, Zenon DEF a, b
<1> DEFINE sets == {Range(wire_calls(x)) \union Range(def_keys_calls(x)) : x \in Range(mem)}
<1>8. Range(member_calls(mem)) = UNION sets
  <2>1. ASSUME NEW z
        PROVE  z \in Range(member_calls(mem)) <=> \E x \in Range(mem) :
                   z \in Range(wire_calls(x)) \union Range(def_keys_calls(x))
    <3>1. z \in Range(FlattenSeq(wires)) <=> \E n \in 1 .. len : z \in Range(wire_calls(mem[n]))
      BY <1>4, <1>5, Zenon
    <3>2. z \in Range(FlattenSeq(keys)) <=> \E n \in 1 .. len : z \in Range(def_keys_calls(mem[n]))
      BY <1>4, <1>6, Zenon
    <3> QED BY <1>2, <1>7, <3>1, <3>2, Zenon
  <2> QED BY <2>1, Zenon
<1>9. \A names \in sets : Closed(names)
  <2> SUFFICES ASSUME NEW x \in Range(mem)
               PROVE  Closed(Range(wire_calls(x)) \union Range(def_keys_calls(x)))
    OBVIOUS
  <2>1. x \in Fine
    BY <1>2
  <2>2. Closed(Range(wire_calls(x))) /\ Closed(Range(def_keys_calls(x)))
    BY <1>3, <2>1
  <2> QED BY <2>2 DEF Closed
<1> HIDE DEF sets
<1>10. Closed(UNION sets)
  BY <1>9, ClosedUnion
<1> QED BY <1>7, <1>8, <1>10 DEF sets

------------------------------------------------------------------------------
\* Lists of calls.
Calls(q) == q \in Seq(Fine) /\ Closed(Range(q))

\* No instances are closed.
LEMMA CallsOfNone == Calls(<<>>)
<1>1. <<>> \in Seq(Fine) /\ Range(<<>>) = {}
  BY DEF Range
<1> QED BY <1>1 DEF Calls, Closed

\* Lists that are closed are closed one after the other.
LEMMA CallsConcat ==
    ASSUME NEW q, Calls(q), NEW r, Calls(r)
    PROVE  Calls(q \o r) /\ Range(q \o r) = Range(q) \union Range(r)
<1>1. /\ q \o r \in Seq(Fine)
      /\ Range(q \o r) = Range(q) \union Range(r)
  BY ConcatProperties, RangeConcatenation DEF Calls
<1>2. Closed(Range(q) \union Range(r))
  BY DEF Calls, Closed
<1> QED BY <1>1, <1>2 DEF Calls

\* And any number of them.
LEMMA CallsFlatten ==
    ASSUME NEW len \in Nat, NEW sq, sq = [k \in 1 .. len |-> sq[k]],
           \A k \in 1 .. len : Calls(sq[k])
    PROVE  /\ Calls(FlattenSeq(sq))
           /\ \A k \in 1 .. len : Range(sq[k]) \subseteq Range(FlattenSeq(sq))
<1> DEFINE sets == {Range(sq[k]) : k \in 1 .. len}
<1>1. sq \in [1 .. len -> Seq(Fine)]
  BY DEF Calls
<1>2. FlattenSeq(sq) \in Seq(Fine) /\ Range(FlattenSeq(sq)) = UNION sets
  <2>1. ASSUME NEW r \in [1 .. len -> Seq(Fine)]
        PROVE  /\ FlattenSeq(r) \in Seq(Fine)
               /\ Range(FlattenSeq(r)) = UNION {Range(r[k]) : k \in 1 .. len}
    BY FlattenMap
  <2> QED BY <1>1, <2>1, Zenon
<1>3. \A names \in sets : Closed(names)
  BY DEF Calls
<1>4. \A k \in 1 .. len : Range(sq[k]) \subseteq UNION sets
  BY Zenon
<1> HIDE DEF sets
<1>5. Closed(UNION sets)
  BY <1>3, ClosedUnion
<1> QED BY <1>2, <1>4, <1>5 DEF Calls

\* Looking up the wire types of a list is closed.
LEMMA TypesCallsAre ==
    ASSUME iface \in Interfaces, Names \subseteq ends[MaxDepth], NEW mem \in Seq(Fine)
    PROVE  Calls(types_calls(mem))
<1> DEFINE len == Len(mem)
           sq  == [n \in DOMAIN mem |-> wire_calls(mem[n])]
<1>1. types_calls(mem) = FlattenSeq(sq)
  BY Zenon DEF types_calls
<1>2. len \in Nat /\ DOMAIN mem = 1 .. len /\ \A n \in 1 .. len : mem[n] \in Fine
  BY LenProperties
<1> HIDE DEF len
<1>3. \A n \in 1 .. len : Calls(wire_calls(mem[n]))
  BY <1>2, WireCallsAre, WireCallsClosed DEF Calls
<1>4. sq = [n \in 1 .. len |-> sq[n]] /\ \A n \in 1 .. len : sq[n] = wire_calls(mem[n])
  BY <1>2
<1> HIDE DEF sq
<1> QED BY <1>1, <1>2, <1>3, <1>4, CallsFlatten

\* Services, and the structures made of their procedures.
Serving    == OfKinds(iface.decl, {"service"})
OfProcs    == OfKinds(iface.decl, {"params_struct"})
Procedures == [params_struct : OfProcs, results_struct : OfProcs]

\* What the assumption says of services and of the lists of an interface.
LEMMA ServicesAre ==
    ASSUME iface \in Interfaces
    PROVE  /\ iface.services \in Seq(Serving) /\ Serving \subseteq DOMAIN iface.decl
           /\ iface.enums \in Seq(DOMAIN iface.decl)
           /\ \A s \in Serving : /\ iface.decl[s].extends \in Seq(Serving)
                                 /\ iface.decl[s].procedures \in Seq(Procedures)
           /\ iface.structs \in Seq(DOMAIN iface.decl \ OfKinds(iface.decl, Generics))
           /\ iface.unions \in Seq(DOMAIN iface.decl \ OfKinds(iface.decl, Generics))
           /\ \A s \in OfProcs : s \in DOMAIN iface.decl /\ Kind(s) \notin Generics
           /\ \A s \in DOMAIN iface.decl \ OfKinds(iface.decl, Generics) : Kind(s) \notin Generics
<1>1. WellFormed(iface)
  BY BackendAssumption
<1> DEFINE Plain == DOMAIN iface.decl \ OfKinds(iface.decl, Generics)
           Enumerated == OfKinds(iface.decl, {"enumeration"})
           Structured == OfKinds(iface.decl, {"structure"})
           United == OfKinds(iface.decl, {"union", "raw_union"})
<1>2. /\ iface.services \in Seq(Serving) /\ iface.enums \in Seq(Enumerated)
      /\ \A s \in Serving : /\ iface.decl[s].extends \in Seq(Serving)
                            /\ iface.decl[s].procedures \in Seq(Procedures)
      /\ iface.structs \in Seq(Structured) /\ iface.unions \in Seq(United)
  BY <1>1, Zenon DEF WellFormed, Serving, Procedures, OfProcs
<1>6. Structured \subseteq Plain /\ United \subseteq Plain /\ Enumerated \subseteq DOMAIN iface.decl
  BY DEF OfKinds, Generics
<1>7. iface.structs \in Seq(Plain) /\ iface.unions \in Seq(Plain) /\ iface.enums \in Seq(DOMAIN iface.decl)
  <2> HIDE DEF Plain, Enumerated, Structured, United
  <2> QED BY <1>2, <1>6
<1>3. \A s \in OfProcs : s \in DOMAIN iface.decl /\ Kind(s) \notin Generics
  BY InterfaceIs DEF OfProcs, OfKinds, Generics
<1>4. \A s \in DOMAIN iface.decl \ OfKinds(iface.decl, Generics) : Kind(s) \notin Generics
  BY InterfaceIs DEF OfKinds
<1>5. Serving \subseteq DOMAIN iface.decl
  BY DEF Serving, OfKinds
<1> QED BY <1>2, <1>3, <1>4, <1>5, <1>7

\* A declaration that is no generic is a type, with members that are fine.
LEMMA DeclaredTypes ==
    ASSUME iface \in Interfaces, Names \subseteq ends[MaxDepth],
           NEW s \in DOMAIN iface.decl, Kind(s) \notin Generics
    PROVE  /\ <<s>> \in Fine /\ Head(<<s>>) = s
           /\ iface.decl[s].members \in Seq(Fine)
           /\ Members(<<s>>) \in Seq(Fine)
<1>1. <<s>> \in Names
  BY DEF Names
<1>2. <<s>> \in Fine
  BY <1>1, NamesFine
<1>3. Head(<<s>>) = s
  OBVIOUS
<1>4. iface.decl[s].members \in Seq(Fine)
  <2>1. iface.decl[s].members \in Seq(Fine \union {})
    BY DeclaredFine
  <2>2. Fine \union {} = Fine
    OBVIOUS
  <2> QED BY <2>1, <2>2, Zenon
<1> QED BY <1>2, <1>3, <1>4, MembersFine

\* The procedures of a service and of those that it extends.
LEMMA AllProcedures ==
    ASSUME iface \in Interfaces, NEW serv \in Serving
    PROVE  /\ all_procedures(serv) \in Seq(Procedures)
           /\ Range(iface.decl[serv].procedures) \subseteq Range(all_procedures(serv))
<1> DEFINE Level(n, x) == IF n = 0 THEN <<serv>> ELSE iface.decl[Head(x)].extends \o x
           Is(m, h) == h = [n \in 0 .. m |-> Level(n, h[n - 1])]
           F == CHOOSE h : Is(MaxDepth, h)
           T == {m \in Nat : \E h : Is(m, h)}
           all == F[MaxDepth]
           sq == [n \in DOMAIN all |-> iface.decl[all[n]].procedures]
<1>1. all_procedures(serv) = FlattenSeq(sq)
  BY Zenon DEF all_procedures
<1>2. \A x, y : Level(0, x) = Level(0, y)
  OBVIOUS
<1> HIDE DEF Level
<1>3. 0 \in T
  <2> DEFINE h == [n \in 0 .. 0 |-> Level(n, 0)]
  <2>1. ASSUME NEW n \in 0 .. 0 PROVE Level(n, 0) = Level(n, h[n - 1])
    <3>1. n = 0 OBVIOUS
    <3> QED BY <1>2, <3>1, Zenon
  <2>2. Is(0, h)
    BY <2>1
  <2> QED BY <2>2
<1>4. ASSUME NEW m \in Nat, m \in T PROVE m + 1 \in T
  <2>1. PICK h : Is(m, h)
    BY <1>4
  <2> DEFINE g == [n \in 0 .. m + 1 |-> IF n = m + 1 THEN Level(m + 1, h[m]) ELSE h[n]]
  <2>2. ASSUME NEW n \in 0 .. m + 1 PROVE g[n] = Level(n, g[n - 1])
    <3>1. CASE n = m + 1
      <4>1. n - 1 = m /\ m # m + 1 /\ m \in 0 .. m + 1 BY <3>1
      <4>2. g[n] = Level(m + 1, h[m]) /\ g[m] = h[m] BY <3>1, <4>1, Zenon
      <4> QED BY <3>1, <4>1, <4>2, Zenon
    <3>2. CASE n # m + 1
      <4>1. n \in 0 .. m BY <3>2
      <4>2. g[n] = h[n] BY <3>2, Zenon
      <4>3. h[n] = Level(n, h[n - 1]) BY <2>1, <4>1, Zenon
      <4>4. CASE n = 0
        BY <1>2, <4>2, <4>3, <4>4, Zenon
      <4>5. CASE n # 0
        <5>1. n - 1 \in 0 .. m + 1 /\ n - 1 # m + 1 BY <4>1, <4>5
        <5>2. g[n - 1] = h[n - 1] BY <5>1, Zenon
        <5> QED BY <4>2, <4>3, <5>2, Zenon
      <4> QED BY <4>4, <4>5
    <3> QED BY <3>1, <3>2
  <2>3. g = [n \in 0 .. m + 1 |-> g[n]]
    OBVIOUS
  <2> HIDE DEF g
  <2>4. Is(m + 1, g)
    BY <2>2, <2>3, Zenon
  <2> QED BY <2>4
<1> HIDE DEF T
<1>5. MaxDepth \in T
  BY <1>3, <1>4, NatSetInduction, BackendAssumption
<1>6. \E h : Is(MaxDepth, h)
  BY <1>5 DEF T
<1> HIDE DEF Is
<1>7. Is(MaxDepth, F)
  BY <1>6, Zenon
<1> HIDE DEF F
<1>8. \A n \in 0 .. MaxDepth : F[n] = Level(n, F[n - 1])
  BY <1>7, Zenon DEF Is
<1> DEFINE X == {x \in Seq(Serving) : x # <<>> /\ serv \in Range(x)}
           V == {n \in Nat : n <= MaxDepth => F[n] \in X}
<1>9. 0 \in V
  <2>1. F[0] = <<serv>>
    <3>1. 0 \in 0 .. MaxDepth
      BY BackendAssumption
    <3>2. Level(0, F[0 - 1]) = <<serv>>
      BY Zenon DEF Level
    <3> QED BY <1>8, <3>1, <3>2
  <2>2. <<serv>> \in X
    BY DEF Range
  <2> QED BY <2>1, <2>2
<1>10. ASSUME NEW n \in Nat, n \in V PROVE n + 1 \in V
  <2> DEFINE m == n + 1
             x == F[n]
             e == iface.decl[Head(x)].extends
  <2> SUFFICES ASSUME m <= MaxDepth PROVE F[m] \in X
    OBVIOUS
  <2>1. m \in 0 .. MaxDepth /\ m # 0 /\ m - 1 = n /\ x \in X
    BY <1>10, BackendAssumption
  <2> HIDE DEF m, x
  <2>2. F[m] = e \o x
    <3>1. Level(m, F[m - 1]) = iface.decl[Head(F[m - 1])].extends \o F[m - 1]
      BY <2>1, Zenon DEF Level
    <3> QED BY <1>8, <2>1, <3>1, Zenon DEF x
  <2>3. Head(x) \in Serving
    BY <2>1
  <2>4. e \in Seq(Serving)
    BY <2>3, ServicesAre
  <2> HIDE DEF e
  <2>5. e \o x \in Seq(Serving) /\ e \o x # <<>>
    BY <2>1, <2>4, ConcatProperties, ConcatEqualIffEmpty
  <2>6. serv \in Range(e \o x)
    BY <2>1, <2>4, RangeConcatenation
  <2> QED BY <2>2, <2>5, <2>6
<1> HIDE DEF V, X
<1>11. Nat \subseteq V
  BY <1>9, <1>10, NatSetInduction
<1>12. all \in Seq(Serving) /\ serv \in Range(all)
  BY <1>11, BackendAssumption DEF V, X
<1> HIDE DEF all
<1>13. Len(all) \in Nat /\ DOMAIN all = 1 .. Len(all) /\ \A n \in 1 .. Len(all) : all[n] \in Serving
  BY <1>12, LenProperties
<1>14. sq \in [1 .. Len(all) -> Seq(Procedures)]
  BY <1>13, ServicesAre
<1>15. PICK n \in 1 .. Len(all) : all[n] = serv
  BY <1>12, <1>13 DEF Range
<1>16. sq[n] = iface.decl[serv].procedures
  BY <1>13, <1>15
<1> HIDE DEF sq
<1>17. /\ FlattenSeq(sq) \in Seq(Procedures)
       /\ Range(FlattenSeq(sq)) = UNION {Range(sq[k]) : k \in 1 .. Len(all)}
  BY <1>13, <1>14, FlattenMap
<1>18. Range(sq[n]) \subseteq Range(FlattenSeq(sq))
  BY <1>15, <1>17
<1> QED BY <1>1, <1>16, <1>17, <1>18

\* Renaming the unions of calls looks up what is closed.
LEMMA UnionCallsAre ==
    ASSUME iface \in Interfaces, Names \subseteq ends[MaxDepth], NEW serv \in Serving
    PROVE  Calls(union_calls(serv))
<1> DEFINE procs == all_procedures(serv)
           P(n) == iface.decl[procs[n].params_struct].members
           R(n) == iface.decl[procs[n].results_struct].members
           len == Len(procs)
           sq == [n \in DOMAIN procs |-> types_calls(P(n)) \o types_calls(R(n))]
<1>1. union_calls(serv) = FlattenSeq(sq)
  BY Zenon DEF union_calls
<1>2. len \in Nat /\ DOMAIN procs = 1 .. len /\ \A n \in 1 .. len : procs[n] \in Procedures
  BY AllProcedures, LenProperties
<1> HIDE DEF procs, len
<1>3. \A n \in 1 .. len : P(n) \in Seq(Fine) /\ R(n) \in Seq(Fine)
  <2>1. \A p \in Procedures : p.params_struct \in OfProcs /\ p.results_struct \in OfProcs
    BY DEF Procedures
  <2>2. \A s \in OfProcs : iface.decl[s].members \in Seq(Fine)
    BY ServicesAre, DeclaredTypes
  <2> QED BY <1>2, <2>1, <2>2
<1> HIDE DEF P, R
<1>4. sq = [n \in 1 .. len |-> sq[n]]
      /\ \A n \in 1 .. len : sq[n] = types_calls(P(n)) \o types_calls(R(n))
  BY <1>2
<1> HIDE DEF sq
<1>5. \A n \in 1 .. len : Calls(sq[n])
  BY <1>3, <1>4, TypesCallsAre, CallsConcat
<1> QED BY <1>1, <1>2, <1>4, <1>5, CallsFlatten

\* So does the generator of a list of members,
LEMMA MemberCallsCalls ==
    ASSUME iface \in Interfaces, Names \subseteq ends[MaxDepth], NEW mem \in Seq(Fine)
    PROVE  Calls(member_calls(mem))
BY MemberCallsAre DEF Calls

\* and that of a service.
LEMMA ServiceCallsAre ==
    ASSUME iface \in Interfaces, Names \subseteq ends[MaxDepth], NEW serv \in Serving
    PROVE  Calls(service_calls(serv))
<1> DEFINE procs == iface.decl[serv].procedures
           P(n) == procs[n].params_struct
           R(n) == procs[n].results_struct
           len == Len(procs)
           sq == [n \in DOMAIN procs |-> member_calls(Members(<<P(n)>>)) \o member_calls(Members(<<R(n)>>))]
           types == [n \in DOMAIN procs |-> iface.decl[P(n)].members \o iface.decl[R(n)].members]
<1>1. service_calls(serv) = FlattenSeq(sq) \o member_calls(FlattenSeq(types))
  BY Zenon DEF service_calls, OwnTypes
<1>2. len \in Nat /\ DOMAIN procs = 1 .. len /\ \A n \in 1 .. len : procs[n] \in Procedures
  BY ServicesAre, LenProperties
<1> HIDE DEF procs, len
<1>3. \A n \in 1 .. len : P(n) \in OfProcs /\ R(n) \in OfProcs
  BY <1>2 DEF Procedures
<1> HIDE DEF P, R
<1>4. \A s \in OfProcs : /\ iface.decl[s].members \in Seq(Fine)
                         /\ Calls(member_calls(Members(<<s>>)))
  <2> SUFFICES ASSUME NEW s \in OfProcs
               PROVE  /\ iface.decl[s].members \in Seq(Fine)
                      /\ Calls(member_calls(Members(<<s>>)))
    BY Zenon
  <2>1. s \in DOMAIN iface.decl /\ Kind(s) \notin Generics
    BY ServicesAre
  <2>2. iface.decl[s].members \in Seq(Fine) /\ Members(<<s>>) \in Seq(Fine)
    BY <2>1, DeclaredTypes
  <2> QED BY <2>2, MemberCallsCalls
<1>5. /\ sq = [n \in 1 .. len |-> sq[n]]
      /\ \A n \in 1 .. len :
            sq[n] = member_calls(Members(<<P(n)>>)) \o member_calls(Members(<<R(n)>>))
      /\ types = [n \in 1 .. len |-> types[n]]
      /\ \A n \in 1 .. len : types[n] = iface.decl[P(n)].members \o iface.decl[R(n)].members
  BY <1>2
<1> HIDE DEF sq, types
<1>6. ASSUME NEW n \in 1 .. len PROVE Calls(sq[n])
  <2>1. Calls(member_calls(Members(<<P(n)>>))) /\ Calls(member_calls(Members(<<R(n)>>)))
    BY <1>3, <1>4, Zenon
  <2>2. Calls(member_calls(Members(<<P(n)>>)) \o member_calls(Members(<<R(n)>>)))
    BY <2>1, CallsConcat, Zenon
  <2> QED BY <1>5, <2>2, Zenon
<1>7. Calls(FlattenSeq(sq))
  BY <1>2, <1>5, <1>6, CallsFlatten
<1>8. \A n \in 1 .. len : types[n] \in Seq(Fine)
  BY <1>3, <1>4, <1>5, ConcatProperties
<1>9. types \in [1 .. len -> Seq(Fine)]
  BY <1>5, <1>8
<1>10. FlattenSeq(types) \in Seq(Fine)
  BY <1>2, <1>9, FlattenMap
<1>11. Calls(member_calls(FlattenSeq(types)))
  BY <1>10, MemberCallsCalls
<1> QED BY <1>1, <1>7, <1>11, CallsConcat

\* The generator of a structure or union asks for at least what its category does.
LEMMA TypeCallsAre ==
    ASSUME iface \in Interfaces, Names \subseteq ends[MaxDepth],
           NEW s \in DOMAIN iface.decl, Kind(s) \notin Generics
    PROVE  Calls(TypeCalls(s)) /\ Range(category_calls(<<s>>)) \subseteq Range(TypeCalls(s))
<1> DEFINE nm == <<s>>
           mem == Members(nm)
<1>1. nm \in Fine /\ Head(nm) = s /\ mem \in Seq(Fine)
  BY DeclaredTypes
<1> HIDE DEF nm, mem
<1>2. TypeCalls(s) = member_calls(mem)
  BY DEF TypeCalls, nm, mem
<1>3. Calls(member_calls(mem))
  BY <1>1, MemberCallsCalls
<1>4. Range(category_calls(nm)) \subseteq Range(member_calls(mem))
  <2>1. CASE ~IsCompound(nm)
    BY <1>1, <2>1, CategoryCallsAre
  <2>2. CASE IsCompound(nm)
    <3>1. Head(nm) # "vector"
      BY <1>1, InterfaceIs DEF Intrinsics
    <3>2. Visited(nm) = UpToReference(mem)
      BY <2>2, <3>1 DEF Visited, mem
    <3>3. Range(Visited(nm)) \subseteq Range(mem)
      BY <1>1, <3>2, UpToFine
    <3>4. Range(category_calls(nm)) = UNION {Range(wire_calls(v)) : v \in Range(Visited(nm))}
      BY <1>1, <2>2, CategoryCallsAre
    <3>5. Range(member_calls(mem)) =
             UNION {Range(wire_calls(x)) \union Range(def_keys_calls(x)) : x \in Range(mem)}
      BY <1>1, MemberCallsAre
    <3> SUFFICES ASSUME NEW v \in Range(Visited(nm)), NEW z \in Range(wire_calls(v))
                 PROVE  z \in Range(member_calls(mem))
      BY <3>4, Zenon
    <3>6. z \in Range(wire_calls(v)) \union Range(def_keys_calls(v)) /\ v \in Range(mem)
      BY <3>3
    <3> QED BY <3>5, <3>6, Zenon
  <2> QED BY <2>1, <2>2
<1> QED BY <1>2, <1>3, <1>4 DEF nm

------------------------------------------------------------------------------
\* The vector of instantiations gets what it does not have yet.
LEMMA LookUpGives ==
    ASSUME NEW S, NEW have \in Seq(S), NEW names \in Seq(S)
    PROVE  LET all == create_or_get_instantiations(have, names) IN
           /\ all \in Seq(S) /\ Len(have) <= Len(all)
           /\ Range(all) = Range(have) \union Range(names)
           /\ Range(names) \subseteq Range(have) => all = have
<1> DEFINE len == Len(names)
           Before(n) == Range(have) \union {names[k] : k \in 1 .. n - 1}
           sq == [n \in DOMAIN names |-> IF names[n] \in Before(n) THEN <<>> ELSE <<names[n]>>]
           all == create_or_get_instantiations(have, names)
<1>1. all = have \o FlattenSeq(sq)
  BY Zenon DEF create_or_get_instantiations
<1>2. /\ len \in Nat /\ DOMAIN names = 1 .. len /\ \A n \in 1 .. len : names[n] \in S
      /\ Range(names) = {names[n] : n \in 1 .. len} /\ Len(have) \in Nat
  BY LenProperties, RangeEquality
<1> HIDE DEF len
<1>3. \A n \in 1 .. len : sq[n] = IF names[n] \in Before(n) THEN <<>> ELSE <<names[n]>>
  BY <1>2, Zenon
<1>4. \A n \in 1 .. len : <<names[n]>> \in Seq(S) /\ <<>> \in Seq(S)
  BY <1>2
<1>5. sq = [n \in 1 .. len |-> sq[n]]
  BY <1>2
<1> HIDE DEF sq, all
<1>6. \A n \in 1 .. len : sq[n] \in Seq(S)
  BY <1>3, <1>4, Zenon
<1>7. sq \in [1 .. len -> Seq(S)]
  BY <1>5, <1>6
<1>8. FlattenSeq(sq) \in Seq(S) /\ Range(FlattenSeq(sq)) = UNION {Range(sq[n]) : n \in 1 .. len}
  BY <1>2, <1>7, FlattenMap
<1>9. /\ all \in Seq(S) /\ Len(all) = Len(have) + Len(FlattenSeq(sq))
      /\ Range(all) = Range(have) \union Range(FlattenSeq(sq))
  BY <1>1, <1>8, ConcatProperties, RangeConcatenation
<1>10. Len(have) <= Len(all)
  <2>1. Len(FlattenSeq(sq)) \in Nat
    BY <1>8, LenProperties
  <2> QED BY <1>2, <1>9, <2>1
<1>11. \A n \in 1 .. len : Range(sq[n]) = IF names[n] \in Before(n) THEN {} ELSE {names[n]}
  <2> SUFFICES ASSUME NEW n \in 1 .. len
               PROVE  Range(sq[n]) = IF names[n] \in Before(n) THEN {} ELSE {names[n]}
    BY Zenon
  <2>1. Range(<<>>) = {} /\ Range(<<names[n]>>) = {names[n]}
    BY DEF Range
  <2> HIDE DEF Before
  <2> QED BY <1>3, <2>1, Zenon
<1>12. Range(all) \subseteq Range(have) \union Range(names)
  <2> SUFFICES ASSUME NEW n \in 1 .. len, NEW x \in Range(sq[n]) PROVE x \in Range(names)
    BY <1>8, <1>9, Zenon
  <2> HIDE DEF Before
  <2>1. x = names[n]
    BY <1>11
  <2> QED BY <1>2, <2>1
<1>13. Range(names) \subseteq Range(all)
  <2> SUFFICES ASSUME NEW x \in Range(names), x \notin Range(have) PROVE x \in Range(all)
    BY <1>9, Zenon
  <2> DEFINE at == {n \in 1 .. len : names[n] = x}
  <2>1. at \subseteq Nat /\ at # {}
    BY <1>2
  <2>2. PICK n \in at : \A m \in at : n <= m
    <3> HIDE DEF at
    <3> QED BY <2>1, LeastNat
  <2>3. names[n] \notin Before(n)
    <3> SUFFICES ASSUME NEW k \in 1 .. n - 1, names[k] = x PROVE FALSE
      BY <2>2
    <3>1. k \in at /\ ~ (n <= k)
      BY <1>2, <2>2
    <3> QED BY <2>2, <3>1
  <2>4. x \in Range(sq[n])
    <3> HIDE DEF Before
    <3> QED BY <1>11, <2>2, <2>3
  <2>5. n \in 1 .. len
    BY <2>2
  <2> QED BY <1>8, <1>9, <2>4, <2>5, Zenon
<1>14. ASSUME Range(names) \subseteq Range(have) PROVE all = have
  <2>1. \A n \in 1 .. len : names[n] \in Before(n)
    BY <1>2, <1>14
  <2> HIDE DEF Before
  <2>2. \A n \in 1 .. len : sq[n] = <<>>
    BY <1>3, <2>1, Zenon
  <2>3. Range(FlattenSeq(sq)) = {}
    BY <1>8, <2>2 DEF Range
  <2>4. FlattenSeq(sq) = <<>>
    <3>1. Len(FlattenSeq(sq)) \in Nat /\ DOMAIN FlattenSeq(sq) = 1 .. Len(FlattenSeq(sq))
      BY <1>8, LenProperties
    <3>2. Len(FlattenSeq(sq)) = 0
      <4> SUFFICES ASSUME Len(FlattenSeq(sq)) # 0 PROVE FALSE
        OBVIOUS
      <4>1. 1 \in DOMAIN FlattenSeq(sq)
        BY <3>1
      <4> QED BY <2>3, <4>1 DEF Range
    <3> QED BY <1>8, <3>2, EmptySeq
  <2> QED BY <1>1, <2>4, ConcatEmptySeq
<1> QED BY <1>9, <1>10, <1>12, <1>13, <1>14 DEF all

\* A vector at the head: what its elements' name calls, it calls.
LEMMA VectorsCall ==
    ASSUME iface \in Interfaces, Names \subseteq ends[MaxDepth], NEW nm \in Fine
    PROVE  \A k \in 1 .. Len(nm) : (\A j \in 1 .. k - 1 : nm[j] = "vector") =>
              Range(wire_calls(SubSeq(nm, k, Len(nm)))) \subseteq Range(wire_calls(nm))
<1> DEFINE len == Len(nm)
           s(k) == SubSeq(nm, k, len)
           Good(k) == (\A j \in 1 .. k - 1 : nm[j] = "vector") =>
                         Range(wire_calls(s(k))) \subseteq Range(wire_calls(nm))
           T == {n \in Nat : n + 1 <= len => Good(n + 1)}
<1>1. len \in Nat \ {0} /\ nm \in Proper /\ nm \in Seq(Symbols)
  BY FineIs, ProperIs
<1>2. 0 \in T
  <2>1. s(1) = nm
    BY <1>1, SubSeqFull
  <2> HIDE DEF s
  <2>2. Good(1)
    BY <2>1
  <2> HIDE DEF Good
  <2>3. 0 + 1 = 1
    OBVIOUS
  <2> QED BY <2>2, <2>3
<1>3. ASSUME NEW n \in Nat, n \in T PROVE n + 1 \in T
  <2> DEFINE m == n + 1
             r == m + 1
             x == s(m)
  <2> SUFFICES ASSUME r <= len, \A j \in 1 .. r - 1 : nm[j] = "vector"
               PROVE  Range(wire_calls(s(r))) \subseteq Range(wire_calls(nm))
    OBVIOUS
  <2>1. m \in 1 .. len /\ len \in m .. len /\ m <= len
    BY <1>1
  <2>2. nm[m] = "vector" /\ \A j \in 1 .. m - 1 : nm[j] = "vector"
    OBVIOUS
  <2>3. Range(wire_calls(x)) \subseteq Range(wire_calls(nm))
    BY <1>3, <2>1, <2>2
  <2>4. x \in Fine
    BY <2>1, FineSuffix
  <2>5. Head(x) = nm[m] /\ Tail(x) = s(r)
    BY <1>1, <2>1, HeadTailOfSubSeq
  <2> HIDE DEF m, r, s, x
  <2>6. Visited(x) = <<s(r)>>
    BY <2>2, <2>5 DEF Visited
  <2>7. s(r) \in Range(Visited(x))
    BY <2>6 DEF Range
  <2>8. Range(wire_calls(s(r))) \subseteq Range(wire_calls(x))
    BY <2>4, <2>7, WireCallsAre, Zenon
  <2> QED BY <2>3, <2>8
<1> HIDE DEF T, Good
<1>4. Nat \subseteq T
  BY <1>2, <1>3, NatSetInduction
<1>5. \A k \in 1 .. len : Good(k)
  <2> SUFFICES ASSUME NEW k \in 1 .. len PROVE Good(k)
    OBVIOUS
  <2>1. k - 1 \in Nat /\ k - 1 + 1 = k /\ k <= len
    BY <1>1
  <2> QED BY <1>4, <2>1 DEF T
<1> QED BY <1>5 DEF Good, s, len

------------------------------------------------------------------------------
\* The instances looked up have with them what their categories ask for, and from when
\* the declared unions and structures are generated, what theirs do.
Asked(list) == \A n \in DOMAIN list : Range(category_calls(<<list[n]>>)) \subseteq Range(instantiations)

LookedUp ==
    /\ iface \in Interfaces
    /\ Names \subseteq ends[MaxDepth]
    /\ Calls(instantiations)
    /\ stage \notin {"start", "enums", "unions"} => Asked(iface.unions)
    /\ stage \notin {"start", "enums", "unions", "structs"} => Asked(iface.structs)
    /\ stage = "instances" =>
          ins \in Nat \ {0} /\ ins_end \in Nat /\ ins_end <= Len(instantiations)

\* The heart of it: an instance of which no member is overlooked brings nothing new.
LEMMA NothingNew ==
    ASSUME LookedUp, stage = "instances",
           NEW nm \in Range(instantiations), Kind(Head(nm)) \in Generics, ~Overlooked(nm)
    PROVE  Range(member_calls(Members(nm))) \subseteq Range(instantiations)
<1> DEFINE mem == Members(nm)
           have == Range(instantiations)
<1>1. /\ iface \in Interfaces /\ Names \subseteq ends[MaxDepth] /\ instantiations \in Seq(Fine)
      /\ nm \in Fine /\ Range(category_calls(nm)) \subseteq have
      /\ Asked(iface.unions) /\ Asked(iface.structs)
  BY RangeOfSeq DEF LookedUp, Calls, Closed
<1>2. IsCompound(nm)
  BY DEF IsCompound, Generics, Compounds
<1>3. mem \in Seq(Fine) /\ Head(nm) # "vector"
  <2>1. Head(nm) \in DOMAIN iface.decl
    BY <1>1, <1>2, CompoundDeclared
  <2>2. Head(nm) # "vector"
    BY <1>1, <2>1, InterfaceIs DEF Intrinsics
  <2> QED BY <1>1, <2>1, <2>2, MembersFine
<1>4. /\ \A n \in DOMAIN mem : \A k \in 1 .. n - 1 : ~is_reference_type(mem[k])
      /\ \A n \in DOMAIN mem : \A k \in DOMAIN mem[n] :
            Unseen(mem[n], k) => k = Len(mem[n]) /\ ~Elsewhere(mem[n][k])
  <2>1. /\ \A n \in DOMAIN mem : \A k \in 1 .. n - 1 : ~is_reference_type(mem[k])
        /\ \A n \in DOMAIN mem : \A k \in DOMAIN mem[n] :
              Unseen(mem[n], k) => ~ (k < Len(mem[n])) /\ ~Elsewhere(mem[n][k])
    BY Zenon DEF Overlooked
  <2>2. \A n \in DOMAIN mem : \A k \in DOMAIN mem[n] : ~ (k < Len(mem[n])) => k = Len(mem[n])
    <3> SUFFICES ASSUME NEW n \in DOMAIN mem, NEW k \in DOMAIN mem[n], ~ (k < Len(mem[n]))
                 PROVE  k = Len(mem[n])
      OBVIOUS
    <3>1. mem[n] \in Fine
      BY <1>3
    <3>2. Len(mem[n]) \in Nat \ {0} /\ DOMAIN mem[n] = 1 .. Len(mem[n])
      BY <1>1, <3>1, FineIs, ProperIs
    <3> QED BY <3>2
  <2> QED BY <2>1, <2>2, Zenon
<1>5. Visited(nm) = UpToReference(mem)
  BY <1>2, <1>3 DEF Visited
<1> HIDE DEF mem
<1>6. Range(Visited(nm)) = Range(mem)
  BY <1>3, <1>4, <1>5, UpToFine
<1>7. \A x \in Range(mem) : Range(wire_calls(x)) \subseteq have
  <2>1. Range(category_calls(nm)) = UNION {Range(wire_calls(v)) : v \in Range(mem)}
    BY <1>1, <1>2, <1>6, CategoryCallsAre
  <2> QED BY <1>1, <2>1, Zenon
<1>8. ASSUME NEW x \in Range(mem), NEW k \in 1 .. Len(x)
      PROVE  /\ Range(Resolved(SubSeq(x, k, Len(x)))) \subseteq have
             /\ Range(category_calls(SubSeq(x, k, Len(x)))) \subseteq have
  <2> DEFINE s == SubSeq(x, k, Len(x))
  <2>1. x \in Fine /\ Range(wire_calls(x)) \subseteq have
    BY <1>3, <1>7, RangeOfSeq
  <2>2. s \in Fine /\ x \in Proper
    BY <1>1, <2>1, FineSuffix, FineIs
  <2>3. /\ Len(x) \in Nat \ {0} /\ DOMAIN x = 1 .. Len(x) /\ Len(s) = Len(x) - k + 1 /\ Head(s) = x[k]
        /\ x \in Seq(Symbols)
    BY <1>1, <2>2, ProperIs, SuffixProper
  <2>4. CASE ~Unseen(x, k)
    <3>1. Range(wire_calls(s)) \subseteq Range(wire_calls(x))
      BY <1>1, <2>1, <2>4, VectorsCall DEF Unseen
    <3> HIDE DEF s
    <3>2. Range(Resolved(s)) \subseteq Range(wire_calls(s))
      BY <1>1, <2>2, WireCallsAre
    <3>3. Range(category_calls(s)) \subseteq Range(wire_calls(s))
      BY <1>1, <2>2, CategoryCallsAre
    <3> QED BY <2>1, <3>1, <3>2, <3>3 DEF s
  <2>5. CASE Unseen(x, k)
    <3>1. k = Len(x) /\ ~Elsewhere(x[k])
      <4>1. PICK n \in DOMAIN mem : x = mem[n]
        BY DEF Range
      <4> QED BY <1>4, <2>3, <2>5, <4>1
    <3>2. Len(s) = 1
      BY <2>3, <3>1
    <3>3. s = <<x[k]>>
      <4>2. s[1] = x[k]
        BY <1>1, <2>2, <2>3, FineIs, ProperIs
      <4> HIDE DEF s
      <4>1. s \in Seq(Symbols)
        BY <1>1, <2>2, FineIs, ProperIs
      <4> QED BY <3>2, <4>1, <4>2
    <3> HIDE DEF s
    <3>4. Range(Resolved(s)) \subseteq have
      BY <3>2 DEF Resolved, Range
    <3>5. Range(category_calls(s)) \subseteq have
      <4>1. CASE Kind(x[k]) \notin Compounds
        <5>1. ~IsCompound(s)
          BY <2>3, <4>1 DEF IsCompound, s
        <5> QED BY <1>1, <2>2, <5>1, CategoryCallsAre
      <4>2. CASE x[k] \in Range(iface.structs)
        <5>1. PICK n \in DOMAIN iface.structs : x[k] = iface.structs[n]
          BY <4>2 DEF Range
        <5> QED BY <1>1, <3>3, <5>1 DEF Asked
      <4>3. CASE x[k] \in Range(iface.unions)
        <5>1. PICK n \in DOMAIN iface.unions : x[k] = iface.unions[n]
          BY <4>3 DEF Range
        <5> QED BY <1>1, <3>3, <5>1 DEF Asked
      <4> QED BY <3>1, <4>1, <4>2, <4>3 DEF Elsewhere
    <3> QED BY <3>4, <3>5 DEF s
  <2> QED BY <2>4, <2>5
<1>9. \A x \in Range(mem) : Range(def_keys_calls(x)) \subseteq have
  <2> SUFFICES ASSUME NEW x \in Range(mem) PROVE Range(def_keys_calls(x)) \subseteq have
    OBVIOUS
  <2>1. x \in Fine
    BY <1>3, RangeOfSeq
  <2>2. Range(def_keys_calls(x)) =
          UNION {Range(Resolved(SubSeq(x, k, Len(x))))
                 \union Range(category_calls(SubSeq(x, k, Len(x)))) : k \in 1 .. Len(x)}
    BY <1>1, <2>1, DefKeysCallsAre
  <2> QED BY <1>8, <2>2
<1>10. Range(member_calls(mem)) =
         UNION {Range(wire_calls(x)) \union Range(def_keys_calls(x)) : x \in Range(mem)}
  BY <1>1, <1>3, MemberCallsAre
<1>11. Range(member_calls(mem)) \subseteq have
  BY <1>7, <1>9, <1>10
<1> QED BY <1>11 DEF mem

\* The interface never changes, and with it nothing that is read from it.
LEMMA SameInterface ==
    ASSUME iface' = iface
    PROVE  /\ Fine' = Fine /\ Names' = Names /\ ends' = ends
           /\ \A x : category_calls(x)' = category_calls(x)
<1>1. ends' = ends
  BY SMT DEF ends, Name, Symbols, Visited, UpToReference, Members, get_wire_type_name,
             is_reference_type, references, IsCompound, Kind, Types
<1>2. Names' = Names
  BY SMT DEF Names, Kind
<1>3. Proper' = Proper
  BY DEF Proper
<1>4. Fine' = Fine
  BY <1>1, <1>3 DEF Fine
<1>5. ASSUME NEW x PROVE category_calls(x)' = category_calls(x)
  <2>1. wired' = wired
    BY SMT DEF wired, Resolved, Pointer, Name, Symbols, Visited, UpToReference, Members,
               get_wire_type_name, is_reference_type, references, IsCompound, Kind, Types
  <2>2. Visited(x)' = Visited(x)
    BY SMT DEF Visited, UpToReference, Members, get_wire_type_name, is_reference_type,
               references, IsCompound, Kind, Name, Symbols, Types
  <2>3. IsCompound(x)' = IsCompound(x)
    BY SMT DEF IsCompound, Kind
  <2> QED BY <2>1, <2>2, <2>3, SMT DEF category_calls, wire_calls
<1> QED BY <1>1, <1>2, <1>4, <1>5

\* LookedUp holds of no instances.
LEMMA LookedUpInit == BackendInit => LookedUp
<1> SUFFICES ASSUME BackendInit PROVE LookedUp
  OBVIOUS
<1>1. Calls(instantiations)
  BY CallsOfNone DEF BackendInit
<1> QED BY <1>1 DEF BackendInit, LookedUp

\* A step that looks up what has its own with it keeps the invariant's first half.
LEMMA LookUpKeeps ==
    ASSUME LookedUp, iface' = iface, NEW q, Calls(q),
           instantiations' = create_or_get_instantiations(instantiations, q)
    PROVE  /\ iface' \in Interfaces /\ (Names \subseteq ends[MaxDepth])' /\ Calls(instantiations)'
           /\ Len(instantiations) \in Nat /\ Len(instantiations') \in Nat
           /\ Len(instantiations) <= Len(instantiations')
           /\ Range(instantiations') = Range(instantiations) \union Range(q)
<1>1. /\ iface \in Interfaces /\ Names \subseteq ends[MaxDepth] /\ instantiations \in Seq(Fine)
      /\ Closed(Range(instantiations)) /\ q \in Seq(Fine) /\ Closed(Range(q))
  BY DEF LookedUp, Calls
<1>2. /\ instantiations' \in Seq(Fine) /\ Len(instantiations) <= Len(instantiations')
      /\ Range(instantiations') = Range(instantiations) \union Range(q)
  BY <1>1, LookUpGives
<1>3. Closed(Range(instantiations'))
  BY <1>1, <1>2 DEF Closed
<1>4. /\ instantiations' \in Seq(Fine') /\ Range(instantiations') \subseteq Fine'
      /\ \A x \in Range(instantiations') : Range(category_calls(x)') \subseteq Range(instantiations')
  BY <1>2, <1>3, SameInterface DEF Closed
<1>5. Calls(instantiations)'
  BY <1>4, Zenon DEF Calls, Closed
<1>6. (Names \subseteq ends[MaxDepth])'
  BY <1>1, SameInterface
<1> QED BY <1>1, <1>2, <1>5, <1>6, LenProperties

\* What was asked for stays there.
LEMMA AskedKeeps ==
    ASSUME iface' = iface, Range(instantiations) \subseteq Range(instantiations')
    PROVE  /\ Asked(iface.unions) => Asked(iface.unions)'
           /\ Asked(iface.structs) => Asked(iface.structs)'
<1>1. \A x : category_calls(x)' = category_calls(x)
  BY SameInterface
<1>2. ASSUME Asked(iface.unions) PROVE Asked(iface.unions)'
  BY <1>1, <1>2, SMT DEF Asked
<1>3. ASSUME Asked(iface.structs) PROVE Asked(iface.structs)'
  BY <1>1, <1>3, SMT DEF Asked
<1> QED BY <1>2, <1>3

\* The loops of generate look up what has its own with it.
LEMMA LoopsLookUp ==
    ASSUME iface \in Interfaces, Names \subseteq ends[MaxDepth]
    PROVE  /\ Calls(FlattenSeq([n \in DOMAIN iface.services |-> union_calls(iface.services[n])]))
           /\ Calls(FlattenSeq([n \in DOMAIN iface.services |-> service_calls(iface.services[n])]))
           /\ Calls(FlattenSeq([n \in DOMAIN iface.enums |-> NoCalls(iface.enums[n])]))
<1> DEFINE len == Len(iface.services)
           unions == [n \in DOMAIN iface.services |-> union_calls(iface.services[n])]
           servs  == [n \in DOMAIN iface.services |-> service_calls(iface.services[n])]
           enums  == [n \in DOMAIN iface.enums |-> NoCalls(iface.enums[n])]
<1>1. /\ len \in Nat /\ DOMAIN iface.services = 1 .. len
      /\ \A n \in 1 .. len : iface.services[n] \in Serving
      /\ Len(iface.enums) \in Nat /\ DOMAIN iface.enums = 1 .. Len(iface.enums)
  BY ServicesAre, LenProperties
<1> HIDE DEF len
<1>2. /\ \A n \in 1 .. len : Calls(union_calls(iface.services[n]))
      /\ \A n \in 1 .. len : Calls(service_calls(iface.services[n]))
  BY <1>1, UnionCallsAre, ServiceCallsAre
<1>3. /\ unions = [n \in 1 .. len |-> unions[n]] /\ \A n \in 1 .. len : Calls(unions[n])
      /\ servs = [n \in 1 .. len |-> servs[n]] /\ \A n \in 1 .. len : Calls(servs[n])
  BY <1>1, <1>2
<1>4. /\ enums = [n \in 1 .. Len(iface.enums) |-> enums[n]]
      /\ \A n \in 1 .. Len(iface.enums) : Calls(enums[n])
  BY <1>1, CallsOfNone DEF NoCalls
<1> HIDE DEF unions, servs, enums
<1>5. Calls(FlattenSeq(unions)) /\ Calls(FlattenSeq(servs)) /\ Calls(FlattenSeq(enums))
  BY <1>1, <1>3, <1>4, CallsFlatten
<1> QED BY <1>5 DEF unions, servs, enums

\* The loops over structures and unions ask for the categories of all of them.
LEMMA TypesLookUp ==
    ASSUME iface \in Interfaces, Names \subseteq ends[MaxDepth],
           NEW list \in Seq(DOMAIN iface.decl \ OfKinds(iface.decl, Generics))
    PROVE  LET q == FlattenSeq([n \in DOMAIN list |-> TypeCalls(list[n])]) IN
           /\ Calls(q)
           /\ \A n \in DOMAIN list : Range(category_calls(<<list[n]>>)) \subseteq Range(q)
<1> DEFINE len == Len(list)
           sq == [n \in DOMAIN list |-> TypeCalls(list[n])]
<1>1. /\ len \in Nat /\ DOMAIN list = 1 .. len
      /\ \A n \in 1 .. len : list[n] \in DOMAIN iface.decl /\ Kind(list[n]) \notin Generics
  BY ServicesAre, LenProperties
<1> HIDE DEF len
<1>2. \A n \in 1 .. len : /\ Calls(TypeCalls(list[n]))
                          /\ Range(category_calls(<<list[n]>>)) \subseteq Range(TypeCalls(list[n]))
  BY <1>1, TypeCallsAre
<1>3. sq = [n \in 1 .. len |-> sq[n]] /\ \A n \in 1 .. len : sq[n] = TypeCalls(list[n])
  BY <1>1
<1> HIDE DEF sq
<1>4. Calls(FlattenSeq(sq)) /\ \A n \in 1 .. len : Range(sq[n]) \subseteq Range(FlattenSeq(sq))
  BY <1>1, <1>2, <1>3, CallsFlatten
<1>5. \A n \in 1 .. len : Range(category_calls(<<list[n]>>)) \subseteq Range(FlattenSeq(sq))
  BY <1>2, <1>3, <1>4
<1> QED BY <1>1, <1>4, <1>5 DEF sq

\* What the generator of the instance the loop is at looks up.
LEMMA InstanceLooksUp ==
    ASSUME LookedUp, stage = "instances", ins <= ins_end
    PROVE  /\ instantiations[ins] \in Range(instantiations)
           /\ Kind(Head(instantiations[ins])) \in Generics =>
                 Calls(member_calls(Members(instantiations[ins])))
<1> DEFINE nm == instantiations[ins]
<1>1. /\ iface \in Interfaces /\ Names \subseteq ends[MaxDepth] /\ instantiations \in Seq(Fine)
      /\ ins \in Nat \ {0} /\ ins_end \in Nat /\ ins_end <= Len(instantiations)
  BY DEF LookedUp, Calls
<1>2. ins \in 1 .. Len(instantiations)
  BY <1>1, LenProperties
<1>3. nm \in Fine /\ nm \in Range(instantiations)
  BY <1>1, <1>2, RangeEquality
<1> HIDE DEF nm
<1>4. ASSUME Kind(Head(nm)) \in Generics PROVE Calls(member_calls(Members(nm)))
  <2>1. IsCompound(nm)
    BY <1>4 DEF IsCompound, Generics, Compounds
  <2>2. Members(nm) \in Seq(Fine)
    BY <1>1, <1>3, <2>1, CompoundDeclared, MembersFine
  <2> QED BY <1>1, <2>2, MemberCallsCalls
<1> QED BY <1>3, <1>4 DEF nm

\* Every step of generate and of the emitter keeps LookedUp.
LEMMA LookedUpNext == LookedUp /\ [BackendNext]_backend_vars => LookedUp'
<1> SUFFICES ASSUME LookedUp, [BackendNext]_backend_vars PROVE LookedUp'
  OBVIOUS
<1>1. iface \in Interfaces /\ Names \subseteq ends[MaxDepth]
  BY DEF LookedUp
\* A step that looks up q, and goes from one stage to another.
<1>2. ASSUME iface' = iface, NEW q, Calls(q),
             instantiations' = create_or_get_instantiations(instantiations, q),
             stage' \notin {"start", "enums", "unions"} => Asked(iface.unions) \/ Asked(iface.unions)',
             stage' \notin {"start", "enums", "unions", "structs"}
                => Asked(iface.structs) \/ Asked(iface.structs)',
             stage' = "instances" =>
                ins' \in Nat \ {0} /\ ins_end' \in Nat /\ ins_end' <= Len(instantiations')
      PROVE  LookedUp'
  <2>1. /\ iface' \in Interfaces /\ (Names \subseteq ends[MaxDepth])' /\ Calls(instantiations)'
        /\ Range(instantiations) \subseteq Range(instantiations')
    BY <1>2, LookUpKeeps
  <2>2. /\ stage' \notin {"start", "enums", "unions"} => Asked(iface.unions)'
        /\ stage' \notin {"start", "enums", "unions", "structs"} => Asked(iface.structs)'
    BY <1>2, <2>1, AskedKeeps
  <2> QED BY <1>2, <2>1, <2>2 DEF LookedUp
\* A step that looks nothing up.
<1>3. ASSUME iface' = iface, instantiations' = instantiations,
             stage' \notin {"start", "enums", "unions"} => Asked(iface.unions),
             stage' \notin {"start", "enums", "unions", "structs"} => Asked(iface.structs),
             stage' = "instances" =>
                ins' \in Nat \ {0} /\ ins_end' \in Nat /\ ins_end' <= Len(instantiations')
      PROVE  LookedUp'
  <2>1. Calls(<<>>) /\ Range(<<>>) = {} /\ <<>> \in Seq(Fine) /\ instantiations \in Seq(Fine)
    BY CallsOfNone DEF Range, LookedUp, Calls
  <2>2. create_or_get_instantiations(instantiations, <<>>) = instantiations
    BY <2>1, LookUpGives
  <2> QED BY <1>2, <1>3, <2>1, <2>2
<1>4. CASE RenameUnions
  BY <1>1, <1>2, <1>4, LoopsLookUp DEF RenameUnions, Collect
<1>5. CASE GenerateEnums
  BY <1>1, <1>2, <1>5, LoopsLookUp DEF GenerateEnums, Collect
<1>6. CASE GenerateUnions
  <2> DEFINE q == FlattenSeq([n \in DOMAIN iface.unions |-> TypeCalls(iface.unions[n])])
  <2>1. /\ iface' = iface /\ stage = "unions" /\ stage' = "structs"
        /\ instantiations' = create_or_get_instantiations(instantiations, q)
    BY <1>6 DEF GenerateUnions, Collect
  <2>2. Calls(q) /\ \A n \in DOMAIN iface.unions :
                       Range(category_calls(<<iface.unions[n]>>)) \subseteq Range(q)
    BY <1>1, ServicesAre, TypesLookUp
  <2> HIDE DEF q
  <2>3. Range(q) \subseteq Range(instantiations')
    BY <2>1, <2>2, LookUpKeeps
  <2>4. \A n \in DOMAIN iface.unions :
           Range(category_calls(<<iface.unions[n]>>)) \subseteq Range(instantiations')
    BY <2>2, <2>3
  <2>5. Asked(iface.unions)'
    BY <2>1, <2>4, SameInterface, SMT DEF Asked
  <2> QED BY <1>2, <2>1, <2>2, <2>5
<1>7. CASE GenerateStructs
  <2> DEFINE q == FlattenSeq([n \in DOMAIN iface.structs |-> TypeCalls(iface.structs[n])])
  <2>1. /\ iface' = iface /\ stage = "structs" /\ stage' = "services"
        /\ instantiations' = create_or_get_instantiations(instantiations, q)
    BY <1>7 DEF GenerateStructs, Collect
  <2>2. Calls(q) /\ \A n \in DOMAIN iface.structs :
                       Range(category_calls(<<iface.structs[n]>>)) \subseteq Range(q)
    BY <1>1, ServicesAre, TypesLookUp
  <2> HIDE DEF q
  <2>3. Range(q) \subseteq Range(instantiations')
    BY <2>1, <2>2, LookUpKeeps
  <2>4. \A n \in DOMAIN iface.structs :
           Range(category_calls(<<iface.structs[n]>>)) \subseteq Range(instantiations')
    BY <2>2, <2>3
  <2>5. Asked(iface.structs)'
    BY <2>1, <2>4, SameInterface, SMT DEF Asked
  <2>6. Asked(iface.unions)
    BY <2>1 DEF LookedUp
  <2> QED BY <1>2, <2>1, <2>2, <2>5, <2>6
<1>8. CASE GenerateServices
  <2> DEFINE q == FlattenSeq([n \in DOMAIN iface.services |-> service_calls(iface.services[n])])
  <2>1. /\ iface' = iface /\ stage = "services" /\ stage' = "instances"
        /\ instantiations' = create_or_get_instantiations(instantiations, q)
        /\ ins' = 1 /\ ins_end' = Len(instantiations')
    BY <1>8 DEF GenerateServices
  <2>2. Calls(q)
    BY <1>1, LoopsLookUp
  <2> HIDE DEF q
  <2>3. Len(instantiations') \in Nat
    BY <2>1, <2>2, LookUpKeeps
  <2>4. Asked(iface.unions) /\ Asked(iface.structs)
    BY <2>1 DEF LookedUp
  <2> QED BY <1>2, <2>1, <2>2, <2>3, <2>4
<1>9. CASE GenerateInstance
  <2> DEFINE nm == instantiations[ins]
             q  == IF Kind(Head(nm)) \in Generics THEN member_calls(Members(nm)) ELSE <<>>
  <2>1. /\ iface' = iface /\ stage = "instances" /\ ins <= ins_end
        /\ instantiations' = create_or_get_instantiations(instantiations, q)
        /\ ins' = ins + 1 /\ ins_end' = ins_end
    BY <1>9 DEF GenerateInstance
  <2>2. Calls(q)
    BY <2>1, InstanceLooksUp, CallsOfNone
  <2> HIDE DEF q
  <2>3. /\ Len(instantiations) \in Nat /\ Len(instantiations') \in Nat
        /\ Len(instantiations) <= Len(instantiations')
    BY <2>1, <2>2, LookUpKeeps
  <2>4. /\ Asked(iface.unions) /\ Asked(iface.structs)
        /\ ins \in Nat \ {0} /\ ins_end \in Nat /\ ins_end <= Len(instantiations)
    BY <2>1 DEF LookedUp
  <2>5. ins' \in Nat \ {0} /\ ins_end' \in Nat /\ ins_end' <= Len(instantiations')
    BY <2>1, <2>3, <2>4
  <2> QED BY <1>2, <2>1, <2>2, <2>4, <2>5
<1>10. CASE StartEmitter
  BY <1>3, <1>10 DEF StartEmitter, LookedUp
<1>11. CASE EmitPass
  BY <1>3, <1>11 DEF EmitPass, LookedUp
<1>12. CASE EndEmit
  BY <1>3, <1>12 DEF EndEmit, LookedUp
<1>13. CASE UNCHANGED backend_vars
  BY <1>3, <1>13 DEF backend_vars, LookedUp
<1> QED
  BY <1>4, <1>5, <1>6, <1>7, <1>8, <1>9, <1>10, <1>11, <1>12, <1>13 DEF BackendNext

\* NoneAddedMeanwhile: while generate goes through the instantiations, the generator of one
\* adds another only where the category of the one overlooked a member or a part of it.
THEOREM InstancesAreLookedUp == BackendSpec => NoneAddedMeanwhile
<1>1. LookedUp /\ [BackendNext]_backend_vars =>
         [stage = "instances" /\ instantiations' # instantiations
             => Overlooked(instantiations[ins])]_backend_vars
  <2> SUFFICES ASSUME LookedUp, BackendNext, stage = "instances", instantiations' # instantiations,
                      ~Overlooked(instantiations[ins])
               PROVE  FALSE
    BY DEF backend_vars
  <2>1. GenerateInstance
    BY DEF BackendNext, RenameUnions, GenerateEnums, GenerateUnions, GenerateStructs, Collect,
           GenerateServices, StartEmitter, EmitPass, EndEmit
  <2> DEFINE nm == instantiations[ins]
             q  == IF Kind(Head(nm)) \in Generics THEN member_calls(Members(nm)) ELSE <<>>
  <2>2. ins <= ins_end /\ instantiations' = create_or_get_instantiations(instantiations, q)
    BY <2>1 DEF GenerateInstance
  <2>3. nm \in Range(instantiations) /\ Calls(q)
    BY <2>2, InstanceLooksUp, CallsOfNone
  <2>4. Range(q) \subseteq Range(instantiations)
    <3>1. CASE Kind(Head(nm)) \in Generics
      BY <2>3, <3>1, NothingNew
    <3>2. CASE Kind(Head(nm)) \notin Generics
      BY <3>2 DEF Range
    <3> QED BY <3>1, <3>2
  <2> HIDE DEF q
  <2>5. instantiations \in Seq(Fine) /\ q \in Seq(Fine)
    BY <2>3 DEF LookedUp, Calls
  <2>6. create_or_get_instantiations(instantiations, q) = instantiations
    BY <2>4, <2>5, LookUpGives
  <2> QED BY <2>2, <2>6
<1> QED BY <1>1, LookedUpInit, LookedUpNext, PTL DEF BackendSpec, NoneAddedMeanwhile

------------------------------------------------------------------------------
\* The passes of the emitter over the sections that the back end has collected.

\* What the passes before pass p have written, and what pass p finds.
Upto(p)    == UNION {passes[q] : q \in 1 .. p - 1}
KeysOf(ns) == UNION {m_sections[n].keys : n \in ns}
ReadyAt(p) == {n \in DOMAIN m_sections \ Upto(p) :
                  m_sections[n].depends_on \subseteq GivenKeys \union KeysOf(Upto(p))}

\* A pass wrote what was ready when it began.
PassesReady ==
    /\ passes \in Seq(SUBSET DOMAIN m_sections)
    /\ \A p \in DOMAIN passes : passes[p] = ReadyAt(p)
    /\ stage \notin {"emit", "done", "failed"} => passes = <<>>
    /\ stage = "done" => Written = DOMAIN m_sections

\* What a pass of the emitter finds, in terms of the passes before.
LEMMA EmissionReady ==
    ASSUME passes \in Seq(SUBSET DOMAIN m_sections)
    PROVE  /\ Emission!Ready = ReadyAt(Len(passes) + 1)
           /\ Written = Upto(Len(passes) + 1)
<1>1. Len(passes) \in Nat /\ DOMAIN passes = 1 .. Len(passes) /\ Len(passes) + 1 - 1 = Len(passes)
  BY LenProperties
<1>2. Written = Upto(Len(passes) + 1)
  BY <1>1 DEF Written, Upto, Range
<1>3. Emission!Ready = {n \in DOMAIN m_sections \ Written :
                          m_sections[n].depends_on \subseteq GivenKeys \union KeysOf(Written)}
  BY DEF Emission!Ready, Emission!Indices, Emission!Provided, KeysOf
<1> QED BY <1>2, <1>3 DEF ReadyAt

\* PassesReady holds of no passes, and every step keeps it.
LEMMA PassesReadyInit == BackendInit => PassesReady
<1> SUFFICES ASSUME BackendInit PROVE PassesReady
  OBVIOUS
<1>1. passes = <<>> /\ stage = "start"
  BY DEF BackendInit
<1>2. <<>> \in Seq(SUBSET DOMAIN m_sections) /\ DOMAIN <<>> = {}
  BY EmptySeq
<1> QED BY <1>1, <1>2 DEF PassesReady

\* and every step of generate and of the emitter keeps it.
LEMMA PassesReadyNext == PassesReady /\ [BackendNext]_backend_vars => PassesReady'
<1> SUFFICES ASSUME PassesReady, [BackendNext]_backend_vars PROVE PassesReady'
  OBVIOUS
\* The steps of generate, before the first pass.
<1>1. ASSUME passes' = passes, stage \notin {"emit", "done", "failed"},
             stage' # "done"
      PROVE  PassesReady'
  <2>1. passes' = <<>> /\ DOMAIN <<>> = {}
    BY <1>1, EmptySeq DEF PassesReady
  <2>2. <<>> \in Seq(SUBSET DOMAIN m_sections')
    BY EmptySeq
  <2> QED BY <1>1, <2>1, <2>2 DEF PassesReady
\* The steps that change no section.
<1>2. ASSUME m_sections' = m_sections, iface' = iface
      PROVE  /\ GivenKeys' = GivenKeys
             /\ \A ns : KeysOf(ns)' = KeysOf(ns)
  BY <1>2 DEF GivenKeys, KeysOf
<1>3. CASE EmitPass
  <2> DEFINE len == Len(passes)
             ready == ReadyAt(len + 1)
  <2>1. /\ m_sections' = m_sections /\ iface' = iface /\ stage = "emit" /\ stage' = stage
        /\ passes \in Seq(SUBSET DOMAIN m_sections)
    BY <1>3 DEF EmitPass, PassesReady
  <2>2. passes' = Append(passes, ready)
    BY <1>3, <2>1, EmissionReady DEF EmitPass
  <2>3. ready \in SUBSET DOMAIN m_sections /\ len \in Nat
    BY <2>1, LenProperties DEF ReadyAt
  <2> HIDE DEF ready, len
  <2>4. /\ passes' \in Seq(SUBSET DOMAIN m_sections) /\ DOMAIN passes' = 1 .. len + 1
        /\ DOMAIN passes = 1 .. len
        /\ passes'[len + 1] = ready /\ \A q \in 1 .. len : passes'[q] = passes[q]
    BY <2>1, <2>2, <2>3, AppendProperties, LenProperties DEF len
  <2>5. ASSUME NEW p \in 1 .. len + 1 PROVE Upto(p)' = Upto(p)
    <3>1. \A q \in 1 .. p - 1 : passes'[q] = passes[q]
      BY <2>3, <2>4
    <3>2. {passes'[q] : q \in 1 .. p - 1} = {passes[q] : q \in 1 .. p - 1}
      BY <3>1
    <3> QED BY <3>2 DEF Upto
  <2>6. ASSUME NEW p \in 1 .. len + 1 PROVE ReadyAt(p)' = ReadyAt(p)
    <3>1. Upto(p)' = Upto(p)
      BY <2>5
    <3>2. (KeysOf(Upto(p)))' = KeysOf(Upto(p))
      BY <2>1, <3>1 DEF KeysOf
    <3> QED BY <1>2, <2>1, <3>1, <3>2 DEF ReadyAt
  <2>7. ASSUME NEW p \in 1 .. len + 1 PROVE passes'[p] = ReadyAt(p)'
    <3>1. CASE p = len + 1
      BY <2>4, <2>6, <3>1 DEF ready, len
    <3>2. CASE p # len + 1
      <4>1. p \in 1 .. len
        BY <2>3, <3>2
      <4>2. passes[p] = ReadyAt(p)
        BY <2>4, <4>1 DEF PassesReady
      <4> QED BY <2>4, <2>6, <4>1, <4>2
    <3> QED BY <3>1, <3>2
  <2> QED BY <2>1, <2>4, <2>7 DEF PassesReady
\* The end of the emitter, and a stutter.
<1>4. ASSUME m_sections' = m_sections, iface' = iface, passes' = passes,
             stage' \in {"emit", "done", "failed"}, stage' = "done" => Written = DOMAIN m_sections
      PROVE  PassesReady'
  <2>1. \A p : ReadyAt(p)' = ReadyAt(p)
    BY <1>2, <1>4 DEF ReadyAt, Upto, KeysOf
  <2>2. passes \in Seq(SUBSET DOMAIN m_sections) /\ \A p \in DOMAIN passes : passes[p] = ReadyAt(p)
    BY DEF PassesReady
  <2>3. Written' = Written
    BY <1>4 DEF Written
  <2> QED BY <1>4, <2>1, <2>2, <2>3 DEF PassesReady
<1>5. CASE EndEmit
  BY <1>4, <1>5 DEF EndEmit
<1>6. CASE UNCHANGED backend_vars
  <2>1. CASE stage \in {"emit", "done", "failed"}
    BY <1>4, <1>6, <2>1 DEF backend_vars, PassesReady
  <2>2. CASE stage \notin {"emit", "done", "failed"}
    BY <1>1, <1>6, <2>2 DEF backend_vars
  <2> QED BY <2>1, <2>2
<1>7. CASE RenameUnions \/ GenerateEnums \/ GenerateUnions \/ GenerateStructs
  BY <1>1, <1>7 DEF RenameUnions, GenerateEnums, GenerateUnions, GenerateStructs, Collect
<1>8. CASE GenerateServices \/ GenerateInstance \/ StartEmitter
  BY <1>1, <1>8 DEF GenerateServices, GenerateInstance, StartEmitter
<1> QED BY <1>3, <1>5, <1>6, <1>7, <1>8 DEF BackendNext

------------------------------------------------------------------------------
\* What a finished emitter has written, pass by pass.
LEMMA InAPass ==
    ASSUME PassesReady, stage = "done", NEW n \in DOMAIN m_sections
    PROVE  /\ PassOf(n) \in 1 .. Len(passes) /\ n \in passes[PassOf(n)]
           /\ \A p \in 1 .. Len(passes) : n \in passes[p] => p = PassOf(n)
           /\ n \in ReadyAt(PassOf(n))
<1>1. /\ DOMAIN passes = 1 .. Len(passes) /\ Len(passes) \in Nat
      /\ \A p \in 1 .. Len(passes) : passes[p] = ReadyAt(p)
      /\ Written = DOMAIN m_sections
  BY LenProperties DEF PassesReady
<1>2. \E p \in DOMAIN passes : n \in passes[p]
  BY <1>1 DEF Written, Range
<1>3. PassOf(n) \in 1 .. Len(passes) /\ n \in passes[PassOf(n)]
  BY <1>1, <1>2, Zenon DEF PassOf
<1>4. ASSUME NEW p \in 1 .. Len(passes), NEW q \in 1 .. Len(passes), n \in passes[p], n \in passes[q]
      PROVE  ~ (p < q)
  <2> SUFFICES ASSUME p < q PROVE FALSE
    OBVIOUS
  <2>1. p \in 1 .. q - 1
    BY <1>1, <1>4
  <2>2. n \in Upto(q)
    BY <1>4, <2>1, Zenon DEF Upto
  <2>3. n \in ReadyAt(q)
    BY <1>1, <1>4
  <2> QED BY <2>2, <2>3 DEF ReadyAt
<1>5. ASSUME NEW p \in 1 .. Len(passes), n \in passes[p] PROVE p = PassOf(n)
  <2>1. ~ (p < PassOf(n)) /\ ~ (PassOf(n) < p)
    BY <1>3, <1>4, <1>5
  <2> QED BY <1>1, <1>3, <2>1
<1> QED BY <1>1, <1>3, <1>5

\* A key that a section depends on was there or is that of a section of an earlier pass.
LEMMA Earlier ==
    ASSUME PassesReady, stage = "done", NEW n \in DOMAIN m_sections,
           NEW key \in m_sections[n].depends_on
    PROVE  key \in GivenKeys \/ \E m \in With(key) : PassOf(m) < PassOf(n)
<1>1. n \in ReadyAt(PassOf(n)) /\ PassOf(n) \in 1 .. Len(passes)
  BY InAPass
<1>2. key \in GivenKeys \union KeysOf(Upto(PassOf(n)))
  BY <1>1 DEF ReadyAt
<1> SUFFICES ASSUME key \in KeysOf(Upto(PassOf(n))) PROVE \E m \in With(key) : PassOf(m) < PassOf(n)
  BY <1>2
<1>3. PICK m \in Upto(PassOf(n)) : key \in m_sections[m].keys
  BY DEF KeysOf
<1>4. PICK q \in 1 .. PassOf(n) - 1 : m \in passes[q]
  BY <1>3 DEF Upto
<1>5. Len(passes) \in Nat /\ DOMAIN passes = 1 .. Len(passes) /\ passes \in Seq(SUBSET DOMAIN m_sections)
  BY LenProperties DEF PassesReady
<1>6. q \in 1 .. Len(passes) /\ q < PassOf(n)
  BY <1>1, <1>5
<1>7. m \in DOMAIN m_sections
  BY <1>4, <1>5, <1>6, ElementOfSeq
<1>8. PassOf(m) = q
  BY <1>4, <1>6, <1>7, InAPass
<1> QED BY <1>3, <1>6, <1>7, <1>8 DEF With

\* A section is written by the first pass that finds what it depends on.
LEMMA Prompt ==
    ASSUME PassesReady, stage = "done", NEW n \in DOMAIN m_sections, NEW p \in 1 .. Len(passes),
           \A key \in m_sections[n].depends_on :
              key \in GivenKeys \/ \E m \in With(key) : PassOf(m) < p
    PROVE  PassOf(n) <= p
<1>1. /\ DOMAIN passes = 1 .. Len(passes) /\ Len(passes) \in Nat
      /\ \A q \in 1 .. Len(passes) : passes[q] = ReadyAt(q)
  BY LenProperties DEF PassesReady
<1>2. PassOf(n) \in 1 .. Len(passes) /\ n \in passes[PassOf(n)]
  BY InAPass
<1>3. CASE n \in Upto(p)
  <2>1. PICK q \in 1 .. p - 1 : n \in passes[q]
    BY <1>3 DEF Upto
  <2>2. q \in 1 .. Len(passes) /\ q < p
    BY <1>1
  <2>3. q = PassOf(n)
    BY <2>1, <2>2, InAPass
  <2> QED BY <2>2, <2>3
<1>4. CASE n \notin Upto(p)
  <2>1. ASSUME NEW key \in m_sections[n].depends_on
        PROVE  key \in GivenKeys \union KeysOf(Upto(p))
    <3>1. CASE key \in GivenKeys
      BY <3>1
    <3>2. CASE key \notin GivenKeys
      <4>1. PICK m \in With(key) : PassOf(m) < p
        BY <3>2, <1>4
      <4>2. m \in DOMAIN m_sections /\ key \in m_sections[m].keys
        BY DEF With
      <4>3. PassOf(m) \in 1 .. Len(passes) /\ m \in passes[PassOf(m)]
        BY <4>2, InAPass
      <4>4. PassOf(m) \in 1 .. p - 1
        BY <4>1, <4>3, <1>1
      <4>5. m \in Upto(p)
        BY <4>3, <4>4, Zenon DEF Upto
      <4> QED BY <4>2, <4>5 DEF KeysOf
    <3> QED BY <3>1, <3>2
  <2>2. n \in ReadyAt(p)
    BY <1>4, <2>1 DEF ReadyAt
  <2>3. p = PassOf(n)
    BY <1>1, <2>2, InAPass
  <2> QED BY <1>2, <2>3
<1> QED BY <1>3, <1>4

------------------------------------------------------------------------------
\* The keys of names.

\* The keys that one symbol of a name and what is inside it depend on.
KeysAt(s) ==
    {<<IF Len(s) = 1 THEN "definition" ELSE "generic_declaration", <<Head(s)>>>>}
    \union (IF Len(s) = 1 /\ Kind(s[1]) \in Compounds /\ is_reference_type(s)
            THEN {<<"lidl_traits", s>>} ELSE {})
    \union (IF Len(s) > 1 /\ Kind(Head(s)) \in Generics THEN {<<"definition", s>>} ELSE {})

\* The keys of a name, symbol by symbol.
LEMMA KeysAre ==
    ASSUME iface \in Interfaces, NEW nm \in Proper
    PROVE  def_keys_from_name(nm) = UNION {KeysAt(SubSeq(nm, k, Len(nm))) : k \in 1 .. Len(nm)}
<1>1. Range(NestedNames(nm)) = {SubSeq(nm, k, Len(nm)) : k \in 1 .. Len(nm)}
  BY NestedAre
<1>2. def_keys_from_name(nm) = UNION {KeysAt(s) : s \in Range(NestedNames(nm))}
  BY Zenon DEF def_keys_from_name, KeysAt
<1> QED BY <1>1, <1>2, Zenon

\* What is inside a name depends on nothing else.
LEMMA KeysOfSuffix ==
    ASSUME iface \in Interfaces, NEW nm \in Proper, NEW k \in 1 .. Len(nm)
    PROVE  def_keys_from_name(SubSeq(nm, k, Len(nm))) \subseteq def_keys_from_name(nm)
<1> DEFINE s == SubSeq(nm, k, Len(nm))
<1>1. s \in Proper /\ Len(s) = Len(nm) - k + 1 /\ Len(nm) \in Nat /\ nm \in Seq(Symbols)
  BY SuffixProper, ProperIs
<1>2. ASSUME NEW m \in 1 .. Len(s)
      PROVE  k + m - 1 \in 1 .. Len(nm) /\ SubSeq(s, m, Len(s)) = SubSeq(nm, k + m - 1, Len(nm))
  <2>1. /\ Len(nm) \in 1 .. Len(nm) /\ k + m - 1 \in 1 .. Len(nm)
        /\ m \in 1 .. Len(nm) - k + 1 /\ Len(s) \in 1 .. Len(nm) - k + 1
        /\ k + Len(s) - 1 = Len(nm)
    BY <1>1
  <2>2. SubSeq(s, m, Len(s)) = SubSeq(nm, k + m - 1, k + Len(s) - 1)
    BY <1>1, <2>1, SubSeqOfSubSeq
  <2> QED BY <2>1, <2>2
<1> HIDE DEF s
<1>3. /\ def_keys_from_name(s) = UNION {KeysAt(SubSeq(s, m, Len(s))) : m \in 1 .. Len(s)}
      /\ def_keys_from_name(nm) = UNION {KeysAt(SubSeq(nm, m, Len(nm))) : m \in 1 .. Len(nm)}
  BY <1>1, KeysAre
<1> SUFFICES ASSUME NEW m \in 1 .. Len(s), NEW key \in KeysAt(SubSeq(s, m, Len(s)))
             PROVE  key \in def_keys_from_name(nm)
  BY <1>3, Zenon DEF s
<1>4. key \in KeysAt(SubSeq(nm, k + m - 1, Len(nm))) /\ k + m - 1 \in 1 .. Len(nm)
  BY <1>2
<1> QED BY <1>3, <1>4, Zenon

\* A name that holds no pointer and no vector at its head depends on its own definition.
LEMMA OwnKey ==
    ASSUME iface \in Interfaces, NEW nm \in Proper, Head(nm) \notin {"ptr", "vector"}
    PROVE  <<"definition", nm>> \in def_keys_from_name(nm)
<1>1. /\ nm \in Seq(Symbols) /\ Len(nm) \in Nat \ {0} /\ Head(nm) = nm[1]
      /\ \A k \in 1 .. Len(nm) : nm[k] \in Takers <=> k < Len(nm)
  BY ProperIs
<1>2. 1 \in 1 .. Len(nm) /\ SubSeq(nm, 1, Len(nm)) = nm
  BY <1>1, SubSeqFull
<1>3. KeysAt(nm) \subseteq def_keys_from_name(nm)
  BY <1>2, KeysAre, Zenon
<1>4. CASE Len(nm) = 1
  <2>1. nm = <<Head(nm)>>
    BY <1>1, <1>4
  <2>2. <<"definition", <<Head(nm)>>>> \in KeysAt(nm)
    BY <1>4, Zenon DEF KeysAt
  <2> QED BY <1>3, <2>1, <2>2, Zenon
<1>5. CASE Len(nm) # 1
  <2>1. Len(nm) > 1 /\ nm[1] \in Takers
    BY <1>1, <1>2, <1>5
  <2>2. Kind(Head(nm)) \in Generics
    <3>1. Head(nm) \in DOMAIN iface.decl /\ iface.decl[Head(nm)].kind \in Generics
      BY <1>1, <2>1 DEF Takers, OfKinds
    <3> QED BY <3>1, InterfaceIs
  <2>3. <<"definition", nm>> \in KeysAt(nm)
    BY <2>1, <2>2, Zenon DEF KeysAt
  <2> QED BY <1>3, <2>3
<1> QED BY <1>4, <1>5

\* The keys of the language's own types.
OwnKeys == {"definition", "generic_declaration"} \X {<<x>> : x \in Intrinsics}

\* The language's own types need no other keys.
LEMMA KeysOfOwn ==
    ASSUME NEW s, Head(s) \in Intrinsics, s[1] = Head(s)
    PROVE  KeysAt(s) \subseteq OwnKeys
<1>1. Kind(Head(s)) \notin Compounds /\ Kind(Head(s)) \notin Generics
  BY IntrinsicKind DEF Generics, Compounds
<1>2. KeysAt(s) = {<<IF Len(s) = 1 THEN "definition" ELSE "generic_declaration", <<Head(s)>>>>}
  BY <1>1 DEF KeysAt
<1> QED BY <1>2 DEF OwnKeys

\* A name depends on no more than its name on the wire, the language's own types apart.
LEMMA KeysOfWire ==
    ASSUME iface \in Interfaces, NEW nm \in Fine
    PROVE  def_keys_from_name(nm) \subseteq def_keys_from_name(get_wire_type_name(nm)) \union OwnKeys
<1> DEFINE others == {k \in DOMAIN nm : nm[k] # "vector"}
           at == Min(others)
           rest == SubSeq(nm, at, Len(nm))
           wire == CASE Head(rest) = "ptr" -> rest
                     [] Head(rest) = "string_view" -> <<"ptr", "string">>
                     [] OTHER -> IF is_reference_type(rest) THEN <<"ptr">> \o rest ELSE rest
           pairs == FlattenSeq([k \in 1 .. at - 1 |-> <<"ptr", "vector">>])
           all == get_wire_type_name(nm)
<1>1. all = pairs \o wire
  BY Zenon DEF get_wire_type_name
<1>2. /\ nm \in Proper /\ nm \in Seq(Symbols) /\ Len(nm) \in Nat \ {0} /\ DOMAIN nm = 1 .. Len(nm)
      /\ nm[Len(nm)] # "vector"
      /\ \A k \in 1 .. Len(nm) : nm[k] \in Takers <=> k < Len(nm)
  BY FineIs, ProperIs
<1>3. others \subseteq Nat /\ Len(nm) \in others
  BY <1>2
<1>4. at \in others /\ \A k \in others : at <= k
  <2> HIDE DEF others
  <2>1. \E x \in others : \A y \in others : x <= y
    BY <1>3, LeastNat
  <2> QED BY <2>1 DEF Min
<1>5. at \in 1 .. Len(nm) /\ \A k \in 1 .. Len(nm) : k < at => nm[k] = "vector"
  <2>1. at \in DOMAIN nm /\ nm[at] # "vector"
    BY <1>4, Zenon
  <2>2. \A k \in DOMAIN nm : nm[k] # "vector" => at <= k
    BY <1>4, Zenon
  <2> HIDE DEF others, at
  <2>3. at \in 1 .. Len(nm)
    BY <1>2, <2>1
  <2>4. \A k \in 1 .. Len(nm) : k < at => ~ (at <= k)
    BY <1>2, <2>3
  <2> QED BY <1>2, <2>2, <2>3, <2>4, Zenon
<1>6. all \in Proper /\ all \in Fine
  BY WireName, FineIs
<1> HIDE DEF others, at
<1>7. /\ rest \in Fine /\ rest \in Proper /\ rest \in Seq(Symbols) /\ Head(rest) = nm[at]
      /\ Len(rest) = Len(nm) - at + 1
  BY <1>2, <1>5, FineSuffix, SuffixProper, FineIs, ProperIs
<1> HIDE DEF rest
<1>8. pairs \in Seq(Symbols)
  <2>1. <<"ptr", "vector">> \in Seq(Symbols) /\ at - 1 \in Nat
    BY <1>5 DEF Symbols, Intrinsics
  <2>2. [k \in 1 .. at - 1 |-> <<"ptr", "vector">>] \in [1 .. at - 1 -> Seq(Symbols)]
    BY <2>1
  <2> QED BY <2>1, <2>2, FlattenMap
<1> HIDE DEF pairs
\* What the wire name ends in, it depends on.
<1>9. ASSUME NEW q \in Seq(Symbols), NEW x \in Proper, all = q \o x
      PROVE  def_keys_from_name(x) \subseteq def_keys_from_name(all)
  <2>1. x \in Seq(Symbols) /\ Len(x) \in Nat \ {0} /\ Len(q) \in Nat
    BY ProperIs, LenProperties
  <2>2. Len(all) = Len(q) + Len(x) /\ all \in Seq(Symbols)
    BY <1>9, <2>1, ConcatProperties
  <2>3. Len(q) + 1 \in 1 .. Len(all)
    BY <2>1, <2>2
  <2>4. SubSeq(q \o x, Len(q) + 1, Len(q) + Len(x)) = x
    <3>1. SubSeq(q \o x, Len(q) + 1, Len(q) + Len(x)) = SubSeq(x, 1, Len(x))
      <4>1. /\ Len(q) + 1 \in Len(q) + 1 .. Len(q) + Len(x)
            /\ Len(q) + Len(x) \in Len(q) + 1 .. Len(q) + Len(x)
            /\ Len(q) + 1 - Len(q) = 1 /\ Len(q) + Len(x) - Len(q) = Len(x)
        BY <2>1
      <4> QED BY <2>1, <4>1, SubSeqOfConcat2
    <3> QED BY <2>1, <3>1, SubSeqFull
  <2>5. SubSeq(all, Len(q) + 1, Len(all)) = x
    BY <1>9, <2>2, <2>4
  <2> QED BY <1>6, <2>3, <2>5, KeysOfSuffix
<1>10. def_keys_from_name(rest) \subseteq def_keys_from_name(all) \union OwnKeys
  <2>1. CASE wire = rest
    BY <1>1, <1>7, <1>8, <1>9, <2>1
  <2>2. CASE Head(rest) = "string_view"
    <3>1. Len(rest) = 1
      <4>1. rest[1] \notin Takers
        <5>1. "string_view" \notin Takers
          BY InterfaceIs DEF Takers, OfKinds, Intrinsics
        <5> QED BY <1>7, <2>2, <5>1, ProperIs
      <4>2. /\ Len(rest) \in Nat \ {0}
            /\ \A k \in 1 .. Len(rest) : rest[k] \in Takers <=> k < Len(rest)
        BY <1>7, ProperIs
      <4>3. 1 \in 1 .. Len(rest)
        BY <4>2
      <4>4. ~ (1 < Len(rest))
        BY <4>1, <4>2, <4>3, Zenon
      <4>5. Len(rest) \in Nat \ {0}
        BY <4>2, Zenon
      <4> DEFINE n == Len(rest)
      <4> HIDE DEF wire, all, n
      <4>6. n \in Nat /\ n # 0 /\ ~ (1 < n)
        BY <4>4, <4>5, Zenon DEF n
      <4>7. n = 1
        BY <4>6
      <4> QED BY <4>7 DEF n
    <3>2. SubSeq(rest, 1, 1) = rest /\ rest[1] = Head(rest)
      <4>1. rest[1] = Head(rest)
        BY <1>7, ProperIs
      <4>2. SubSeq(rest, 1, Len(rest)) = rest
        BY <1>7, SubSeqFull
      <4> QED BY <3>1, <4>1, <4>2
    <3>3. \A k \in 1 .. Len(rest) : SubSeq(rest, k, Len(rest)) = rest
      BY <3>1, <3>2
    <3>4. KeysAt(rest) \subseteq OwnKeys
      BY <2>2, <3>2, KeysOfOwn DEF Intrinsics
    <3>5. def_keys_from_name(rest) = UNION {KeysAt(SubSeq(rest, k, Len(rest))) : k \in 1 .. Len(rest)}
      BY <1>7, KeysAre
    <3> QED BY <3>3, <3>4, <3>5, Zenon
  <2>3. CASE wire = <<"ptr">> \o rest
    <3>1. <<"ptr">> \in Seq(Symbols)
      BY DEF Symbols, Intrinsics
    <3> HIDE DEF all, wire
    <3>2. pairs \o <<"ptr">> \in Seq(Symbols) /\ (pairs \o <<"ptr">>) \o rest = pairs \o (<<"ptr">> \o rest)
      BY <1>7, <1>8, <3>1, ConcatProperties, ConcatAssociative, Z3
    <3>3. all = (pairs \o <<"ptr">>) \o rest
      BY <1>1, <2>3, <3>2, Zenon
    <3>4. def_keys_from_name(rest) \subseteq def_keys_from_name(all)
      BY <1>7, <1>9, <3>2, <3>3, Zenon
    <3> QED BY <3>4
  <2> QED BY <2>1, <2>2, <2>3
<1>11. ASSUME NEW k \in 1 .. Len(nm), NEW key \in KeysAt(SubSeq(nm, k, Len(nm)))
       PROVE  key \in def_keys_from_name(rest) \union OwnKeys
  <2> DEFINE s == SubSeq(nm, k, Len(nm))
  <2>1. Head(s) = nm[k] /\ s \in Proper
    BY <1>2, SuffixProper
  <2>2. CASE k < at
    <3>1. Head(s) \in Intrinsics /\ s[1] = Head(s)
      BY <1>5, <2>1, <2>2, ProperIs DEF Intrinsics
    <3> QED BY <1>11, <3>1, KeysOfOwn
  <2>3. CASE ~ (k < at)
    <3>1. /\ k - at + 1 \in 1 .. Len(rest) /\ Len(rest) \in 1 .. Len(nm) - at + 1
          /\ k - at + 1 \in 1 .. Len(nm) - at + 1 /\ Len(nm) \in 1 .. Len(nm)
          /\ at + (k - at + 1) - 1 = k /\ at + Len(rest) - 1 = Len(nm)
      BY <1>2, <1>5, <1>7, <2>3
    <3>2. SubSeq(rest, k - at + 1, Len(rest)) = s
      <4>1. SubSeq(rest, k - at + 1, Len(rest)) = SubSeq(nm, at + (k - at + 1) - 1, at + Len(rest) - 1)
        BY <1>2, <1>5, <3>1, SubSeqOfSubSeq DEF rest
      <4> QED BY <3>1, <4>1
    <3>3. def_keys_from_name(rest) = UNION {KeysAt(SubSeq(rest, m, Len(rest))) : m \in 1 .. Len(rest)}
      BY <1>7, KeysAre
    <3>4. key \in KeysAt(SubSeq(rest, k - at + 1, Len(rest)))
      BY <1>11, <3>2
    <3> QED BY <3>1, <3>3, <3>4, Zenon
  <2> QED BY <2>2, <2>3
<1>12. def_keys_from_name(nm) = UNION {KeysAt(SubSeq(nm, k, Len(nm))) : k \in 1 .. Len(nm)}
  BY <1>2, KeysAre
<1> HIDE DEF all
<1>13. def_keys_from_name(nm) \subseteq def_keys_from_name(rest) \union OwnKeys
  BY <1>11, <1>12, Zenon
<1> QED BY <1>10, <1>13 DEF all

------------------------------------------------------------------------------
\* What the keys of sections say, and how lists of sections are put together.

\* Types that are declared, instances of generics, and the name that the section of a type's
\* operator== goes by.
Own       == {<<s>> : s \in {t \in DOMAIN iface.decl : Kind(t) \in Compounds \ Generics}}
OfGeneric == {nm \in Fine : Kind(Head(nm)) \in Generics}
Holders   == Own \union OfGeneric \union CallUnions
Sym(c)    == IF c \in OfGeneric THEN <<"throwaway">> \o c ELSE c

\* What the keys of a section say of what it depends on; have: the instances that are known.
Sound(r, have) ==
    /\ \A c \in Holders : <<"definition", c>> \in r.keys =>
          \A nm \in Held(c) : def_keys_from_name(nm) \subseteq r.depends_on
    /\ \A x : <<"eq_operator", x>> \in r.keys => <<"definition", x>> \in r.depends_on
    /\ \A c \in OfGeneric : <<"definition", <<"throwaway">> \o c>> \in r.keys =>
          <<"definition", c>> \in r.keys
    /\ \A c \in OfGeneric : <<"definition", c>> \in r.keys => c \in have
    /\ \A c \in CallUnions : <<"definition", c>> \in r.keys =>
          <<"wire_types", <<c[2]>>>> \in r.depends_on
    /\ \A s \in Range(iface.services) : <<"wire_types", <<s>>>> \in r.keys =>
          <<"definition", <<s>>>> \in r.depends_on
    /\ \A s \in Range(iface.services) : <<"service_descriptor", <<s>>>> \in r.keys =>
          \A u \in Range(Unions(s)) : <<"definition", u>> \in r.depends_on

\* With the definition of a type there is its operator==, which waits for nothing else.
Compares(e, r, c) ==
    /\ <<"eq_operator", Sym(c)>> \in e.keys
    /\ e.depends_on \subseteq r.keys \union r.depends_on
Paired(sects) ==
    \A r \in sects : \A c \in Own \union OfGeneric :
        <<"definition", c>> \in r.keys /\ Comparable(c) => \E e \in sects : Compares(e, r, c)

Sections(q, have) ==
    /\ q \in Seq(Range(q))
    /\ \A r \in Range(q) : Sound(r, have)
    /\ Paired(Range(q))

\* No sections are sound,
LEMMA NoSection == \A have : Sections(<<>>, have)
<1>1. <<>> \in Seq(Range(<<>>)) /\ Range(<<>>) = {}
  BY DEF Range
<1> QED BY <1>1 DEF Sections, Paired

\* and so is what is put together of sound ones: sets that are each paired,
LEMMA PairedUnion ==
    ASSUME NEW sets, \A s \in sets : Paired(s) PROVE Paired(UNION sets)
<1> SUFFICES ASSUME NEW s \in sets, NEW r \in s, NEW c \in Own \union OfGeneric,
                    <<"definition", c>> \in r.keys, Comparable(c)
             PROVE  \E e \in UNION sets : Compares(e, r, c)
  BY Zenon DEF Paired
<1>1. \E e \in s : Compares(e, r, c)
  BY Zenon DEF Paired
<1> QED BY <1>1, Zenon

\* two lists of sections.
LEMMA SectionsConcat ==
    ASSUME NEW have, NEW q, Sections(q, have), NEW r, Sections(r, have)
    PROVE  Sections(q \o r, have) /\ Range(q \o r) = Range(q) \union Range(r)
<1> DEFINE S == Range(q) \union Range(r)
<1>1. q \in Seq(S) /\ r \in Seq(S)
  <2>1. q \in Seq(Range(q)) /\ r \in Seq(Range(r))
    BY DEF Sections
  <2>2. Range(q) \subseteq S /\ Range(r) \subseteq S
    OBVIOUS
  <2> HIDE DEF S
  <2> QED BY <2>1, <2>2
<1>2. q \o r \in Seq(S) /\ Range(q \o r) = S
  BY <1>1, ConcatProperties, RangeConcatenation
<1>3. Paired(S)
  <2>1. \A s \in {Range(q), Range(r)} : Paired(s)
    BY DEF Sections
  <2>2. Paired(UNION {Range(q), Range(r)})
    BY <2>1, PairedUnion
  <2>3. UNION {Range(q), Range(r)} = S
    OBVIOUS
  <2> QED BY <2>2, <2>3, Zenon
<1>4. \A x \in S : Sound(x, have)
  BY DEF Sections
<1> QED BY <1>2, <1>3, <1>4 DEF Sections

\* A list of len lists.
IsList(sq, len) == sq = [k \in 1 .. len |-> sq[k]]

\* So are lists of such lists.
LEMMA SectionsFlatten ==
    ASSUME NEW have, NEW len \in Nat, NEW sq, IsList(sq, len),
           \A k \in 1 .. len : Sections(sq[k], have)
    PROVE  /\ Sections(FlattenSeq(sq), have)
           /\ Range(FlattenSeq(sq)) = UNION {Range(sq[k]) : k \in 1 .. len}
<1> DEFINE sets == {Range(sq[k]) : k \in 1 .. len}
           S == UNION sets
<1>1. sq \in [1 .. len -> Seq(S)]
  <2>1. ASSUME NEW k \in 1 .. len PROVE sq[k] \in Seq(S)
    <3>1. sq[k] \in Seq(Range(sq[k])) /\ Range(sq[k]) \subseteq S
      BY Zenon DEF Sections
    <3> HIDE DEF S
    <3> QED BY <3>1
  <2> HIDE DEF S
  <2> QED BY <2>1 DEF IsList
<1>2. FlattenSeq(sq) \in Seq(S) /\ Range(FlattenSeq(sq)) = S
  <2>1. ASSUME NEW T, NEW r \in [1 .. len -> Seq(T)]
        PROVE  /\ FlattenSeq(r) \in Seq(T)
               /\ Range(FlattenSeq(r)) = UNION {Range(r[k]) : k \in 1 .. len}
    BY FlattenMap
  <2> QED BY <1>1, <2>1, Zenon
<1>3. \A s \in sets : Paired(s)
  BY DEF Sections
<1>4. \A x \in S : Sound(x, have)
  BY Zenon DEF Sections
<1> HIDE DEF sets
<1>5. Paired(S)
  BY <1>3, PairedUnion
<1> QED BY <1>2, <1>4, <1>5 DEF Sections, sets

\* They stay sound when more instances are known.
LEMMA SectionsMore ==
    ASSUME NEW few, NEW have, few \subseteq have, NEW q, Sections(q, few)
    PROVE  Sections(q, have)
<1>1. \A r \in Range(q) : Sound(r, have)
  BY Zenon DEF Sections, Sound
<1> QED BY <1>1 DEF Sections

\* Sections that none of this is about.
Quiet(r) == \A key \in r.keys :
                key[1] \notin {"definition", "eq_operator", "wire_types", "service_descriptor"}

\* A quiet section defines and compares nothing, and is sound.
LEMMA QuietSound ==
    ASSUME NEW r, Quiet(r)
    PROVE  /\ \A have : Sound(r, have)
           /\ \A c : <<"definition", c>> \notin r.keys
<1>1. \A x : /\ <<"definition", x>> \notin r.keys /\ <<"eq_operator", x>> \notin r.keys
             /\ <<"wire_types", x>> \notin r.keys /\ <<"service_descriptor", x>> \notin r.keys
  <2> SUFFICES ASSUME NEW x
               PROVE  /\ <<"definition", x>> \notin r.keys /\ <<"eq_operator", x>> \notin r.keys
                      /\ <<"wire_types", x>> \notin r.keys
                      /\ <<"service_descriptor", x>> \notin r.keys
    OBVIOUS
  <2>1. /\ <<"definition", x>>[1] = "definition" /\ <<"eq_operator", x>>[1] = "eq_operator"
        /\ <<"wire_types", x>>[1] = "wire_types"
        /\ <<"service_descriptor", x>>[1] = "service_descriptor"
    OBVIOUS
  <2> QED BY <2>1 DEF Quiet
<1> QED BY <1>1, Zenon DEF Sound

\* A section of one or two keys.
Fields == {"keys", "depends_on", "name_space"}

\* A section of one or two keys has these keys and these dependencies.
LEMMA SectionIs ==
    ASSUME NEW key, NEW other, NEW deps
    PROVE  /\ Section(<<key>>, deps).keys = {key} /\ Section(<<key>>, deps).depends_on = deps
           /\ Section(<<key, other>>, deps).keys = {key, other}
           /\ Section(<<key, other>>, deps).depends_on = deps
           /\ DOMAIN Section(<<key>>, deps) = Fields
           /\ DOMAIN Section(<<key, other>>, deps) = Fields
<1>1. Range(<<key>>) = {key} /\ Range(<<key, other>>) = {key, other}
  BY DEF Range
<1> QED BY <1>1 DEF Section, Fields

\* The first symbol of what is declared and of what is made of it.
LEMMA Heads ==
    ASSUME iface \in Interfaces
    PROVE  /\ \A c \in Own \union OfGeneric : c \in Seq(Symbols) /\ c[1] \in DOMAIN iface.decl
           /\ \A c \in CallUnions : c[1] \in {"call_union", "return_union"} /\ Len(c) = 2
           /\ DOMAIN iface.decl \intersect Made = {}
           /\ \A c \in Own : Len(c) = 1
           /\ \A c \in OfGeneric : Len(c) > 1 /\ Head(c) = c[1]
<1>1. WellFormed(iface)
  BY BackendAssumption
<1>2. DOMAIN iface.decl \intersect Made = {}
  BY <1>1, Zenon DEF WellFormed
<1>3. ASSUME NEW c \in Own PROVE c \in Seq(Symbols) /\ c[1] \in DOMAIN iface.decl /\ Len(c) = 1
  BY DEF Own, Symbols
<1>4. ASSUME NEW c \in OfGeneric
      PROVE  c \in Seq(Symbols) /\ c[1] \in DOMAIN iface.decl /\ Len(c) > 1 /\ Head(c) = c[1]
  <2>1. c \in Fine /\ Kind(Head(c)) \in Generics /\ c \in Proper
    BY FineIs DEF OfGeneric
  <2>2. c \in Seq(Symbols) /\ Head(c) = c[1] /\ Len(c) > 1
    BY <2>1, ProperIs, HasArgument
  <2>3. IsCompound(c)
    BY <2>1 DEF IsCompound, Generics, Compounds
  <2> QED BY <2>1, <2>2, <2>3, CompoundDeclared
<1>5. ASSUME NEW c \in CallUnions PROVE c[1] \in {"call_union", "return_union"} /\ Len(c) = 2
  <2>1. PICK s \in Range(iface.services) : c \in Range(Unions(s))
    BY <1>5 DEF CallUnions
  <2>2. c = <<"call_union", s>> \/ c = <<"return_union", s>>
    BY <2>1 DEF Unions, Range
  <2> QED BY <2>2
<1> QED BY <1>2, <1>3, <1>4, <1>5

\* Neither an enumeration's name nor that of an instance's structure is a holder's.
LEMMA MadeApart ==
    ASSUME iface \in Interfaces, NEW S, NEW s \in Seq(S), NEW x \in {"alternatives", "throwaway"}
    PROVE  /\ <<x>> \o s \notin Holders
           /\ (<<x>> \o s)[1] = x
<1>1. (<<x>> \o s)[1] = x
  <2> DEFINE T == S \union {x}
  <2>1. <<x>> \in Seq(T) /\ s \in Seq(T) /\ Len(<<x>>) = 1 /\ <<x>>[1] = x /\ Len(s) \in Nat
    OBVIOUS
  <2> HIDE DEF T
  <2>2. 1 \in 1 .. Len(<<x>>) + Len(s) /\ 1 <= Len(<<x>>)
    BY <2>1
  <2> QED BY <2>1, <2>2, ConcatProperties
<1> DEFINE c == <<x>> \o s
<1> HIDE DEF c
<1>2. c[1] \in Made /\ c[1] \notin {"call_union", "return_union"}
  BY <1>1 DEF c, Made
<1>3. c \notin Holders
  BY <1>2, Heads DEF Holders
<1> QED BY <1>1, <1>3 DEF c

------------------------------------------------------------------------------
\* The sections of one type.

\* The sections made for one type: its definition, its operator==, and others.
Defining(r, sym, mem, more) ==
    /\ <<"definition", sym>> \in r.keys
    /\ r.keys \subseteq {<<"definition", sym>>, <<"definition", <<"alternatives">> \o sym>>}
    /\ r.depends_on = member_keys(mem) \union more
Comparing(r, sym, more) ==
    /\ r.keys = {<<"eq_operator", sym>>}
    /\ r.depends_on = {<<"definition", sym>>} \union more
OfType(r, sym, mem, more) ==
    /\ DOMAIN r = Fields
    /\ Quiet(r) \/ Defining(r, sym, mem, more) \/ Comparing(r, sym, more)
Shape(q, sym, mem, more) ==
    q \in Seq(Range(q)) /\ \A r \in Range(q) : OfType(r, sym, mem, more)
HasEq(q, sym, more) == \E e \in Range(q) : Comparing(e, sym, more)

\* Two lists of a type's sections make one,
LEMMA ShapeConcat ==
    ASSUME NEW sym, NEW mem, NEW more, NEW q, Shape(q, sym, mem, more), NEW r, Shape(r, sym, mem, more)
    PROVE  Shape(q \o r, sym, mem, more) /\ Range(q \o r) = Range(q) \union Range(r)
<1> DEFINE S == Range(q) \union Range(r)
<1>1. q \in Seq(S) /\ r \in Seq(S)
  <2>1. q \in Seq(Range(q)) /\ r \in Seq(Range(r))
    BY DEF Shape
  <2>2. Range(q) \subseteq S /\ Range(r) \subseteq S
    OBVIOUS
  <2> HIDE DEF S
  <2> QED BY <2>1, <2>2
<1>2. q \o r \in Seq(S) /\ Range(q \o r) = S
  BY <1>1, ConcatProperties, RangeConcatenation
<1>3. \A x \in S : OfType(x, sym, mem, more)
  BY DEF Shape
<1> QED BY <1>2, <1>3 DEF Shape

\* so do two sections,
LEMMA ShapeTwo ==
    ASSUME NEW sym, NEW mem, NEW more,
           NEW a, OfType(a, sym, mem, more), NEW b, OfType(b, sym, mem, more)
    PROVE  Shape(<<a, b>>, sym, mem, more) /\ Shape(<<a>>, sym, mem, more)
           /\ Range(<<a>>) = {a}
<1>1. Range(<<a, b>>) = {a, b} /\ Range(<<a>>) = {a}
  BY DEF Range
<1>2. <<a, b>> \in Seq({a, b}) /\ <<a>> \in Seq({a})
  OBVIOUS
<1> QED BY <1>1, <1>2 DEF Shape

\* and no section is such a list too.
LEMMA ShapeEmpty == \A sym, mem, more : Shape(<<>>, sym, mem, more)
<1>1. <<>> \in Seq(Range(<<>>)) /\ Range(<<>>) = {}
  BY DEF Range
<1> QED BY <1>1 DEF Shape

\* The sections of traits, validators, servers and stubs are quiet.
LEMMA QuietSection ==
    ASSUME NEW x, NEW deps
    PROVE  /\ Quiet(Section(<<<<"lidl_traits", x>>>>, deps))
           /\ Quiet(Section(<<<<"std_traits", x>>>>, deps))
           /\ Quiet(Section(<<<<"validator", x>>>>, deps))
           /\ Quiet(Section(<<<<"generic_declaration", x>>>>, deps))
           /\ Quiet(Section(<<<<"sync_server", x>>>>, deps))
           /\ Quiet(Section(<<<<"async_server", x>>>>, deps))
           /\ Quiet(Section(<<<<"zerocopy_stub", x>>>>, deps))
           /\ Quiet(Section(<<<<"async_zerocopy_stub", x>>>>, deps))
           /\ Quiet(Section(<<<<"stub", x>>>>, deps))
           /\ Quiet(Section(<<<<"async_stub", x>>>>, deps))
           /\ \A type : DOMAIN Section(<<<<type, x>>>>, deps) = Fields
<1> DEFINE Loud == {"definition", "eq_operator", "wire_types", "service_descriptor"}
<1>1. ASSUME NEW type, type \notin Loud PROVE Quiet(Section(<<<<type, x>>>>, deps))
  <2>1. Section(<<<<type, x>>>>, deps).keys = {<<type, x>>}
    BY SectionIs
  <2>2. <<type, x>>[1] = type
    OBVIOUS
  <2> QED BY <1>1, <2>1, <2>2 DEF Quiet
<1>2. \A type \in {"lidl_traits", "std_traits", "validator", "generic_declaration", "sync_server",
                   "async_server", "zerocopy_stub", "async_zerocopy_stub", "stub", "async_stub"} :
         type \notin Loud
  OBVIOUS
<1> HIDE DEF Loud
<1> QED BY <1>1, <1>2, SectionIs

\* Where there are members, Comparison is the type's operator==.
LEMMA ComparisonShape ==
    ASSUME NEW sym, NEW mem
    PROVE  /\ Shape(Comparison(sym, mem), sym, mem, {})
           /\ mem # <<>> => HasEq(Comparison(sym, mem), sym, {})
<1> DEFINE e == Section(<<<<"eq_operator", sym>>>>, {<<"definition", sym>>})
<1>1. Comparing(e, sym, {}) /\ DOMAIN e = Fields
  <2>1. /\ e.keys = {<<"eq_operator", sym>>} /\ e.depends_on = {<<"definition", sym>>}
        /\ DOMAIN e = Fields
    BY SectionIs
  <2> HIDE DEF e
  <2> QED BY <2>1 DEF Comparing
<1> HIDE DEF e
<1>2. OfType(e, sym, mem, {})
  BY <1>1 DEF OfType
<1>3. Shape(<<e>>, sym, mem, {}) /\ HasEq(<<e>>, sym, {})
  BY <1>1, <1>2, ShapeTwo DEF HasEq
<1>4. CASE mem = <<>>
  BY <1>4, ShapeEmpty DEF Comparison
<1>5. CASE mem # <<>>
  BY <1>3, <1>5 DEF Comparison, e
<1> QED BY <1>4, <1>5

\* The sections of a structure
LEMMA StructShape ==
    ASSUME NEW sym, NEW mem, NEW serv, Len(serv) \in Nat
    PROVE  /\ Shape(struct_gen(sym, mem, serv), sym, mem, {})
           /\ mem # <<>> => HasEq(struct_gen(sym, mem, serv), sym, {})
<1> DEFINE def == <<"definition", sym>>
           a == Section(<<<<"lidl_traits", sym>>>>, {def})
           b == Section(<<<<"std_traits", sym>>>>, {def})
           f(s) == Section(<<<<"lidl_traits", sym>>>>,
                       {def, <<"sync_server", <<serv[s]>>>>, <<"async_server", <<serv[s]>>>>})
           B == [s \in 1 .. Len(serv) |-> f(s)]
           c == Section(<<<<"validator", sym>>>>, {def})
           d == Section(<<def>>, member_keys(mem))
           Of(q) == Shape(q, sym, mem, {})
<1>1. struct_gen(sym, mem, serv) = ((<<a, b>> \o B) \o <<c, d>>) \o Comparison(sym, mem)
  BY Zenon DEF struct_gen
<1>2. OfType(a, sym, mem, {}) /\ OfType(b, sym, mem, {}) /\ OfType(c, sym, mem, {})
  BY QuietSection DEF OfType
<1>3. OfType(d, sym, mem, {})
  <2>1. d.keys = {def} /\ d.depends_on = member_keys(mem) /\ DOMAIN d = Fields
    BY SectionIs
  <2> HIDE DEF d
  <2>2. Defining(d, sym, mem, {})
    BY <2>1 DEF Defining
  <2> QED BY <2>1, <2>2 DEF OfType
<1>4. Of(B)
  <2>1. \A s \in 1 .. Len(serv) : OfType(f(s), sym, mem, {})
    BY QuietSection DEF OfType
  <2> HIDE DEF f
  <2>2. Range(B) = {f(s) : s \in 1 .. Len(serv)}
    BY DEF Range
  <2>3. B \in [1 .. Len(serv) -> Range(B)]
    BY <2>2
  <2>4. B \in Seq(Range(B))
    BY <2>3, SeqDef
  <2> HIDE DEF B
  <2> QED BY <2>1, <2>2, <2>4 DEF Shape
<1> HIDE DEF a, b, B, c, d
<1>5. Of(<<a, b>>) /\ Of(<<c, d>>)
  BY <1>2, <1>3, ShapeTwo
<1>6. Of(<<a, b>> \o B)
  BY <1>4, <1>5, ShapeConcat
<1>7. Of((<<a, b>> \o B) \o <<c, d>>)
  BY <1>5, <1>6, ShapeConcat
<1>8. Of(Comparison(sym, mem)) /\ (mem # <<>> => HasEq(Comparison(sym, mem), sym, {}))
  BY ComparisonShape
<1> DEFINE front == (<<a, b>> \o B) \o <<c, d>>
<1> HIDE DEF front
<1>9. /\ Of(front \o Comparison(sym, mem))
      /\ Range(front \o Comparison(sym, mem)) = Range(front) \union Range(Comparison(sym, mem))
  BY <1>7, <1>8, ShapeConcat DEF front
<1> QED BY <1>1, <1>8, <1>9 DEF front, HasEq

\* and those of a union are a type's.
LEMMA UnionShape ==
    ASSUME NEW sym, NEW mem
    PROVE  /\ Shape(union_gen(sym, mem), sym, mem, {})
           /\ mem # <<>> => HasEq(union_gen(sym, mem), sym, {})
           /\ Shape(raw_union_gen(sym, mem), sym, mem, {})
<1> DEFINE def == <<"definition", sym>>
           alternatives == <<"alternatives">> \o sym
           a == union_traits(sym)
           b == Section(<<def, <<"definition", alternatives>>>>, member_keys(mem))
           c == enum_gen(alternatives)[1]
           d == Section(<<def>>, member_keys(mem))
           Of(q) == Shape(q, sym, mem, {})
<1>1. /\ union_gen(sym, mem) = <<a, b, c>> \o Comparison(sym, mem)
      /\ raw_union_gen(sym, mem) = <<a, d>>
  BY Zenon DEF union_gen, raw_union_gen
<1>2. OfType(a, sym, mem, {}) /\ OfType(c, sym, mem, {})
  <2>1. ASSUME NEW x, NEW y PROVE <<x, y>>[1] = x
    OBVIOUS
  <2>2. /\ c = Section(<<<<"lidl_traits", alternatives>>>>, {<<"definition", alternatives>>})
        /\ a = Section(<<<<"lidl_traits", sym>>>>, {<<"definition", sym>>})
    BY <2>1, Zenon DEF enum_gen, union_traits
  <2> HIDE DEF a, c
  <2>3. ASSUME NEW r, NEW x, NEW deps, r = Section(<<<<"lidl_traits", x>>>>, deps)
        PROVE  OfType(r, sym, mem, {})
    <3>1. Quiet(r) /\ DOMAIN r = Fields
      BY <2>3, QuietSection, SectionIs
    <3> QED BY <3>1 DEF OfType
  <2> QED BY <2>2, <2>3, Zenon
<1>3. OfType(b, sym, mem, {}) /\ OfType(d, sym, mem, {})
  <2> HIDE DEF def, alternatives
  <2>1. /\ b.keys = {def, <<"definition", alternatives>>} /\ b.depends_on = member_keys(mem)
        /\ d.keys = {def} /\ d.depends_on = member_keys(mem)
        /\ DOMAIN b = Fields /\ DOMAIN d = Fields
    BY SectionIs
  <2> HIDE DEF b, d
  <2>2. Defining(b, sym, mem, {}) /\ Defining(d, sym, mem, {})
    BY <2>1 DEF Defining, def, alternatives
  <2> QED BY <2>1, <2>2 DEF OfType
<1> HIDE DEF a, b, c, d
<1>4. Of(<<a, d>>) /\ Of(<<a, b>>) /\ Of(<<c>>)
  BY <1>2, <1>3, ShapeTwo
<1>5. <<a, b, c>> = <<a, b>> \o <<c>>
  OBVIOUS
<1>6. Of(<<a, b, c>>)
  BY <1>4, <1>5, ShapeConcat
<1>7. Of(Comparison(sym, mem)) /\ (mem # <<>> => HasEq(Comparison(sym, mem), sym, {}))
  BY ComparisonShape
<1> DEFINE front == <<a, b, c>>
<1> HIDE DEF front
<1>8. /\ Of(front \o Comparison(sym, mem))
      /\ Range(front \o Comparison(sym, mem)) = Range(front) \union Range(Comparison(sym, mem))
  BY <1>6, <1>7, ShapeConcat DEF front
<1> QED BY <1>1, <1>4, <1>7, <1>8 DEF front, HasEq

\* A dependency more.
LEMMA AddShape ==
    ASSUME NEW sym, NEW mem, NEW q, Shape(q, sym, mem, {}), NEW key
    PROVE  /\ Shape(AddDependency(q, key), sym, mem, {key})
           /\ HasEq(q, sym, {}) => HasEq(AddDependency(q, key), sym, {key})
<1> DEFINE f(r) == [r EXCEPT !.depends_on = @ \union {key}]
           all == AddDependency(q, key)
<1>1. q \in Seq(Range(q)) /\ \A r \in Range(q) : OfType(r, sym, mem, {})
  BY DEF Shape
<1>2. Len(q) \in Nat /\ DOMAIN q = 1 .. Len(q) /\ Range(q) = {q[k] : k \in 1 .. Len(q)}
  BY <1>1, LenProperties DEF Range
<1>3. all = [k \in 1 .. Len(q) |-> f(q[k])]
  BY <1>2 DEF AddDependency
<1>4. ASSUME NEW r, DOMAIN r = Fields
      PROVE  f(r).keys = r.keys /\ f(r).depends_on = r.depends_on \union {key} /\ DOMAIN f(r) = Fields
  BY <1>4 DEF Fields
<1>5. ASSUME NEW r, OfType(r, sym, mem, {})
      PROVE  OfType(f(r), sym, mem, {key}) /\ (Comparing(r, sym, {}) => Comparing(f(r), sym, {key}))
  <2>1. f(r).keys = r.keys /\ f(r).depends_on = r.depends_on \union {key} /\ DOMAIN f(r) = Fields
    BY <1>4, <1>5 DEF OfType
  <2> HIDE DEF f
  <2>2. Quiet(r) => Quiet(f(r))
    BY <2>1 DEF Quiet
  <2>3. Comparing(r, sym, {}) => Comparing(f(r), sym, {key})
    BY <2>1 DEF Comparing
  <2>4. Defining(r, sym, mem, {}) => Defining(f(r), sym, mem, {key})
    BY <2>1 DEF Defining
  <2> QED BY <1>5, <2>1, <2>2, <2>3, <2>4 DEF OfType
<1> HIDE DEF all, f
<1>6. Range(all) = {f(q[k]) : k \in 1 .. Len(q)}
  BY <1>3 DEF Range
<1>7. all \in Seq(Range(all))
  <2>1. all \in [1 .. Len(q) -> Range(all)]
    BY <1>3, <1>6
  <2> QED BY <1>2, <2>1, SeqDef
<1>8. \A r \in Range(all) : OfType(r, sym, mem, {key})
  BY <1>1, <1>2, <1>5, <1>6
<1>9. HasEq(q, sym, {}) => HasEq(all, sym, {key})
  <2> SUFFICES ASSUME NEW e \in Range(q), Comparing(e, sym, {}) PROVE HasEq(all, sym, {key})
    BY DEF HasEq
  <2>1. f(e) \in Range(all)
    BY <1>2, <1>6
  <2>2. Comparing(f(e), sym, {key})
    BY <1>1, <1>5
  <2> QED BY <2>1, <2>2 DEF HasEq
<1> QED BY <1>7, <1>8, <1>9 DEF Shape, all

------------------------------------------------------------------------------
\* The sections of types and of instances.

\* What a list of members depends on, each of them does.
LEMMA MemberKeys ==
    ASSUME NEW mem, NEW nm \in Range(mem)
    PROVE  def_keys_from_name(nm) \subseteq member_keys(mem)
<1>1. PICK n \in DOMAIN mem : nm = mem[n]
  BY DEF Range
<1> QED BY <1>1, Zenon DEF member_keys

\* A symbol that is none of a declaration's, one after which it is made, or a union of calls.
LEMMA SymbolIs ==
    ASSUME iface \in Interfaces, NEW sym \in Own \union CallUnions
    PROVE  /\ \E S : sym \in Seq(S)
           /\ sym \notin OfGeneric
           /\ sym[1] \notin {"alternatives", "throwaway"}
<1>1. CASE sym \in Own
  <2>1. sym \in Seq(Symbols) /\ sym[1] \in DOMAIN iface.decl /\ Len(sym) = 1
    BY <1>1, Heads
  <2>2. sym[1] \notin Made
    BY <2>1, Heads
  <2>3. ASSUME sym \in OfGeneric PROVE FALSE
    <3>1. Len(sym) > 1
      BY <2>3, Heads
    <3> QED BY <2>1, <3>1
  <2> QED BY <2>1, <2>2, <2>3 DEF Made
<1>2. CASE sym \in CallUnions
  <2>1. PICK s \in Range(iface.services) : sym \in Range(Unions(s))
    BY <1>2 DEF CallUnions
  <2>2. sym = <<"call_union", s>> \/ sym = <<"return_union", s>>
    BY <2>1 DEF Unions, Range
  <2> DEFINE S == {"call_union", "return_union", s}
  <2>6. <<"call_union", s>> \in Seq(S) /\ <<"return_union", s>> \in Seq(S)
    OBVIOUS
  <2>3. sym \in Seq(S) /\ sym[1] \in {"call_union", "return_union"}
    BY <1>2, <2>2, <2>6, Heads
  <2>4. sym[1] \in Made
    BY <2>3 DEF Made
  <2>5. sym \notin OfGeneric
    BY <2>4, Heads
  <2> QED BY <2>3, <2>5
<1> QED BY <1>1, <1>2

\* The sections of a type that is declared, or of a union of calls.
LEMMA ShapeSections ==
    ASSUME iface \in Interfaces, NEW sym \in Own \union CallUnions, NEW mem, NEW more, NEW q,
           Shape(q, sym, mem, more),
           \A nm \in Held(sym) : def_keys_from_name(nm) \subseteq member_keys(mem),
           sym \in Own /\ Comparable(sym) => HasEq(q, sym, more),
           sym \in CallUnions => <<"wire_types", <<sym[2]>>>> \in more
    PROVE  Sections(q, {})
<1> DEFINE alt == <<"alternatives">> \o sym
<1>1. PICK S : sym \in Seq(S)
  BY SymbolIs
<1>2. alt \notin Holders /\ alt[1] = "alternatives"
  BY <1>1, MadeApart
<1>3. ASSUME NEW c \in OfGeneric PROVE <<"throwaway">> \o c \notin {sym, alt}
  <2>1. c \in Seq(Symbols)
    BY Heads
  <2>2. (<<"throwaway">> \o c)[1] = "throwaway"
    BY <2>1, MadeApart
  <2> HIDE DEF alt
  <2> QED BY <1>2, <2>2, SymbolIs
<1>4. sym \in Holders /\ sym \notin OfGeneric
  BY SymbolIs DEF Holders
<1> HIDE DEF alt
<1>5. ASSUME NEW r, Defining(r, sym, mem, more) PROVE Sound(r, {})
  <2>1. /\ r.keys \subseteq {<<"definition", sym>>, <<"definition", alt>>}
        /\ r.depends_on = member_keys(mem) \union more
    BY <1>5 DEF Defining, alt
  <2>2. \A x : /\ <<"definition", x>> \in r.keys => x \in {sym, alt}
               /\ <<"eq_operator", x>> \notin r.keys /\ <<"wire_types", x>> \notin r.keys
               /\ <<"service_descriptor", x>> \notin r.keys
    BY <2>1
  <2>3. ASSUME NEW c \in Holders, <<"definition", c>> \in r.keys PROVE c = sym
    <3>1. c \in {sym, alt}
      BY <2>2, <2>3, Zenon
    <3> QED BY <1>2, <3>1
  <2>4. \A c \in OfGeneric : <<"definition", <<"throwaway">> \o c>> \notin r.keys
    BY <1>3, <2>2
  <2>5. \A nm \in Held(sym) : def_keys_from_name(nm) \subseteq r.depends_on
    BY <2>1
  <2>6. \A c \in OfGeneric : <<"definition", c>> \notin r.keys
    BY <1>4, <2>3 DEF Holders
  <2>7. \A c \in CallUnions : <<"definition", c>> \in r.keys =>
           <<"wire_types", <<c[2]>>>> \in r.depends_on
    BY <2>1, <2>3 DEF Holders
  <2> QED BY <2>2, <2>3, <2>4, <2>5, <2>6, <2>7, Zenon DEF Sound
<1>6. ASSUME NEW r, Comparing(r, sym, more)
      PROVE  Sound(r, {}) /\ \A x : <<"definition", x>> \notin r.keys
  <2>1. r.keys = {<<"eq_operator", sym>>} /\ <<"definition", sym>> \in r.depends_on
    BY <1>6 DEF Comparing
  <2>2. \A x : /\ <<"definition", x>> \notin r.keys
               /\ <<"eq_operator", x>> \in r.keys => x = sym
               /\ <<"wire_types", x>> \notin r.keys
               /\ <<"service_descriptor", x>> \notin r.keys
    BY <2>1
  <2>3. \A x : <<"eq_operator", x>> \in r.keys => <<"definition", x>> \in r.depends_on
    BY <2>1, <2>2
  <2> QED BY <2>2, <2>3, Zenon DEF Sound
<1>7. \A r \in Range(q) : Sound(r, {})
  BY <1>5, <1>6, QuietSound, Zenon DEF Shape, OfType
<1>8. Paired(Range(q))
  <2> SUFFICES ASSUME NEW r \in Range(q), NEW c \in Own \union OfGeneric,
                      <<"definition", c>> \in r.keys, Comparable(c)
               PROVE  \E e \in Range(q) : Compares(e, r, c)
    BY Zenon DEF Paired
  <2>1. Defining(r, sym, mem, more)
    BY <1>6, QuietSound, Zenon DEF Shape, OfType
  <2>2. c = sym
    <3>1. c \in {sym, alt}
      BY <2>1 DEF Defining, alt
    <3> QED BY <1>2, <3>1 DEF Holders
  <2>3. sym \in Own /\ Sym(c) = sym
    BY <1>4, <2>2 DEF Sym
  <2>4. PICK e \in Range(q) : Comparing(e, sym, more)
    BY <2>2, <2>3 DEF HasEq
  <2>5. Compares(e, r, c)
    BY <2>1, <2>3, <2>4 DEF Comparing, Defining, Compares
  <2> QED BY <2>5
<1> QED BY <1>7, <1>8 DEF Sections, Shape

\* The sections of an instance.
LEMMA GenericSections ==
    ASSUME iface \in Interfaces, NEW nm \in Fine
    PROVE  Sections(generic_gen(nm), {nm})
<1> DEFINE sym  == <<"throwaway">> \o nm
           decl == <<"generic_declaration", <<Head(nm)>>>>
           mem  == Members(nm)
           body == IF Kind(Head(nm)) = "generic_structure"
                   THEN struct_gen(sym, mem, <<>>) ELSE union_gen(sym, mem)
           def  == <<"definition", sym>>
           alt  == <<"alternatives">> \o sym
           g(r) == IF def \in r.keys
                   THEN [r EXCEPT !.keys = @ \union {<<"definition", nm>>},
                                  !.depends_on = @ \union {decl}]
                   ELSE r
           one  == Section(<<decl>>, {})
           rest == [n \in DOMAIN body |-> g(body[n])]
<1>1. CASE Kind(Head(nm)) \notin Generics
  <2>1. generic_gen(nm) = <<>>
    BY <1>1, Zenon DEF generic_gen
  <2> QED BY <2>1, NoSection
<1> SUFFICES ASSUME Kind(Head(nm)) \in Generics PROVE Sections(generic_gen(nm), {nm})
  BY <1>1
<1>2. generic_gen(nm) = <<one>> \o rest
  BY Zenon DEF generic_gen
<1>3. Shape(body, sym, mem, {}) /\ (mem # <<>> => HasEq(body, sym, {}))
  <2>1. Len(<<>>) \in Nat
    OBVIOUS
  <2> QED BY <2>1, StructShape, UnionShape
<1> HIDE DEF body
<1>4. nm \in OfGeneric /\ nm \in Seq(Symbols) /\ nm[1] \in DOMAIN iface.decl /\ nm[1] \notin Made
  BY Heads DEF OfGeneric
<1>5. sym \notin Holders /\ sym[1] = "throwaway" /\ alt \notin Holders /\ alt[1] = "alternatives"
  <2>1. sym \notin Holders /\ sym[1] = "throwaway"
    BY <1>4, MadeApart
  <2>2. \E S : sym \in Seq(S)
    <3> DEFINE S == Symbols \union {"throwaway"}
    <3>1. <<"throwaway">> \in Seq(S) /\ nm \in Seq(S)
      BY <1>4
    <3> HIDE DEF S
    <3>2. sym \in Seq(S)
      BY <3>1, ConcatProperties
    <3> QED BY <3>2
  <2> HIDE DEF sym
  <2> QED BY <2>1, <2>2, MadeApart
<1>6. ASSUME NEW c \in OfGeneric, <<"throwaway">> \o c \in {sym, alt, nm} PROVE c = nm
  <2>1. c \in Seq(Symbols) /\ (<<"throwaway">> \o c)[1] = "throwaway"
    BY Heads, MadeApart
  <2>2. <<"throwaway">> \o c \notin {alt, nm}
    <3> HIDE DEF alt
    <3> QED BY <1>4, <1>5, <2>1 DEF Made
  <2>3. <<"throwaway">> \o c = <<"throwaway">> \o nm
    BY <1>6, <2>2
  <2> DEFINE S == Symbols \union {"throwaway"}
  <2>4. <<"throwaway">> \in Seq(S) /\ nm \in Seq(S) /\ c \in Seq(S)
    BY <1>4, <2>1
  <2> HIDE DEF S
  <2> QED BY <2>3, <2>4, ConcatSimplifications
<1>7. nm \in Holders /\ nm \notin CallUnions
  <2>1. nm \notin CallUnions
    BY <1>4, Heads DEF Made
  <2> QED BY <1>4, <2>1 DEF Holders
<1>8. \A x \in Held(nm) : def_keys_from_name(x) \subseteq member_keys(mem)
  <2>1. Held(nm) = Range(mem)
    BY <1>7, Zenon DEF Held
  <2> QED BY <2>1, MemberKeys
<1> HIDE DEF sym, alt, mem
<1>9. ASSUME NEW r, Defining(r, sym, mem, {}), DOMAIN r = Fields
      PROVE  /\ g(r).keys \subseteq {def, <<"definition", alt>>, <<"definition", nm>>}
             /\ def \in g(r).keys /\ <<"definition", nm>> \in g(r).keys
             /\ member_keys(mem) \subseteq g(r).depends_on
  BY <1>9 DEF Defining, Fields, alt
<1>10. ASSUME NEW r, OfType(r, sym, mem, {}), ~Defining(r, sym, mem, {})
       PROVE  g(r) = r
  <2>1. def \notin r.keys
    <3>1. CASE Quiet(r)
      BY <3>1, QuietSound
    <3>2. CASE Comparing(r, sym, {})
      BY <3>2 DEF Comparing
    <3> QED BY <1>10, <3>1, <3>2 DEF OfType
  <2> QED BY <2>1
<1> HIDE DEF g
<1>11. ASSUME NEW r, DOMAIN r = Fields, Defining(r, sym, mem, {}) PROVE Sound(g(r), {nm})
  <2> DEFINE s == g(r)
  <2>1. /\ s.keys \subseteq {def, <<"definition", alt>>, <<"definition", nm>>}
        /\ <<"definition", nm>> \in s.keys
        /\ member_keys(mem) \subseteq s.depends_on
    BY <1>9, <1>11
  <2> HIDE DEF s
  <2>2. \A x : /\ <<"definition", x>> \in s.keys => x \in {sym, alt, nm}
               /\ <<"eq_operator", x>> \notin s.keys /\ <<"wire_types", x>> \notin s.keys
               /\ <<"service_descriptor", x>> \notin s.keys
    BY <2>1
  <2>3. \A c \in Holders : <<"definition", c>> \in s.keys => c = nm
    BY <1>5, <2>2
  <2>4. \A c \in OfGeneric : <<"definition", <<"throwaway">> \o c>> \in s.keys => c = nm
    BY <1>6, <2>2
  <2>5. \A x \in Held(nm) : def_keys_from_name(x) \subseteq s.depends_on
    BY <1>8, <2>1
  <2>6. \A c \in OfGeneric : <<"definition", c>> \in s.keys => c \in {nm}
    BY <2>3 DEF Holders
  <2>7. \A c \in CallUnions : <<"definition", c>> \notin s.keys
    BY <1>7, <2>3 DEF Holders
  <2>8. Sound(s, {nm})
    BY <2>1, <2>2, <2>3, <2>4, <2>5, <2>6, <2>7, Zenon DEF Sound
  <2> QED BY <2>8 DEF s
<1>12. ASSUME NEW r, Comparing(r, sym, {})
       PROVE  Sound(r, {nm}) /\ \A x : <<"definition", x>> \notin r.keys
  <2>1. r.keys = {<<"eq_operator", sym>>} /\ <<"definition", sym>> \in r.depends_on
    BY <1>12 DEF Comparing
  <2>2. \A x : /\ <<"definition", x>> \notin r.keys
               /\ <<"eq_operator", x>> \in r.keys => x = sym
               /\ <<"wire_types", x>> \notin r.keys
               /\ <<"service_descriptor", x>> \notin r.keys
    BY <2>1
  <2>3. \A x : <<"eq_operator", x>> \in r.keys => <<"definition", x>> \in r.depends_on
    BY <2>1, <2>2
  <2> QED BY <2>2, <2>3, Zenon DEF Sound
<1>13. Quiet(one)
  BY QuietSection
<1> HIDE DEF one
<1>14. ASSUME NEW r, OfType(r, sym, mem, {}) PROVE Sound(g(r), {nm})
  <2>1. CASE Defining(r, sym, mem, {})
    BY <1>11, <1>14, <2>1 DEF OfType
  <2>2. CASE ~Defining(r, sym, mem, {})
    <3>1. g(r) = r
      BY <1>10, <1>14, <2>2
    <3>2. Sound(r, {nm})
      BY <1>12, <1>14, <2>2, QuietSound DEF OfType
    <3> QED BY <3>1, <3>2
  <2> QED BY <2>1, <2>2
<1>15. body \in Seq(Range(body)) /\ \A r \in Range(body) : OfType(r, sym, mem, {})
  BY <1>3 DEF Shape
<1>16. /\ Len(body) \in Nat /\ DOMAIN body = 1 .. Len(body)
       /\ Range(body) = {body[k] : k \in 1 .. Len(body)}
  BY <1>15, LenProperties DEF Range
<1>17. rest = [k \in 1 .. Len(body) |-> g(body[k])] /\ Range(rest) = {g(r) : r \in Range(body)}
  BY <1>16 DEF Range
<1> HIDE DEF rest
<1>18. rest \in Seq(Range(rest))
  <2>1. rest \in [1 .. Len(body) -> Range(rest)]
    BY <1>16, <1>17
  <2> QED BY <1>16, <2>1, SeqDef
<1>19. Paired(Range(rest))
  <2> SUFFICES ASSUME NEW r \in Range(body), NEW c \in Own \union OfGeneric,
                      <<"definition", c>> \in g(r).keys, Comparable(c)
               PROVE  \E e \in Range(rest) : Compares(e, g(r), c)
    <3>1. \A s \in Range(rest) : \E r \in Range(body) : s = g(r)
      BY <1>17
    <3> QED BY <3>1, Zenon DEF Paired
  <2>1. OfType(r, sym, mem, {}) /\ DOMAIN r = Fields
    BY <1>15 DEF OfType
  <2>2. Defining(r, sym, mem, {})
    <3> SUFFICES ASSUME ~Defining(r, sym, mem, {}) PROVE FALSE
      OBVIOUS
    <3>1. g(r) = r
      BY <1>10, <2>1
    <3> QED BY <1>12, <2>1, <3>1, QuietSound DEF OfType
  <2>3. c = nm
    <3>1. c \in {sym, alt, nm}
      BY <1>9, <2>1, <2>2
    <3> QED BY <1>5, <3>1 DEF Holders
  <2>4. Sym(c) = sym /\ mem # <<>>
    BY <1>4, <2>3 DEF Sym, sym, Comparable, mem
  <2>5. PICK e \in Range(body) : Comparing(e, sym, {})
    BY <1>3, <2>4 DEF HasEq
  <2>6. g(e) = e
    <3>1. ~Defining(e, sym, mem, {})
      BY <1>12, <2>5 DEF Defining
    <3> QED BY <1>10, <1>15, <3>1
  <2>7. e \in Range(rest)
    BY <1>17, <2>6
  <2>8. Compares(e, g(r), c)
    BY <1>9, <2>1, <2>2, <2>4, <2>5 DEF Comparing, Compares
  <2> QED BY <2>7, <2>8
<1>20. Sections(rest, {nm})
  BY <1>14, <1>15, <1>17, <1>18, <1>19 DEF Sections
<1>21. Sections(<<one>>, {nm})
  <2>1. Range(<<one>>) = {one} /\ <<one>> \in Seq({one})
    BY DEF Range
  <2>2. Sound(one, {nm}) /\ Paired({one})
    BY <1>13, QuietSound DEF Paired
  <2> QED BY <2>1, <2>2 DEF Sections
<1> QED BY <1>2, <1>20, <1>21, SectionsConcat

------------------------------------------------------------------------------
\* The sections of what an interface lists.

\* A section that defines none of the types above.
LEMMA OneSection ==
    ASSUME NEW r, Sound(r, {}), \A c \in Own \union OfGeneric : <<"definition", c>> \notin r.keys
    PROVE  Sections(<<r>>, {}) /\ Range(<<r>>) = {r}
<1>1. Range(<<r>>) = {r} /\ <<r>> \in Seq({r})
  BY DEF Range
<1>2. Paired({r})
  BY DEF Paired
<1> QED BY <1>1, <1>2 DEF Sections

\* One that is quiet.
LEMMA QuietOne ==
    ASSUME NEW r, Quiet(r) PROVE Sections(<<r>>, {}) /\ Range(<<r>>) = {r}
BY QuietSound, OneSection

\* Two sections, each sound alone.
LEMMA TwoSections ==
    ASSUME NEW a, Sections(<<a>>, {}), NEW b, Sections(<<b>>, {})
    PROVE  Sections(<<a, b>>, {}) /\ Range(<<a, b>>) = {a, b}
<1>1. Range(<<a, b>>) = {a, b} /\ Range(<<a>>) = {a} /\ Range(<<b>>) = {b}
  BY DEF Range
<1>2. <<a, b>> \in Seq({a, b})
  OBVIOUS
<1>3. Paired({a}) /\ Paired({b}) /\ Sound(a, {}) /\ Sound(b, {})
  BY <1>1 DEF Sections
<1>4. Paired(UNION {{a}, {b}})
  BY <1>3, PairedUnion
<1>5. UNION {{a}, {b}} = {a, b}
  OBVIOUS
<1>6. Paired({a, b})
  BY <1>4, <1>5, Zenon
<1> QED BY <1>1, <1>2, <1>3, <1>6 DEF Sections

\* What the lists of an interface hold.
LEMMA ListsAre ==
    ASSUME iface \in Interfaces
    PROVE  /\ iface.enums \in Seq({s \in DOMAIN iface.decl : Kind(s) = "enumeration"})
           /\ iface.structs \in Seq({s \in DOMAIN iface.decl : Kind(s) = "structure"})
           /\ iface.unions \in Seq({s \in DOMAIN iface.decl : Kind(s) \in {"union", "raw_union"}})
           /\ iface.services \in Seq({s \in DOMAIN iface.decl : Kind(s) = "service"})
           /\ \A s \in Range(iface.services) :
                 s \in DOMAIN iface.decl /\ Kind(s) = "service" /\ s \in Serving /\ s \notin iface.imported
           /\ \A s \in OfProcs : s \in DOMAIN iface.decl /\ Kind(s) = "params_struct" /\ <<s>> \in Own
<1>1. WellFormed(iface)
  BY BackendAssumption
<1>2. /\ iface.enums \in Seq(OfKinds(iface.decl, {"enumeration"}))
      /\ iface.structs \in Seq(OfKinds(iface.decl, {"structure"}))
      /\ iface.unions \in Seq(OfKinds(iface.decl, {"union", "raw_union"}))
      /\ iface.services \in Seq(OfKinds(iface.decl, {"service"}))
      /\ \A s \in Range(iface.services) : s \notin iface.imported
  BY <1>1, Zenon DEF WellFormed
<1>3. ASSUME NEW kinds
      PROVE  OfKinds(iface.decl, kinds) = {s \in DOMAIN iface.decl : Kind(s) \in kinds}
  BY InterfaceIs DEF OfKinds
<1>4. ASSUME NEW kind
      PROVE  OfKinds(iface.decl, {kind}) = {s \in DOMAIN iface.decl : Kind(s) = kind}
  BY <1>3
<1>5. \A s \in Range(iface.services) : s \in OfKinds(iface.decl, {"service"})
  BY <1>2, RangeOfSeq
<1>6. \A s \in OfProcs : s \in DOMAIN iface.decl /\ Kind(s) = "params_struct"
  BY <1>4 DEF OfProcs
<1>7. \A s \in OfProcs : <<s>> \in Own
  BY <1>6 DEF Own, Compounds, Generics
<1> QED BY <1>2, <1>3, <1>4, <1>5, <1>6, <1>7 DEF Serving

\* What a type holds that is declared.
LEMMA OwnHeld ==
    ASSUME iface \in Interfaces, NEW s, <<s>> \in Own
    PROVE  /\ Held(<<s>>) = Range(Members(<<s>>)) /\ <<s>> \notin CallUnions
           /\ \A nm \in Held(<<s>>) : def_keys_from_name(nm) \subseteq member_keys(Members(<<s>>))
<1>1. Len(<<s>>) = 1
  OBVIOUS
<1>2. <<s>> \notin CallUnions
  <2> SUFFICES ASSUME <<s>> \in CallUnions PROVE FALSE
    OBVIOUS
  <2>1. Len(<<s>>) = 2
    BY Heads
  <2> QED BY <1>1, <2>1
<1>3. Held(<<s>>) = Range(Members(<<s>>))
  BY <1>2, Zenon DEF Held
<1> QED BY <1>2, <1>3, MemberKeys

\* A structure's sections, with a dependency more or without.
LEMMA OwnStruct ==
    ASSUME iface \in Interfaces, NEW s, <<s>> \in Own, NEW serv, Len(serv) \in Nat
    PROVE  LET q == struct_gen(<<s>>, Members(<<s>>), serv) IN
           /\ Sections(q, {}) /\ q \in Seq(Range(q))
           /\ \A key : Sections(AddDependency(q, key), {})
<1> DEFINE mem == Members(<<s>>)
           q == struct_gen(<<s>>, mem, serv)
<1>1. Shape(q, <<s>>, mem, {}) /\ (mem # <<>> => HasEq(q, <<s>>, {}))
  BY StructShape
<1>2. /\ \A nm \in Held(<<s>>) : def_keys_from_name(nm) \subseteq member_keys(mem)
      /\ <<s>> \notin CallUnions
  BY OwnHeld
<1>3. Comparable(<<s>>) => mem # <<>>
  BY DEF Comparable
<1> HIDE DEF mem, q
<1>4. Sections(q, {})
  BY <1>1, <1>2, <1>3, ShapeSections
<1>5. ASSUME NEW key PROVE Sections(AddDependency(q, key), {})
  <2>1. /\ Shape(AddDependency(q, key), <<s>>, mem, {key})
        /\ mem # <<>> => HasEq(AddDependency(q, key), <<s>>, {key})
    BY <1>1, AddShape
  <2> QED BY <2>1, <1>2, <1>3, ShapeSections
<1> QED BY <1>1, <1>4, <1>5 DEF Shape, q, mem

\* A union's.
LEMMA OwnUnion ==
    ASSUME iface \in Interfaces, NEW s \in DOMAIN iface.decl, Kind(s) \in {"union", "raw_union"}
    PROVE  Sections(Union(s), {})
<1> DEFINE mem == Members(<<s>>)
           q == Union(s)
<1>1. /\ Shape(union_gen(<<s>>, mem), <<s>>, mem, {})
      /\ mem # <<>> => HasEq(union_gen(<<s>>, mem), <<s>>, {})
      /\ Shape(raw_union_gen(<<s>>, mem), <<s>>, mem, {})
  BY UnionShape
<1>2. <<s>> \in Own
  BY DEF Own, Compounds, Generics
<1>3. /\ \A nm \in Held(<<s>>) : def_keys_from_name(nm) \subseteq member_keys(mem)
      /\ <<s>> \notin CallUnions
  BY <1>2, OwnHeld
<1>4. Comparable(<<s>>) => mem # <<>> /\ Kind(s) # "raw_union"
  <2>1. Head(<<s>>) = s
    OBVIOUS
  <2> QED BY <2>1 DEF Comparable
<1>5. q = IF Kind(s) = "raw_union" THEN raw_union_gen(<<s>>, mem) ELSE union_gen(<<s>>, mem)
  BY DEF Union
<1> HIDE DEF mem, q
<1>6. Shape(q, <<s>>, mem, {}) /\ (Comparable(<<s>>) => HasEq(q, <<s>>, {}))
  BY <1>1, <1>4, <1>5
<1>7. Sections(q, {})
  BY <1>2, <1>3, <1>6, ShapeSections
<1> QED BY <1>7 DEF q

\* Arithmetic that the provers need apart.
LEMMA NotOne ==
    ASSUME NEW n \in Nat, n > 1 PROVE n # 1
OBVIOUS

\* An enumeration's.
LEMMA OwnEnum ==
    ASSUME iface \in Interfaces, NEW s \in DOMAIN iface.decl, Kind(s) \notin Compounds
    PROVE  /\ Sections(Enum(s), {})
           /\ \A deps : Sections(<<Section(<<<<"definition", <<s>>>>>>, deps)>>, {})
<1>1. <<s>> \notin Holders
  <2>1. <<s>> \notin Own
    BY DEF Own
  <2>2. <<s>> \notin OfGeneric /\ <<s>> \notin CallUnions
    <3>1. Len(<<s>>) = 1
      OBVIOUS
    <3>2. \A c \in OfGeneric \union CallUnions : Len(c) # 1
      <4>1. ASSUME NEW c \in OfGeneric PROVE Len(c) > 1 /\ c \in Seq(Symbols)
        BY Heads
      <4>2. ASSUME NEW c \in OfGeneric PROVE Len(c) # 1
        <5>1. Len(c) \in Nat /\ Len(c) > 1
          BY <4>1, LenProperties
        <5> QED BY <5>1, NotOne, Zenon
      <4> QED BY <4>2, Heads
    <3> QED BY <3>1, <3>2, Zenon
  <2> QED BY <2>1, <2>2 DEF Holders
<1>2. \A c \in OfGeneric : <<"throwaway">> \o c # <<s>>
  <2>1. <<s>>[1] \notin Made
    BY Heads
  <2>2. \A c \in OfGeneric : (<<"throwaway">> \o c)[1] \in Made
    BY Heads, MadeApart DEF Made
  <2> QED BY <2>1, <2>2
<1>3. ASSUME NEW deps PROVE Sections(<<Section(<<<<"definition", <<s>>>>>>, deps)>>, {})
  <2> DEFINE r == Section(<<<<"definition", <<s>>>>>>, deps)
  <2>1. r.keys = {<<"definition", <<s>>>>}
    BY SectionIs
  <2> HIDE DEF r
  <2>2. \A x : /\ <<"definition", x>> \in r.keys => x = <<s>>
               /\ <<"eq_operator", x>> \notin r.keys /\ <<"wire_types", x>> \notin r.keys
               /\ <<"service_descriptor", x>> \notin r.keys
    BY <2>1
  <2>3. \A c \in Holders : <<"definition", c>> \notin r.keys
    BY <1>1, <2>2, Zenon
  <2>4. \A c \in OfGeneric : <<"definition", <<"throwaway">> \o c>> \notin r.keys
    BY <1>2, <2>2, Zenon
  <2>5. \A c \in OfGeneric \union CallUnions \union Own : <<"definition", c>> \notin r.keys
    BY <2>3 DEF Holders
  <2>6. Sound(r, {})
    BY <2>2, <2>3, <2>4, <2>5, Zenon DEF Sound
  <2>7. Sections(<<r>>, {})
    BY <2>5, <2>6, OneSection
  <2> QED BY <2>7 DEF r
<1>4. Sections(Enum(s), {})
  <2> DEFINE a == Section(<<<<"lidl_traits", <<s>>>>>>, {<<"definition", <<s>>>>})
             b == Section(<<<<"definition", <<s>>>>>>, {})
  <2>1. Enum(s) = <<a, b>>
    BY DEF Enum, enum_gen
  <2>2. Quiet(a)
    BY QuietSection
  <2>3. Sections(<<b>>, {})
    BY <1>3
  <2> HIDE DEF a, b
  <2>4. Sections(<<a>>, {})
    BY <2>2, QuietOne
  <2>5. Sections(<<a, b>>, {})
    BY <2>3, <2>4, TwoSections
  <2> QED BY <2>1, <2>5, Zenon
<1> QED BY <1>3, <1>4

------------------------------------------------------------------------------
\* The wire types of services.

\* A dependency more, of every section.
More(r, key) == [r EXCEPT !.depends_on = @ \union {key}]

\* Its sections and those it is made of.
LEMMA AddRange ==
    ASSUME NEW q, q \in Seq(Range(q)), NEW key
    PROVE  /\ Range(AddDependency(q, key)) = {More(r, key) : r \in Range(q)}
           /\ AddDependency(q, key) \in Seq(Range(AddDependency(q, key)))
<1> DEFINE all == AddDependency(q, key)
<1>1. Len(q) \in Nat /\ DOMAIN q = 1 .. Len(q) /\ Range(q) = {q[k] : k \in 1 .. Len(q)}
  BY LenProperties DEF Range
<1>2. all = [k \in 1 .. Len(q) |-> More(q[k], key)]
  BY <1>1 DEF AddDependency, More
<1> HIDE DEF all
<1>3. Range(all) = {More(q[k], key) : k \in 1 .. Len(q)}
  BY <1>2 DEF Range
<1>4. all \in [1 .. Len(q) -> Range(all)]
  BY <1>2, <1>3
<1>5. all \in Seq(Range(all))
  BY <1>1, <1>4, SeqDef
<1>6. Range(all) = {More(r, key) : r \in Range(q)}
  BY <1>1, <1>3
<1> QED BY <1>5, <1>6 DEF all

\* With a dependency more, sections are sound when the parts they come from are.
LEMMA AddParts ==
    ASSUME NEW key, NEW parts,
           \A p \in parts : p \in Seq(Range(p)) /\ Sections(AddDependency(p, key), {}),
           NEW q, q \in Seq(Range(q)), Range(q) = UNION {Range(p) : p \in parts}
    PROVE  Sections(AddDependency(q, key), {})
<1> DEFINE all == AddDependency(q, key)
           sets == {Range(AddDependency(p, key)) : p \in parts}
<1>1. Range(all) = {More(r, key) : r \in Range(q)} /\ all \in Seq(Range(all))
  BY AddRange
<1>2. \A p \in parts : Range(AddDependency(p, key)) = {More(r, key) : r \in Range(p)}
  BY AddRange
<1> HIDE DEF all
<1>3. Range(all) = UNION sets
  <2>1. ASSUME NEW x \in Range(all) PROVE x \in UNION sets
    <3>1. PICK p \in parts : \E r \in Range(p) : x = More(r, key)
      BY <1>1, <2>1
    <3>2. x \in Range(AddDependency(p, key))
      BY <1>2, <3>1
    <3> QED BY <3>2
  <2>2. ASSUME NEW p \in parts, NEW x \in Range(AddDependency(p, key)) PROVE x \in Range(all)
    <3>1. PICK r \in Range(p) : x = More(r, key)
      BY <1>2, <2>2
    <3>2. r \in Range(q)
      BY <3>1
    <3> QED BY <1>1, <3>1, <3>2
  <2> QED BY <2>1, <2>2, Zenon
<1>4. \A s \in sets : Paired(s)
  BY DEF Sections
<1>5. \A r \in UNION sets : Sound(r, {})
  BY Zenon DEF Sections
<1> HIDE DEF sets
<1>6. Paired(UNION sets)
  BY <1>4, PairedUnion
<1> QED BY <1>1, <1>3, <1>5, <1>6 DEF Sections, all

\* The unions of a service's calls.
LEMMA CallSections ==
    ASSUME iface \in Interfaces, NEW serv \in Range(iface.services)
    PROVE  LET all  == all_procedures(serv)
               key  == <<"wire_types", <<serv>>>>
               call == union_gen(<<"call_union", serv>>, [n \in DOMAIN all |-> <<all[n].params_struct>>])
               ret  == union_gen(<<"return_union", serv>>, [n \in DOMAIN all |-> <<all[n].results_struct>>])
           IN  /\ call \in Seq(Range(call)) /\ Sections(AddDependency(call, key), {})
               /\ ret \in Seq(Range(ret)) /\ Sections(AddDependency(ret, key), {})
<1> DEFINE all  == all_procedures(serv)
           key  == <<"wire_types", <<serv>>>>
           P == [n \in DOMAIN all |-> <<all[n].params_struct>>]
           R == [n \in DOMAIN all |-> <<all[n].results_struct>>]
           cu == <<"call_union", serv>>
           ru == <<"return_union", serv>>
<1>1. cu \in CallUnions /\ ru \in CallUnions
  <2>1. Range(Unions(serv)) = {cu, ru}
    BY DEF Unions, Range
  <2> HIDE DEF cu, ru
  <2> QED BY <2>1, Zenon DEF CallUnions
<1>2. cu[1] = "call_union" /\ cu[2] = serv /\ ru[1] = "return_union" /\ ru[2] = serv
  OBVIOUS
<1>3. cu \notin Own /\ ru \notin Own
  <2>1. ASSUME NEW c \in CallUnions PROVE c \notin Own
    <3>1. c[1] \in Made
      BY Heads DEF Made
    <3> QED BY <3>1, Heads
  <2> QED BY <1>1, <2>1
<1> HIDE DEF cu, ru, all
<1>4. Held(cu) = Range(P)
  <2>1. Held(cu) = {<<all[n].params_struct>> : n \in DOMAIN all}
    BY <1>1, <1>2, Zenon DEF Held, all
  <2> QED BY <2>1 DEF Range
<1>5. Held(ru) = Range(R)
  <2>1. "return_union" # "call_union"
    OBVIOUS
  <2>2. Held(ru) = {<<all[n].results_struct>> : n \in DOMAIN all}
    BY <1>1, <1>2, <2>1, Zenon DEF Held, all
  <2> QED BY <2>2 DEF Range
<1> HIDE DEF P, R
<1>6. ASSUME NEW c \in {cu, ru}, NEW mem, Held(c) = Range(mem)
      PROVE  /\ union_gen(c, mem) \in Seq(Range(union_gen(c, mem)))
             /\ Sections(AddDependency(union_gen(c, mem), key), {})
  <2>1. Shape(union_gen(c, mem), c, mem, {})
    BY UnionShape
  <2>2. Shape(AddDependency(union_gen(c, mem), key), c, mem, {key})
    BY <2>1, AddShape
  <2>3. c \in CallUnions /\ c \notin Own /\ key = <<"wire_types", <<c[2]>>>>
    BY <1>1, <1>2, <1>3
  <2>4. \A nm \in Held(c) : def_keys_from_name(nm) \subseteq member_keys(mem)
    BY <1>6, MemberKeys
  <2> HIDE DEF key
  <2>5. <<"wire_types", <<c[2]>>>> \in {key}
    BY <2>3
  <2>6. Sections(AddDependency(union_gen(c, mem), key), {})
    BY <2>2, <2>3, <2>4, <2>5, ShapeSections
  <2> QED BY <2>1, <2>6 DEF Shape
<1>7. /\ union_gen(cu, P) \in Seq(Range(union_gen(cu, P)))
      /\ Sections(AddDependency(union_gen(cu, P), key), {})
      /\ union_gen(ru, R) \in Seq(Range(union_gen(ru, R)))
      /\ Sections(AddDependency(union_gen(ru, R), key), {})
  BY <1>4, <1>5, <1>6
<1> QED BY <1>7 DEF cu, ru, P, R, all

\* The wire types of a service.
LEMMA WireSections ==
    ASSUME iface \in Interfaces, NEW serv \in Range(iface.services)
    PROVE  Sections(generate_wire_types(serv), {})
<1> DEFINE procs == iface.decl[serv].procedures
           all   == all_procedures(serv)
           key   == <<"wire_types", <<serv>>>>
           pr(n) == struct_gen(<<procs[n].params_struct>>, Members(<<procs[n].params_struct>>), <<serv>>)
           rs(n) == struct_gen(<<procs[n].results_struct>>, Members(<<procs[n].results_struct>>), <<>>)
           sq    == [n \in DOMAIN procs |-> pr(n) \o rs(n)]
           own   == FlattenSeq(sq)
           call  == union_gen(<<"call_union", serv>>, [n \in DOMAIN all |-> <<all[n].params_struct>>])
           ret   == union_gen(<<"return_union", serv>>, [n \in DOMAIN all |-> <<all[n].results_struct>>])
           last  == Section(<<key>>, {<<"definition", <<serv>>>>})
           parts == {pr(n) : n \in DOMAIN procs} \union {rs(n) : n \in DOMAIN procs} \union {call, ret}
           q     == (own \o call) \o ret
<1>1. generate_wire_types(serv) = Append(AddDependency(q, key), last)
  <2>1. Unions(serv)[1] = <<"call_union", serv>> /\ Unions(serv)[2] = <<"return_union", serv>>
    BY DEF Unions
  <2> QED BY <2>1, Zenon DEF generate_wire_types
<1>2. /\ Len(procs) \in Nat /\ DOMAIN procs = 1 .. Len(procs)
      /\ \A n \in DOMAIN procs : procs[n].params_struct \in OfProcs /\ procs[n].results_struct \in OfProcs
  <2>1. procs \in Seq(Procedures)
    BY ListsAre, ServicesAre
  <2>2. \A p \in Procedures : p.params_struct \in OfProcs /\ p.results_struct \in OfProcs
    BY DEF Procedures
  <2>3. /\ Len(procs) \in Nat /\ DOMAIN procs = 1 .. Len(procs)
        /\ \A n \in DOMAIN procs : procs[n] \in Procedures
    BY <2>1, LenProperties
  <2> QED BY <2>2, <2>3
<1>3. ASSUME NEW n \in DOMAIN procs
      PROVE  /\ pr(n) \in Seq(Range(pr(n))) /\ Sections(AddDependency(pr(n), key), {})
             /\ rs(n) \in Seq(Range(rs(n))) /\ Sections(AddDependency(rs(n), key), {})
  <2>1. Len(<<serv>>) \in Nat /\ Len(<<>>) \in Nat
    OBVIOUS
  <2>2. <<procs[n].params_struct>> \in Own /\ <<procs[n].results_struct>> \in Own
    BY <1>2, ListsAre
  <2> QED BY <2>1, <2>2, OwnStruct
<1>4. /\ call \in Seq(Range(call)) /\ Sections(AddDependency(call, key), {})
      /\ ret \in Seq(Range(ret)) /\ Sections(AddDependency(ret, key), {})
  BY CallSections
<1> HIDE DEF procs, pr, rs, call, ret
<1>5. \A p \in parts : p \in Seq(Range(p)) /\ Sections(AddDependency(p, key), {})
  BY <1>3, <1>4
<1> DEFINE S == UNION {Range(p) : p \in parts}
<1>6. /\ \A n \in DOMAIN procs : pr(n) \in Seq(S) /\ rs(n) \in Seq(S)
      /\ call \in Seq(S) /\ ret \in Seq(S)
  <2>1. ASSUME NEW p \in parts PROVE p \in Seq(S)
    <3>1. p \in Seq(Range(p)) /\ Range(p) \subseteq S
      BY <1>5
    <3> HIDE DEF S
    <3> QED BY <3>1
  <2> HIDE DEF S
  <2> QED BY <2>1
<1> HIDE DEF parts
<1>7. \A n \in DOMAIN procs : /\ pr(n) \o rs(n) \in Seq(S)
                             /\ Range(pr(n) \o rs(n)) = Range(pr(n)) \union Range(rs(n))
  <2>1. ASSUME NEW T, NEW x \in Seq(T), NEW y \in Seq(T)
        PROVE  x \o y \in Seq(T) /\ Range(x \o y) = Range(x) \union Range(y)
    BY ConcatProperties, RangeConcatenation
  <2> HIDE DEF S
  <2> QED BY <1>6, <2>1, Zenon
<1>8. own \in Seq(S) /\ Range(own) = UNION {Range(pr(n) \o rs(n)) : n \in DOMAIN procs}
  <2>1. sq \in [1 .. Len(procs) -> Seq(S)]
    BY <1>2, <1>7
  <2>2. \A n \in DOMAIN procs : sq[n] = pr(n) \o rs(n)
    OBVIOUS
  <2> HIDE DEF sq, S
  <2>3. FlattenSeq(sq) \in Seq(S) /\ Range(FlattenSeq(sq)) = UNION {Range(sq[n]) : n \in 1 .. Len(procs)}
    BY <1>2, <2>1, FlattenMap
  <2>4. {Range(sq[n]) : n \in 1 .. Len(procs)} = {Range(pr(n) \o rs(n)) : n \in DOMAIN procs}
    BY <1>2, <2>2
  <2> QED BY <2>3, <2>4
<1> HIDE DEF own, sq, S
<1>9. /\ own \o call \in Seq(S) /\ q \in Seq(S)
      /\ Range(q) = Range(own) \union Range(call) \union Range(ret)
  <2>1. own \o call \in Seq(S) /\ Range(own \o call) = Range(own) \union Range(call)
    BY <1>6, <1>8, ConcatProperties, RangeConcatenation
  <2>2. ASSUME NEW T, NEW x \in Seq(T), NEW y \in Seq(T)
        PROVE  x \o y \in Seq(T) /\ Range(x \o y) = Range(x) \union Range(y)
    BY ConcatProperties, RangeConcatenation
  <2>3. q \in Seq(S) /\ Range(q) = Range(own \o call) \union Range(ret)
    <3>1. /\ (own \o call) \o ret \in Seq(S)
          /\ Range((own \o call) \o ret) = Range(own \o call) \union Range(ret)
      <4> DEFINE oc == own \o call
      <4>1. oc \in Seq(S)
        BY <2>1
      <4>2. ret \in Seq(S)
        BY <1>6
      <4> HIDE DEF oc
      <4>3. oc \o ret \in Seq(S) /\ Range(oc \o ret) = Range(oc) \union Range(ret)
        BY <4>1, <4>2, <2>2
      <4> QED BY <4>3 DEF oc
    <3>2. q = (own \o call) \o ret
      OBVIOUS
    <3> HIDE DEF q
    <3> QED BY <3>1, <3>2
  <2> HIDE DEF q
  <2> QED BY <2>1, <2>3
<1>10. Range(q) = S
  <2> HIDE DEF q
  <2>1. ASSUME NEW x
        PROVE  x \in Range(own) <=>
                  \E n \in DOMAIN procs : x \in Range(pr(n)) \/ x \in Range(rs(n))
    BY <1>7, <1>8
  <2>2. ASSUME NEW x
        PROVE  x \in S <=> \/ \E n \in DOMAIN procs : x \in Range(pr(n)) \/ x \in Range(rs(n))
                           \/ x \in Range(call) \/ x \in Range(ret)
    BY DEF S, parts
  <2> QED BY <1>9, <2>1, <2>2
<1> HIDE DEF q
<1>11. Sections(AddDependency(q, key), {})
  <2>1. q \in Seq(Range(q)) /\ Range(q) = UNION {Range(p) : p \in parts}
    BY <1>9, <1>10 DEF S
  <2> QED BY <1>5, <2>1, AddParts
<1>12. Sections(<<last>>, {})
  <2>1. last.keys = {key} /\ last.depends_on = {<<"definition", <<serv>>>>}
    BY SectionIs
  <2> HIDE DEF last
  <2>2. \A x : /\ <<"definition", x>> \notin last.keys
               /\ <<"eq_operator", x>> \notin last.keys
               /\ <<"service_descriptor", x>> \notin last.keys
               /\ <<"wire_types", x>> \in last.keys => x = <<serv>>
    BY <2>1
  <2>3. \A s : <<"wire_types", <<s>>>> \in last.keys => <<"definition", <<s>>>> \in last.depends_on
    BY <2>1, <2>2
  <2>4. Sound(last, {})
    BY <2>2, <2>3, Zenon DEF Sound
  <2> QED BY <2>2, <2>4, OneSection
<1> DEFINE front == AddDependency(q, key)
<1> HIDE DEF front, last
<1>13. Append(front, last) = front \o <<last>>
  <2>1. front \in Seq(Range(front) \union {last}) /\ last \in Range(front) \union {last}
    <3>1. front \in Seq(Range(front)) /\ Range(front) \subseteq Range(front) \union {last}
      BY <1>11 DEF Sections, front
    <3> QED BY <3>1
  <2> QED BY <2>1, AppendIsConcat
<1> QED BY <1>1, <1>11, <1>12, <1>13, SectionsConcat DEF front

------------------------------------------------------------------------------
\* The sections of a service, and the loops of generate.

\* The sections of a service's server classes.
ServersOf(serv, sects) ==
    \A type \in {"sync_server", "async_server"} :
        \E r \in sects : /\ <<type, <<serv>>>> \in r.keys
                         /\ r.depends_on = member_keys(OwnTypes(serv)) \union {<<"definition", <<serv>>>>}

\* The section of a service's descriptor.
LEMMA DescriptorSections ==
    ASSUME NEW serv
    PROVE  Sections(generate_service_descriptor(serv), {})
<1> DEFINE key == <<"service_descriptor", <<serv>>>>
           deps == {<<"definition", s>> : s \in Range(Unions(serv)) \union {<<serv>>}}
           r == Section(<<key>>, deps)
<1>1. generate_service_descriptor(serv) = <<r>>
  BY DEF generate_service_descriptor
<1>2. r.keys = {key} /\ r.depends_on = deps
  BY SectionIs
<1>3. \A u \in Range(Unions(serv)) : <<"definition", u>> \in deps
  OBVIOUS
<1> HIDE DEF r, deps
<1>4. \A x : /\ <<"definition", x>> \notin r.keys /\ <<"eq_operator", x>> \notin r.keys
             /\ <<"wire_types", x>> \notin r.keys
             /\ <<"service_descriptor", x>> \in r.keys => x = <<serv>>
  BY <1>2
<1>5. \A s : <<"service_descriptor", <<s>>>> \in r.keys => s = serv
  <2>1. \A s : <<s>> = <<serv>> => s = serv
    OBVIOUS
  <2> QED BY <1>4, <2>1, Zenon
<1>6. \A s : <<"service_descriptor", <<s>>>> \in r.keys =>
                \A u \in Range(Unions(s)) : <<"definition", u>> \in r.depends_on
  BY <1>2, <1>3, <1>5, Zenon
<1>7. Sound(r, {})
  BY <1>4, <1>6, Zenon DEF Sound
<1> QED BY <1>1, <1>4, <1>7, OneSection

\* The sections of a service.
LEMMA ServiceSections ==
    ASSUME iface \in Interfaces, NEW serv \in Range(iface.services)
    PROVE  Sections(service_gen(serv), {}) /\ ServersOf(serv, Range(service_gen(serv)))
<1> DEFINE d == <<Section(<<<<"definition", <<serv>>>>>>, {})>>
           w == generate_wire_types(serv)
           a == generate_server(serv, "sync_server")
           b == generate_server(serv, "async_server")
           c == generate_service_descriptor(serv)
           z == generate_zerocopy_stubs(serv)
           t == generate_stubs(serv)
           deps == member_keys(OwnTypes(serv)) \union {<<"definition", <<serv>>>>}
<1>1. Sections(d, {})
  <2>1. serv \in DOMAIN iface.decl /\ Kind(serv) = "service"
    BY ListsAre
  <2> QED BY <2>1, OwnEnum DEF Compounds
<1>2. Sections(w, {})
  BY WireSections
<1>3. /\ Sections(a, {}) /\ Range(a) = {Section(<<<<"sync_server", <<serv>>>>>>, deps)}
      /\ Sections(b, {}) /\ Range(b) = {Section(<<<<"async_server", <<serv>>>>>>, deps)}
  BY QuietSection, QuietOne DEF generate_server
<1>4. Sections(c, {})
  BY DescriptorSections
<1>5. Sections(z, {})
  <2> DEFINE x == Section(<<<<"zerocopy_stub", <<serv>>>>>>, {<<"sync_server", <<serv>>>>})
             y == Section(<<<<"async_zerocopy_stub", <<serv>>>>>>, {<<"async_server", <<serv>>>>})
  <2>1. z = <<x, y>>
    BY DEF generate_zerocopy_stubs
  <2>2. Quiet(x) /\ Quiet(y)
    BY QuietSection
  <2> HIDE DEF x, y, z
  <2>3. Sections(<<x>>, {}) /\ Sections(<<y>>, {})
    BY <2>2, QuietOne
  <2>4. Sections(<<x, y>>, {})
    BY <2>3, TwoSections
  <2> QED BY <2>1, <2>4, Zenon
<1>6. Sections(t, {})
  <2> DEFINE wire == {<<"wire_types", <<serv>>>>} \union {<<"definition", u>> : u \in Range(Unions(serv))}
             x == Section(<<<<"stub", <<serv>>>>>>, {<<"sync_server", <<serv>>>>} \union wire)
             y == Section(<<<<"async_stub", <<serv>>>>>>, {<<"async_server", <<serv>>>>} \union wire)
  <2>1. t = <<x, y>>
    BY DEF generate_stubs
  <2>2. Quiet(x) /\ Quiet(y)
    BY QuietSection
  <2> HIDE DEF x, y, t
  <2>3. Sections(<<x>>, {}) /\ Sections(<<y>>, {})
    BY <2>2, QuietOne
  <2>4. Sections(<<x, y>>, {})
    BY <2>3, TwoSections
  <2> QED BY <2>1, <2>4, Zenon
<1> HIDE DEF d, w, a, b, c, z, t
<1> DEFINE q2 == d \o w
           q3 == q2 \o a
           q4 == q3 \o b
           q5 == q4 \o c
           q6 == q5 \o z
           q7 == q6 \o t
<1>7. service_gen(serv) = q7
  BY Zenon DEF service_gen, d, w, a, b, c, z, t
<1> HIDE DEF deps
<1>3a. Sections(a, {}) /\ Sections(b, {})
  BY <1>3
<1>3b. ASSUME NEW x, Sections(x, {}), NEW y, Sections(y, {})
       PROVE  Sections(x \o y, {}) /\ Range(x) \subseteq Range(x \o y) /\ Range(y) \subseteq Range(x \o y)
  BY <1>3b, SectionsConcat
<1>8. Sections(q2, {})
  <2>1. Sections(d, {}) /\ Sections(w, {})
    BY <1>1, <1>2
  <2>2. Sections(d \o w, {})
    BY <2>1, <1>3b, Zenon
  <2> QED BY <2>2
<1> HIDE DEF q2
<1>9. Sections(q3, {}) /\ Range(a) \subseteq Range(q3)
  BY <1>3a, <1>3b, <1>8
<1> HIDE DEF q3
<1>10. Sections(q4, {}) /\ Range(a) \subseteq Range(q4) /\ Range(b) \subseteq Range(q4)
  <2>1. Sections(q4, {}) /\ Range(q3) \subseteq Range(q4) /\ Range(b) \subseteq Range(q4)
    BY <1>3a, <1>3b, <1>9
  <2> QED BY <1>9, <2>1
<1> HIDE DEF q4
<1>11. Sections(q5, {}) /\ Range(a) \subseteq Range(q5) /\ Range(b) \subseteq Range(q5)
  BY <1>4, <1>10, <1>3b
<1> HIDE DEF q5
<1>12. Sections(q6, {}) /\ Range(a) \subseteq Range(q6) /\ Range(b) \subseteq Range(q6)
  BY <1>5, <1>11, <1>3b
<1> HIDE DEF q6
<1>13. Sections(q7, {}) /\ Range(a) \subseteq Range(q7) /\ Range(b) \subseteq Range(q7)
  BY <1>6, <1>12, <1>3b
<1> HIDE DEF q7, deps
<1>15. ServersOf(serv, Range(q7))
  <2>1. ASSUME NEW key
        PROVE Section(<<key>>, deps).keys = {key} /\ Section(<<key>>, deps).depends_on = deps
    BY SectionIs
  <2>2. /\ Section(<<<<"sync_server", <<serv>>>>>>, deps) \in Range(q7)
        /\ Section(<<<<"async_server", <<serv>>>>>>, deps) \in Range(q7)
    BY <1>3, <1>13
  <2>3. \A type \in {"sync_server", "async_server"} :
            Section(<<<<type, <<serv>>>>>>, deps) \in Range(q7)
    BY <2>2
  <2>4. \A type \in {"sync_server", "async_server"} :
            \E r \in Range(q7) : <<type, <<serv>>>> \in r.keys /\ r.depends_on = deps
    BY <2>1, <2>3
  <2> QED BY <2>4 DEF ServersOf, deps
<1> QED BY <1>7, <1>13, <1>15

\* One of the loops of generate: what it adds is sound when it is for what it goes through.
LEMMA LoopSections ==
    ASSUME NEW have, NEW S, NEW list \in Seq(S), NEW sq, IsList(sq, Len(list)),
           \A n \in DOMAIN list : Sections(sq[n], have)
    PROVE  /\ Sections(FlattenSeq(sq), have)
           /\ \A n \in DOMAIN list : Range(sq[n]) \subseteq Range(FlattenSeq(sq))
<1>1. Len(list) \in Nat /\ DOMAIN list = 1 .. Len(list)
  BY LenProperties
<1>2. /\ Sections(FlattenSeq(sq), have)
      /\ Range(FlattenSeq(sq)) = UNION {Range(sq[n]) : n \in 1 .. Len(list)}
  BY <1>1, SectionsFlatten
<1>3. \A n \in 1 .. Len(list) : Range(sq[n]) \subseteq Range(FlattenSeq(sq))
  BY <1>2, Zenon
<1> QED BY <1>1, <1>2, <1>3

\* The loops over the lists of an interface.
LEMMA LoopsAreSound ==
    ASSUME iface \in Interfaces
    PROVE  /\ Sections(FlattenSeq([n \in DOMAIN iface.services |-> NoSections(iface.services[n])]), {})
           /\ Sections(FlattenSeq([n \in DOMAIN iface.enums |-> Enum(iface.enums[n])]), {})
           /\ Sections(FlattenSeq([n \in DOMAIN iface.unions |-> Union(iface.unions[n])]), {})
           /\ Sections(FlattenSeq([n \in DOMAIN iface.structs |-> Struct(iface.structs[n])]), {})
           /\ LET q == FlattenSeq([n \in DOMAIN iface.services |-> service_gen(iface.services[n])]) IN
              Sections(q, {}) /\ \A s \in Range(iface.services) : ServersOf(s, Range(q))
<1> DEFINE none     == [n \in DOMAIN iface.services |-> NoSections(iface.services[n])]
           enums    == [n \in DOMAIN iface.enums |-> Enum(iface.enums[n])]
           unions   == [n \in DOMAIN iface.unions |-> Union(iface.unions[n])]
           structs  == [n \in DOMAIN iface.structs |-> Struct(iface.structs[n])]
           services == [n \in DOMAIN iface.services |-> service_gen(iface.services[n])]
<1>1. \A n \in DOMAIN iface.services : none[n] = <<>> /\ Sections(none[n], {})
  BY NoSection DEF NoSections
<1>2. \A n \in DOMAIN iface.enums : enums[n] = Enum(iface.enums[n]) /\ Sections(enums[n], {})
  <2>1. ASSUME NEW n \in DOMAIN iface.enums
        PROVE  iface.enums[n] \in DOMAIN iface.decl /\ Kind(iface.enums[n]) = "enumeration"
    BY ListsAre, ElementOfSeq
  <2>2. ASSUME NEW n \in DOMAIN iface.enums PROVE Sections(Enum(iface.enums[n]), {})
    BY <2>1, OwnEnum DEF Compounds
  <2> QED BY <2>2
<1>3. \A n \in DOMAIN iface.unions : unions[n] = Union(iface.unions[n]) /\ Sections(unions[n], {})
  <2>1. ASSUME NEW n \in DOMAIN iface.unions
        PROVE  iface.unions[n] \in DOMAIN iface.decl /\ Kind(iface.unions[n]) \in {"union", "raw_union"}
    BY ListsAre, ElementOfSeq
  <2>2. ASSUME NEW n \in DOMAIN iface.unions PROVE Sections(Union(iface.unions[n]), {})
    BY <2>1, OwnUnion
  <2> QED BY <2>2
<1>4. \A n \in DOMAIN iface.structs :
         structs[n] = Struct(iface.structs[n]) /\ Sections(structs[n], {})
  <2>1. ASSUME NEW n \in DOMAIN iface.structs
        PROVE  iface.structs[n] \in DOMAIN iface.decl /\ Kind(iface.structs[n]) = "structure"
    BY ListsAre, ElementOfSeq
  <2>2. ASSUME NEW n \in DOMAIN iface.structs PROVE Sections(Struct(iface.structs[n]), {})
    <3>1. <<iface.structs[n]>> \in Own /\ Len(<<>>) \in Nat
      BY <2>1 DEF Own, Compounds, Generics
    <3> QED BY <3>1, OwnStruct DEF Struct
  <2> QED BY <2>2
<1>5. \A n \in DOMAIN iface.services : /\ services[n] = service_gen(iface.services[n])
                                       /\ Sections(services[n], {})
                                       /\ ServersOf(iface.services[n], Range(services[n]))
  <2>1. ASSUME NEW n \in DOMAIN iface.services PROVE iface.services[n] \in Range(iface.services)
    BY DEF Range
  <2> QED BY <2>1, ServiceSections
<1>6. /\ IsList(none, Len(iface.services)) /\ IsList(enums, Len(iface.enums))
      /\ IsList(unions, Len(iface.unions)) /\ IsList(structs, Len(iface.structs))
      /\ IsList(services, Len(iface.services))
  <2>1. /\ DOMAIN iface.services = 1 .. Len(iface.services)
        /\ DOMAIN iface.enums = 1 .. Len(iface.enums)
        /\ DOMAIN iface.unions = 1 .. Len(iface.unions)
        /\ DOMAIN iface.structs = 1 .. Len(iface.structs)
    BY ListsAre, LenProperties
  <2> QED BY <2>1 DEF IsList
<1> HIDE DEF none, enums, unions, structs, services
<1>7. Sections(FlattenSeq(none), {})
  BY <1>1, <1>6, ListsAre, LoopSections
<1>8. Sections(FlattenSeq(enums), {})
  BY <1>2, <1>6, ListsAre, LoopSections
<1>9. Sections(FlattenSeq(unions), {})
  BY <1>3, <1>6, ListsAre, LoopSections
<1>10. Sections(FlattenSeq(structs), {})
  BY <1>4, <1>6, ListsAre, LoopSections
<1>11. /\ Sections(FlattenSeq(services), {})
       /\ \A n \in DOMAIN iface.services : Range(services[n]) \subseteq Range(FlattenSeq(services))
  BY <1>5, <1>6, ListsAre, LoopSections
<1>12. \A s \in Range(iface.services) : ServersOf(s, Range(FlattenSeq(services)))
  <2>1. ASSUME NEW s, NEW few, NEW more, few \subseteq more, ServersOf(s, few)
        PROVE  ServersOf(s, more)
    BY <2>1 DEF ServersOf
  <2>2. ASSUME NEW s \in Range(iface.services)
        PROVE  \E n \in DOMAIN iface.services : s = iface.services[n]
    BY DEF Range
  <2>3. ASSUME NEW s \in Range(iface.services)
        PROVE  ServersOf(s, Range(FlattenSeq(services)))
    <3>1. PICK n \in DOMAIN iface.services : s = iface.services[n]
      BY <2>2
    <3>2. ServersOf(s, Range(services[n]))
      BY <1>5, <3>1, Zenon
    <3>3. Range(services[n]) \subseteq Range(FlattenSeq(services))
      BY <1>11, Zenon
    <3> QED BY <2>1, <3>2, <3>3, Zenon
  <2> QED BY <2>3
<1> DEFINE q == FlattenSeq(services)
<1>13. Sections(q, {}) /\ \A s \in Range(iface.services) : ServersOf(s, Range(q))
  BY <1>11, <1>12
<1>14. q = FlattenSeq([n \in DOMAIN iface.services |-> service_gen(iface.services[n])])
  BY Zenon DEF services
<1> HIDE DEF q
<1>15. LET l == FlattenSeq([n \in DOMAIN iface.services |-> service_gen(iface.services[n])]) IN
       Sections(l, {}) /\ \A s \in Range(iface.services) : ServersOf(s, Range(l))
  BY <1>13, <1>14, Zenon
<1>16. /\ Sections(FlattenSeq([n \in DOMAIN iface.services |-> NoSections(iface.services[n])]), {})
       /\ Sections(FlattenSeq([n \in DOMAIN iface.enums |-> Enum(iface.enums[n])]), {})
       /\ Sections(FlattenSeq([n \in DOMAIN iface.unions |-> Union(iface.unions[n])]), {})
       /\ Sections(FlattenSeq([n \in DOMAIN iface.structs |-> Struct(iface.structs[n])]), {})
  BY <1>7, <1>8, <1>9, <1>10, Zenon DEF none, enums, unions, structs
<1> QED BY <1>15, <1>16, Zenon

------------------------------------------------------------------------------
\* The invariant.

\* The sections collected say what they depend on, and once the services are generated those
\* of their servers are among them.
SectionsSound ==
    /\ Sections(m_sections, Range(instantiations))
    /\ stage \notin {"start", "enums", "unions", "structs", "services"} =>
          \A s \in Range(iface.services) : ServersOf(s, Range(m_sections))

\* What is said of sections is read from the interface alone.
LEMMA SameSections ==
    ASSUME iface' = iface
    PROVE  /\ \A q, have : Sections(q, have)' <=> Sections(q, have)
           /\ \A s, sects : ServersOf(s, sects)' <=> ServersOf(s, sects)
<1>1. Fine' = Fine
  BY SameInterface
<1>2. \A x : Kind(x)' = Kind(x)
  BY SMT DEF Kind
<1>3. Own' = Own /\ OfGeneric' = OfGeneric /\ CallUnions' = CallUnions
  BY <1>1, <1>2, SMT DEF Own, OfGeneric, CallUnions
<1>4. Holders' = Holders /\ \A c : Sym(c)' = Sym(c)
  BY <1>3, SMT DEF Holders, Sym
<1>5. \A x : Members(x)' = Members(x)
  BY SMT DEF Members, get_wire_type_name, is_reference_type, references, IsCompound, Kind,
             Name, Symbols, Types
<1>6. \A x : def_keys_from_name(x)' = def_keys_from_name(x)
  BY SMT DEF def_keys_from_name, is_reference_type, references, IsCompound, Kind, Name,
             Symbols, Types
<1>7. \A x : all_procedures(x)' = all_procedures(x)
  BY SMT DEF all_procedures
<1>8. \A c : Held(c)' = Held(c)
  BY SMT DEF Held, CallUnions, all_procedures, Members, get_wire_type_name, is_reference_type,
             references, IsCompound, Kind, Name, Symbols, Types
<1>9. \A c : Comparable(c)' <=> Comparable(c)
  BY <1>2, <1>5, SMT DEF Comparable
<1>10. \A e, r, c : Compares(e, r, c)' <=> Compares(e, r, c)
  BY <1>4, SMT DEF Compares
<1>11. \A r, have : Sound(r, have)' <=> Sound(r, have)
  BY <1>3, <1>4, <1>6, <1>8, SMT DEF Sound
<1>12. \A sects : Paired(sects)' <=> Paired(sects)
  BY <1>3, <1>9, <1>10, SMT DEF Paired
<1>13. \A q, have : Sections(q, have)' <=> Sections(q, have)
  BY <1>11, <1>12, SMT DEF Sections
<1>14. \A s, sects : ServersOf(s, sects)' <=> ServersOf(s, sects)
  BY SMT DEF ServersOf, member_keys, def_keys_from_name, is_reference_type, references,
             IsCompound, Kind, Name, Symbols, Types, OwnTypes
<1> QED BY <1>13, <1>14

\* SectionsSound holds of no sections,
LEMMA SectionsSoundInit == BackendInit => SectionsSound
<1> SUFFICES ASSUME BackendInit PROVE SectionsSound
  OBVIOUS
<1>1. m_sections = <<>> /\ stage = "start"
  BY DEF BackendInit
<1>2. Sections(<<>>, Range(instantiations))
  BY NoSection
<1> QED BY <1>1, <1>2 DEF SectionsSound

\* and every step of generate and of the emitter keeps it.
LEMMA SectionsSoundNext ==
    LookedUp /\ SectionsSound /\ [BackendNext]_backend_vars => SectionsSound'
<1> SUFFICES ASSUME LookedUp, SectionsSound, [BackendNext]_backend_vars PROVE SectionsSound'
  OBVIOUS
<1> DEFINE Early == {"start", "enums", "unions", "structs", "services"}
           have == Range(instantiations)
           Looked(q) == Calls(q) /\ instantiations' = create_or_get_instantiations(instantiations, q)
           Kept == stage' \notin Early => stage \notin Early
<1>1. iface \in Interfaces /\ Names \subseteq ends[MaxDepth]
  BY DEF LookedUp
\* A step that collects q.
<1>2. ASSUME iface' = iface, NEW q, m_sections' = m_sections \o q, have \subseteq have',
             Sections(q, have'),
             stage' \notin Early => stage \notin Early
                                    \/ \A s \in Range(iface.services) : ServersOf(s, Range(q))
      PROVE  SectionsSound'
  <2>1. Sections(m_sections, have')
    BY <1>2, SectionsMore DEF SectionsSound
  <2> HIDE DEF have
  <2>2. Sections(m_sections', have') /\ Range(m_sections') = Range(m_sections) \union Range(q)
    BY <1>2, <2>1, SectionsConcat
  <2>3. ASSUME NEW s, NEW few, NEW more, few \subseteq more, ServersOf(s, few)
        PROVE  ServersOf(s, more)
    BY <2>3 DEF ServersOf
  <2>4. stage' \notin Early => \A s \in Range(iface.services) : ServersOf(s, Range(m_sections'))
    <3>1. Range(q) \subseteq Range(m_sections') /\ Range(m_sections) \subseteq Range(m_sections')
      BY <2>2
    <3>2. CASE stage \notin Early
      <4>1. \A s \in Range(iface.services) : ServersOf(s, Range(m_sections))
        BY <3>2 DEF SectionsSound
      <4> QED BY <3>1, <4>1, <2>3, Zenon
    <3>3. CASE \A s \in Range(iface.services) : ServersOf(s, Range(q))
      BY <3>1, <3>3, <2>3, Zenon
    <3> QED BY <1>2, <3>2, <3>3
  <2>5. Sections(m_sections, have)' <=> Sections(m_sections', have')
    BY <1>2, SMT, SameSections
  <2> QED BY <1>2, <2>2, <2>4, <2>5, SameSections DEF SectionsSound, have
\* A step that collects nothing.
<1>3. ASSUME iface' = iface, m_sections' = m_sections, have \subseteq have', Kept
      PROVE  SectionsSound'
  <2>1. m_sections \o <<>> = m_sections
    <3>1. m_sections \in Seq(Range(m_sections))
      BY DEF SectionsSound, Sections
    <3> QED BY <3>1
  <2>2. Sections(<<>>, have')
    BY NoSection
  <2> QED BY <1>2, <1>3, <2>1, <2>2
\* The steps of generate.
<1>4. ASSUME NEW q, Calls(q), iface' = iface,
             instantiations' = create_or_get_instantiations(instantiations, q)
      PROVE  have \subseteq have'
  BY <1>4, LookUpKeeps
<1>5. /\ \A q : Sections(q, {}) => Sections(q, have')
      /\ stage' \in Early => Kept
  BY SectionsMore
<1>6. CASE RenameUnions
  <2> DEFINE q == FlattenSeq([n \in DOMAIN iface.services |-> NoSections(iface.services[n])])
  <2>1. /\ iface' = iface /\ stage' \in Early /\ m_sections' = m_sections \o q
        /\ have \subseteq have'
    BY <1>1, <1>4, <1>6, LoopsLookUp DEF RenameUnions, Collect
  <2>2. Sections(q, {})
    BY <1>1, LoopsAreSound
  <2> HIDE DEF q, have
  <2> QED BY <1>2, <1>5, <2>1, <2>2
<1>7. CASE GenerateEnums
  <2> DEFINE q == FlattenSeq([n \in DOMAIN iface.enums |-> Enum(iface.enums[n])])
  <2>1. /\ iface' = iface /\ stage' \in Early /\ m_sections' = m_sections \o q
        /\ have \subseteq have'
    BY <1>1, <1>4, <1>7, LoopsLookUp DEF GenerateEnums, Collect
  <2>2. Sections(q, {})
    BY <1>1, LoopsAreSound
  <2> HIDE DEF q, have
  <2> QED BY <1>2, <1>5, <2>1, <2>2
<1>8. CASE GenerateUnions
  <2> DEFINE q == FlattenSeq([n \in DOMAIN iface.unions |-> Union(iface.unions[n])])
  <2>1. /\ iface' = iface /\ stage' \in Early /\ m_sections' = m_sections \o q
        /\ have \subseteq have'
    BY <1>1, <1>4, <1>8, ServicesAre, TypesLookUp DEF GenerateUnions, Collect
  <2>2. Sections(q, {})
    BY <1>1, LoopsAreSound
  <2> HIDE DEF q, have
  <2> QED BY <1>2, <1>5, <2>1, <2>2
<1>9. CASE GenerateStructs
  <2> DEFINE q == FlattenSeq([n \in DOMAIN iface.structs |-> Struct(iface.structs[n])])
  <2>1. /\ iface' = iface /\ stage' \in Early /\ m_sections' = m_sections \o q
        /\ have \subseteq have'
    BY <1>1, <1>4, <1>9, ServicesAre, TypesLookUp DEF GenerateStructs, Collect
  <2>2. Sections(q, {})
    BY <1>1, LoopsAreSound
  <2> HIDE DEF q, have
  <2> QED BY <1>2, <1>5, <2>1, <2>2
<1>10. CASE GenerateServices
  <2> DEFINE q == FlattenSeq([n \in DOMAIN iface.services |-> service_gen(iface.services[n])])
  <2>1. iface' = iface /\ m_sections' = m_sections \o q /\ have \subseteq have'
    BY <1>1, <1>4, <1>10, LoopsLookUp DEF GenerateServices
  <2>2. Sections(q, {}) /\ \A s \in Range(iface.services) : ServersOf(s, Range(q))
    BY <1>1, LoopsAreSound
  <2> HIDE DEF q, have
  <2> QED BY <1>2, <1>5, <2>1, <2>2
<1>11. CASE GenerateInstance
  <2> DEFINE nm == instantiations[ins]
             q  == IF Kind(Head(nm)) \in Generics THEN member_calls(Members(nm)) ELSE <<>>
  <2>1. /\ iface' = iface /\ stage = "instances" /\ ins <= ins_end
        /\ instantiations' = create_or_get_instantiations(instantiations, q)
        /\ m_sections' = m_sections \o generic_gen(nm)
    BY <1>11 DEF GenerateInstance
  <2>2. nm \in Range(instantiations) /\ Calls(q)
    BY <2>1, InstanceLooksUp, CallsOfNone
  <2>3. nm \in Fine
    BY <2>2, RangeOfSeq DEF LookedUp, Calls, Closed
  <2>4. Sections(generic_gen(nm), {nm})
    BY <1>1, <2>3, GenericSections
  <2> HIDE DEF q, nm
  <2>5. have \subseteq have'
    BY <1>4, <2>1, <2>2
  <2>6. Sections(generic_gen(nm), have')
    <3>1. {nm} \subseteq have'
      BY <2>2, <2>5
    <3> QED BY <2>4, <3>1, SectionsMore
  <2>7. stage \notin Early
    BY <2>1
  <2> HIDE DEF have, Early
  <2> QED BY <1>2, <2>1, <2>5, <2>6, <2>7
<1>12. CASE StartEmitter \/ EmitPass \/ EndEmit \/ UNCHANGED backend_vars
  <2>1. /\ iface' = iface /\ m_sections' = m_sections /\ instantiations' = instantiations /\ Kept
    BY <1>12 DEF StartEmitter, EmitPass, EndEmit, backend_vars
  <2> QED BY <1>3, <2>1
<1> QED
  BY <1>6, <1>7, <1>8, <1>9, <1>10, <1>11, <1>12 DEF BackendNext

------------------------------------------------------------------------------
\* What is written before what.

\* What a finished back end rests on.
InOrder == LookedUp /\ SectionsSound /\ PassesReady

\* The sections collected, one by one.
LEMMA EachSection ==
    ASSUME SectionsSound
    PROVE  /\ \A n \in DOMAIN m_sections : /\ Sound(m_sections[n], Range(instantiations))
                                           /\ m_sections[n] \in Range(m_sections)
           /\ \A r \in Range(m_sections) : \E n \in DOMAIN m_sections : r = m_sections[n]
<1>1. \A r \in Range(m_sections) : Sound(r, Range(instantiations))
  BY DEF SectionsSound, Sections
<1>2. \A n \in DOMAIN m_sections : m_sections[n] \in Range(m_sections)
  BY DEF Range
<1>3. \A r \in Range(m_sections) : \E n \in DOMAIN m_sections : r = m_sections[n]
  BY DEF Range
<1> QED BY <1>1, <1>2, <1>3, Zenon

\* The classes of the emitted file are holders, and what they hold is fine.
LEMMA ClassesAre ==
    ASSUME LookedUp, NEW c \in Classes
    PROVE  /\ c \in Holders /\ (c \in Instances <=> c \in OfGeneric)
           /\ Held(c) \subseteq Fine
           /\ \/ Len(c) # 1
              \/ c[1] \notin Intrinsics \union iface.imported
<1>1. /\ iface \in Interfaces /\ Names \subseteq ends[MaxDepth] /\ instantiations \in Seq(Fine)
      /\ Range(instantiations) \subseteq Fine
  BY DEF LookedUp, Calls, Closed
<1>2. Instances \subseteq OfGeneric
  BY <1>1 DEF Instances, OfGeneric
<1>3. CASE c \in Instances
  <2>1. c \in OfGeneric /\ c \in Fine /\ Kind(Head(c)) \in Generics
    BY <1>2, <1>3 DEF OfGeneric
  <2>2. c[1] \in DOMAIN iface.decl /\ Head(c) = c[1] /\ Len(c) > 1 /\ c \in Seq(Symbols)
    BY <1>1, <2>1, Heads
  <2>3. c \notin CallUnions
    <3> SUFFICES ASSUME c \in CallUnions PROVE FALSE
      OBVIOUS
    <3>1. c[1] \in Made
      BY <1>1, Heads DEF Made
    <3> QED BY <1>1, <2>2, <3>1, Heads
  <2>4. Held(c) = Range(Members(c))
    BY <2>3, Zenon DEF Held
  <2>5. Members(c) \in Seq(Fine)
    BY <1>1, <2>1, <2>2, MembersFine
  <2>6. Held(c) \subseteq Fine
    BY <2>4, <2>5, RangeOfSeq
  <2>7. Len(c) # 1
    <3>1. Len(c) \in Nat
      BY <2>2, LenProperties
    <3> QED BY <2>2, <3>1, NotOne, Zenon
  <2> QED BY <1>3, <2>1, <2>6, <2>7 DEF Holders
<1>4. CASE c \in {<<s>> : s \in Declared}
  <2>1. PICK s \in Declared : c = <<s>>
    BY <1>4
  <2>2. /\ s \in DOMAIN iface.decl /\ Kind(s) \in Compounds \ Generics /\ s \notin iface.imported
        /\ <<s>> \in Own
    BY DEF Declared, Own
  <2>3. s \notin Intrinsics
    BY <1>1, <2>2, InterfaceIs
  <2>4. Held(c) = Range(Members(<<s>>))
    BY <1>1, <2>1, <2>2, OwnHeld
  <2>5. Members(<<s>>) \in Seq(Fine) /\ Head(<<s>>) = s
    BY <1>1, <2>2, DeclaredTypes
  <2>6. Held(c) \subseteq Fine
    BY <2>4, <2>5, RangeOfSeq
  <2>7. c[1] = s
    BY <2>1
  <2>8. c \notin OfGeneric
    <3>1. Head(c) = s /\ Kind(s) \notin Generics
      BY <2>1, <2>2, <2>5
    <3> QED BY <3>1 DEF OfGeneric
  <2>9. c \in Holders
    BY <2>1, <2>2 DEF Holders
  <2> QED BY <1>2, <2>2, <2>3, <2>6, <2>7, <2>8, <2>9
<1>5. CASE c \in CallUnions
  <2>1. PICK s \in Range(iface.services) : c \in Range(Unions(s))
    BY <1>5 DEF CallUnions
  <2>2. c = <<"call_union", s>> \/ c = <<"return_union", s>>
    BY <2>1 DEF Unions, Range
  <2>3. c[2] = s /\ Len(c) = 2
    BY <2>2
  <2>4. s \in Serving
    BY <1>1, ListsAre
  <2> DEFINE all == all_procedures(c[2])
  <2>5. all \in Seq(Procedures)
    BY <2>3, <2>4, <1>1, AllProcedures
  <2>6. Held(c) = {IF c[1] = "call_union" THEN <<all[n].params_struct>>
                   ELSE <<all[n].results_struct>> : n \in DOMAIN all}
    BY <1>5, Zenon DEF Held
  <2> HIDE DEF all
  <2>7. \A n \in DOMAIN all : all[n].params_struct \in OfProcs /\ all[n].results_struct \in OfProcs
    <3>1. \A p \in Procedures : p.params_struct \in OfProcs /\ p.results_struct \in OfProcs
      BY DEF Procedures
    <3> QED BY <2>5, <3>1, ElementOfSeq, LenProperties
  <2>8. \A p \in OfProcs : <<p>> \in Fine
    BY <1>1, ServicesAre, DeclaredTypes
  <2>9. Held(c) \subseteq Fine
    BY <2>6, <2>7, <2>8
  <2>10. c \notin OfGeneric
    <3> SUFFICES ASSUME c \in OfGeneric PROVE FALSE
      OBVIOUS
    <3>1. c[1] \in DOMAIN iface.decl
      BY <1>1, Heads
    <3>2. c[1] \in Made
      BY <2>2 DEF Made
    <3> QED BY <1>1, <3>1, <3>2, Heads
  <2>11. Len(c) # 1
    BY <2>3
  <2> QED BY <1>2, <1>5, <2>9, <2>10, <2>11 DEF Holders
<1> QED BY <1>3, <1>4, <1>5 DEF Classes

\* A type whose keys a section depends on is imported or defined in an earlier pass.
LEMMA DefinedEarlier ==
    ASSUME InOrder, stage = "done", NEW n \in DOMAIN m_sections, NEW nm \in Fine,
           def_keys_from_name(nm) \subseteq m_sections[n].depends_on,
           Head(nm) \notin {"ptr", "vector"}
    PROVE  \/ Len(nm) = 1 /\ Imported(nm)
           \/ \E m \in With(<<"definition", nm>>) : PassOf(m) < PassOf(n)
<1> DEFINE key == <<"definition", nm>>
<1>1. iface \in Interfaces /\ PassesReady
  BY DEF InOrder, LookedUp
<1>2. nm \in Proper /\ Head(nm) = nm[1]
  BY <1>1, FineIs, ProperIs
<1>3. key \in m_sections[n].depends_on
  BY <1>1, <1>2, OwnKey
<1>4. CASE key \in GivenKeys
  <2>1. Len(key[2]) = 1 /\ key[2][1] \in Intrinsics \union iface.imported
    BY <1>4 DEF GivenKeys
  <2>2. key[2] = nm
    OBVIOUS
  <2> QED BY <1>2, <2>1, <2>2 DEF Imported
<1>5. CASE key \notin GivenKeys
  <2> HIDE DEF key
  <2>1. \E m \in With(key) : PassOf(m) < PassOf(n)
    BY <1>1, <1>3, <1>5, Earlier
  <2> QED BY <2>1 DEF key
<1> QED BY <1>4, <1>5

\* CompleteBeforeHeld, of a finished back end.
LEMMA HeldIsComplete == InOrder => CompleteBeforeHeld
<1> SUFFICES ASSUME InOrder, stage = "done", NEW class \in Classes,
                    NEW n \in With(<<"definition", class>>), NEW nm \in Held(class),
                    Head(get_wire_type_name(nm)) # "ptr"
             PROVE  Precedes(<<"definition", nm>>, n)
  BY DEF CompleteBeforeHeld
<1>1. LookedUp /\ SectionsSound /\ iface \in Interfaces
  BY DEF InOrder, LookedUp
<1>2. n \in DOMAIN m_sections /\ <<"definition", class>> \in m_sections[n].keys
  BY DEF With
<1>3. class \in Holders /\ nm \in Fine
  BY <1>1, ClassesAre
<1>4. Sound(m_sections[n], Range(instantiations))
  BY <1>1, <1>2, EachSection
<1>5. def_keys_from_name(nm) \subseteq m_sections[n].depends_on
  BY <1>2, <1>3, <1>4, Zenon DEF Sound
<1>6. Head(nm) \notin {"ptr", "vector"}
  BY <1>1, <1>3, WireName
<1>7. \/ Len(nm) = 1 /\ Imported(nm)
      \/ \E m \in With(<<"definition", nm>>) : PassOf(m) < PassOf(n)
  BY <1>2, <1>3, <1>5, <1>6, DefinedEarlier
<1>8. <<"definition", nm>>[2] = nm
  OBVIOUS
<1> QED BY <1>7, <1>8, Zenon DEF Precedes, SurelyBefore

\* What a name is dereferenced to is fine, and its keys are among the name's.
LEMMA DereferencedFine ==
    ASSUME iface \in Interfaces, NEW x \in Fine
    PROVE  /\ Dereferenced(x) \in Fine
           /\ def_keys_from_name(Dereferenced(x)) \subseteq def_keys_from_name(x)
<1>1. /\ x \in Proper /\ x \in Seq(Symbols) /\ x # <<>> /\ Len(x) \in Nat \ {0} /\ Head(x) = x[1]
      /\ \A k \in 1 .. Len(x) : x[k] \in Takers <=> k < Len(x)
  BY FineIs, ProperIs
<1>2. CASE Head(x) = "ptr"
  <2>1. x[1] \in Takers /\ 1 \in 1 .. Len(x)
    BY <1>1, <1>2 DEF Takers
  <2>2. 1 < Len(x)
    BY <1>1, <2>1
  <2>3. 2 \in 1 .. Len(x)
    BY <1>1, <2>2
  <2>4. Tail(x) = SubSeq(x, 2, Len(x))
    BY <1>1
  <2>5. Dereferenced(x) = SubSeq(x, 2, Len(x))
    BY <1>2, <2>4 DEF Dereferenced
  <2> QED BY <1>1, <2>3, <2>5, FineSuffix, KeysOfSuffix
<1>3. CASE Head(x) # "ptr"
  BY <1>3 DEF Dereferenced
<1> QED BY <1>2, <1>3

\* A type that is compared is declared or an instance.
LEMMA ComparableIs ==
    ASSUME iface \in Interfaces, NEW nm \in Fine, Comparable(nm)
    PROVE  /\ nm \in Own \union OfGeneric
           /\ Head(nm) \notin {"ptr", "vector"}
           /\ Len(nm) = 1 => nm \notin OfGeneric
<1>1. /\ nm \in Proper /\ nm \in Seq(Symbols) /\ Len(nm) \in Nat \ {0} /\ Head(nm) = nm[1]
      /\ \A k \in 1 .. Len(nm) : nm[k] \in Takers <=> k < Len(nm)
      /\ Kind(nm[Len(nm)]) \notin Generics
  BY FineIs, ProperIs
<1>2. Kind(Head(nm)) \in Compounds
  BY DEF Comparable
<1>3. Head(nm) \notin Intrinsics
  BY <1>2, IntrinsicKind
<1>4. Head(nm) \notin {"ptr", "vector"}
  BY <1>3 DEF Intrinsics
<1>5. Head(nm) \in DOMAIN iface.decl
  BY <1>2, CompoundDeclared DEF IsCompound
<1>6. CASE Kind(Head(nm)) \in Generics
  <2>1. nm \in OfGeneric
    BY <1>6 DEF OfGeneric
  <2>2. Len(nm) # 1
    BY <1>1, <1>6
  <2> QED BY <1>4, <2>1, <2>2
<1>7. CASE Kind(Head(nm)) \notin Generics
  <2>1. nm[1] \notin Takers
    <3>1. iface.decl[Head(nm)].kind \notin Generics
      BY <1>5, <1>7, InterfaceIs
    <3>2. Head(nm) \notin OfKinds(iface.decl, Generics)
      BY <3>1 DEF OfKinds
    <3>3. Head(nm) \notin Takers
      BY <1>4, <3>2 DEF Takers
    <3> QED BY <1>1, <3>3, Zenon
  <2>2. Len(nm) = 1
    <3>1. \A n \in Nat \ {0} : 1 \in 1 .. n /\ (n = 1 \/ 1 < n)
      OBVIOUS
    <3>2. Len(nm) \in Nat \ {0} /\ \A k \in 1 .. Len(nm) : nm[k] \in Takers <=> k < Len(nm)
      BY <1>1
    <3>3. 1 \in 1 .. Len(nm) /\ (Len(nm) = 1 \/ 1 < Len(nm))
      BY <3>1, <3>2, Zenon
    <3> QED BY <2>1, <3>2, <3>3, Zenon
  <2>3. nm = <<Head(nm)>>
    <3>1. nm \in Seq(Symbols) /\ Head(nm) = nm[1]
      BY <1>1
    <3> QED BY <2>2, <3>1
  <2>4. nm \in Own
    BY <1>2, <1>5, <1>7, <2>3 DEF Own
  <2>5. nm \notin OfGeneric
    BY <1>7 DEF OfGeneric
  <2> QED BY <1>4, <2>4, <2>5
<1> QED BY <1>6, <1>7

\* The operator== of a type comes no later than a section that waits for the type.
LEMMA ComparedEarlier ==
    ASSUME InOrder, stage = "done", NEW d \in DOMAIN m_sections, NEW nm \in Fine, Comparable(nm),
           def_keys_from_name(nm) \subseteq m_sections[d].depends_on
    PROVE  \/ Imported(EqKey(nm)[2])
           \/ \E m \in With(EqKey(nm)) : PassOf(m) <= PassOf(d)
<1>1. LookedUp /\ SectionsSound /\ PassesReady /\ iface \in Interfaces
  BY DEF InOrder, LookedUp
<1>2. /\ nm \in Own \union OfGeneric /\ Head(nm) \notin {"ptr", "vector"}
      /\ Len(nm) = 1 => nm \notin OfGeneric
  BY <1>1, ComparableIs
<1>3. Instances \subseteq OfGeneric
  BY <1>1 DEF Instances, OfGeneric, LookedUp, Calls, Closed
<1>4. CASE Len(nm) = 1 /\ Imported(nm)
  <2>1. nm \notin Instances
    BY <1>2, <1>3, <1>4
  <2>2. EqKey(nm) = <<"eq_operator", nm>>
    BY <2>1 DEF EqKey
  <2>3. EqKey(nm)[2] = nm
    BY <2>2
  <2> QED BY <1>4, <2>3
<1>5. CASE \E m \in With(<<"definition", nm>>) : PassOf(m) < PassOf(d)
  <2>1. PICK r \in With(<<"definition", nm>>) : PassOf(r) < PassOf(d)
    BY <1>5
  <2>2. r \in DOMAIN m_sections /\ <<"definition", nm>> \in m_sections[r].keys
    BY DEF With
  <2>3. Sound(m_sections[r], Range(instantiations)) /\ m_sections[r] \in Range(m_sections)
    BY <1>1, <2>2, EachSection
  <2>4. nm \in OfGeneric <=> nm \in Instances
    <3>1. nm \in OfGeneric => nm \in Range(instantiations)
      BY <2>2, <2>3, Zenon DEF Sound
    <3> QED BY <1>3, <3>1 DEF OfGeneric, Instances
  <2>5. EqKey(nm) = <<"eq_operator", Sym(nm)>>
    BY <2>4 DEF EqKey, Sym
  <2>6. PICK e \in Range(m_sections) : Compares(e, m_sections[r], nm)
    <3>1. Paired(Range(m_sections))
      BY <1>1 DEF SectionsSound, Sections
    <3> QED BY <1>2, <2>2, <2>3, <3>1, Zenon DEF Paired
  <2>7. PICK k \in DOMAIN m_sections : e = m_sections[k]
    BY <1>1, EachSection
  <2>8. k \in With(EqKey(nm))
    BY <2>5, <2>6, <2>7 DEF Compares, With
  <2>9. /\ PassOf(d) \in 1 .. Len(passes) /\ PassOf(r) \in 1 .. Len(passes)
        /\ \A m \in DOMAIN m_sections : PassOf(m) \in 1 .. Len(passes)
    BY <1>1, <2>2, InAPass
  <2>10. ASSUME NEW key \in m_sections[k].depends_on
         PROVE  key \in GivenKeys \/ \E m \in With(key) : PassOf(m) < PassOf(d)
    <3>1. key \in m_sections[r].keys \/ key \in m_sections[r].depends_on
      BY <2>6, <2>7, <2>10 DEF Compares
    <3>2. CASE key \in m_sections[r].keys
      BY <2>1, <2>2, <3>2 DEF With
    <3>3. CASE key \in m_sections[r].depends_on
      <4>1. key \in GivenKeys \/ \E m \in With(key) : PassOf(m) < PassOf(r)
        BY <1>1, <2>2, <3>3, Earlier
      <4>2. ASSUME NEW m \in With(key), PassOf(m) < PassOf(r) PROVE PassOf(m) < PassOf(d)
        <5>1. m \in DOMAIN m_sections
          BY DEF With
        <5>2. PassOf(m) \in Nat /\ PassOf(r) \in Nat /\ PassOf(d) \in Nat
          BY <2>9, <5>1
        <5> QED BY <2>1, <4>2, <5>2
      <4> QED BY <4>1, <4>2
    <3> QED BY <3>1, <3>2, <3>3
  <2>11. PassOf(k) <= PassOf(d)
    BY <1>1, <2>9, <2>10, Prompt
  <2> QED BY <2>8, <2>11
<1> QED BY <1>2, <1>4, <1>5, DefinedEarlier

\* ComparedBeforeComparing, of a finished back end.
LEMMA OthersAreCompared == InOrder => ComparedBeforeComparing
<1> SUFFICES ASSUME InOrder, stage = "done", NEW class \in Classes, NEW n \in With(EqKey(class)),
                    NEW x \in Held(class), Comparable(Dereferenced(x))
             PROVE  Precedes(EqKey(Dereferenced(x)), n)
  BY DEF ComparedBeforeComparing
<1> DEFINE nm == Dereferenced(x)
<1>1. LookedUp /\ SectionsSound /\ PassesReady /\ iface \in Interfaces
  BY DEF InOrder, LookedUp
<1>2. n \in DOMAIN m_sections /\ EqKey(class) \in m_sections[n].keys
  BY DEF With
<1>3. /\ class \in Holders /\ (class \in Instances <=> class \in OfGeneric)
      /\ x \in Fine
      /\ Len(class) # 1 \/ class[1] \notin Intrinsics \union iface.imported
  BY <1>1, ClassesAre
<1>4. EqKey(class) = <<"eq_operator", Sym(class)>>
  BY <1>3 DEF EqKey, Sym
<1> DEFINE key == <<"definition", Sym(class)>>
<1>5. key \in m_sections[n].depends_on
  <2>1. Sound(m_sections[n], Range(instantiations))
    BY <1>1, <1>2, EachSection
  <2> QED BY <1>2, <1>4, <2>1, Zenon DEF Sound
<1>6. key \notin GivenKeys
  <2>1. key[2] = Sym(class)
    OBVIOUS
  <2>2. CASE class \notin OfGeneric
    <3>1. Sym(class) = class
      BY <2>2 DEF Sym
    <3> QED BY <1>3, <2>1, <3>1 DEF GivenKeys
  <2>3. CASE class \in OfGeneric
    <3>1. Sym(class) = <<"throwaway">> \o class
      BY <2>3 DEF Sym
    <3>2. class \in Seq(Symbols) /\ Len(class) > 1
      BY <1>1, <2>3, Heads
    <3>3. Len(<<"throwaway">> \o class) # 1
      <4> DEFINE T == Symbols \union {"throwaway"}
      <4>1. <<"throwaway">> \in Seq(T) /\ class \in Seq(T) /\ Len(<<"throwaway">>) = 1
            /\ Len(class) \in Nat
        BY <3>2
      <4> HIDE DEF T
      <4>2. Len(<<"throwaway">> \o class) = 1 + Len(class)
        BY <4>1, ConcatProperties
      <4> QED BY <3>2, <4>1, <4>2
    <3> QED BY <2>1, <3>1, <3>3 DEF GivenKeys
  <2> QED BY <2>2, <2>3
<1> HIDE DEF key
<1>7. PICK d \in With(key) : PassOf(d) < PassOf(n)
  BY <1>1, <1>2, <1>5, <1>6, Earlier
<1>8. d \in DOMAIN m_sections /\ key \in m_sections[d].keys
  BY DEF With
<1>9. Sound(m_sections[d], Range(instantiations))
  BY <1>1, <1>8, EachSection
<1>10. <<"definition", class>> \in m_sections[d].keys
  <2>1. CASE class \notin OfGeneric
    BY <1>8, <2>1 DEF Sym, key
  <2>2. CASE class \in OfGeneric
    <3>1. <<"definition", <<"throwaway">> \o class>> \in m_sections[d].keys
      BY <1>8, <2>2 DEF Sym, key
    <3> QED BY <1>9, <2>2, <3>1, Zenon DEF Sound
  <2> QED BY <2>1, <2>2
<1>11. def_keys_from_name(x) \subseteq m_sections[d].depends_on
  BY <1>3, <1>9, <1>10, Zenon DEF Sound
<1>12. nm \in Fine /\ def_keys_from_name(nm) \subseteq m_sections[d].depends_on
  BY <1>1, <1>3, <1>11, DereferencedFine
<1> HIDE DEF nm
<1>13. \/ Imported(EqKey(nm)[2])
       \/ \E m \in With(EqKey(nm)) : PassOf(m) <= PassOf(d)
  BY <1>8, <1>12, ComparedEarlier DEF nm
<1>14. ASSUME NEW m \in With(EqKey(nm)), PassOf(m) <= PassOf(d) PROVE PassOf(m) < PassOf(n)
  <2>1. m \in DOMAIN m_sections
    BY DEF With
  <2>2. PassOf(m) \in Nat /\ PassOf(d) \in Nat /\ PassOf(n) \in Nat
    BY <1>1, <1>2, <1>8, <2>1, InAPass
  <2> QED BY <1>7, <1>14, <2>2
<1>15. Precedes(EqKey(nm), n)
  BY <1>13, <1>14, Zenon DEF Precedes, SurelyBefore
<1> QED BY <1>15 DEF nm

\* What the members of a procedure's structure are declared with is there before a section
\* that waits for the structure.
LEMMA ParametersEarlier ==
    ASSUME InOrder, stage = "done", NEW d \in DOMAIN m_sections, NEW q \in OfProcs,
           q \notin iface.imported, def_keys_from_name(<<q>>) \subseteq m_sections[d].depends_on,
           NEW t \in Range(iface.decl[q].members), NEW key \in def_keys_from_name(t)
    PROVE  \/ key \in OwnKeys \union GivenKeys
           \/ \E m \in With(key) : PassOf(m) < PassOf(d)
<1>1. /\ LookedUp /\ SectionsSound /\ PassesReady /\ iface \in Interfaces
      /\ Names \subseteq ends[MaxDepth]
  BY DEF InOrder, LookedUp
<1>2. q \in DOMAIN iface.decl /\ Kind(q) = "params_struct" /\ <<q>> \in Own
  BY <1>1, ListsAre
<1>3. /\ <<q>> \in Fine /\ Head(<<q>>) = q /\ iface.decl[q].members \in Seq(Fine)
  <2>1. Kind(q) \notin Generics
    BY <1>2 DEF Generics
  <2> QED BY <1>1, <1>2, <2>1, DeclaredTypes
<1>4. q \notin Intrinsics
  BY <1>1, <1>2, InterfaceIs
<1>5. PICK r \in With(<<"definition", <<q>>>>) : PassOf(r) < PassOf(d)
  <2>1. Head(<<q>>) \notin {"ptr", "vector"} /\ ~Imported(<<q>>)
    BY <1>3, <1>4 DEF Intrinsics, Imported
  <2> QED BY <1>3, <2>1, DefinedEarlier
<1>6. r \in DOMAIN m_sections /\ <<"definition", <<q>>>> \in m_sections[r].keys
  BY DEF With
<1>7. Sound(m_sections[r], Range(instantiations))
  BY <1>1, <1>6, EachSection
<1>8. get_wire_type_name(t) \in Held(<<q>>)
  <2> DEFINE list == iface.decl[q].members
  <2>1. Held(<<q>>) = Range(Members(<<q>>))
    BY <1>1, <1>2, OwnHeld
  <2>2. Members(<<q>>) = [n \in DOMAIN Types(<<q>>) |-> get_wire_type_name(Types(<<q>>)[n])]
    BY <1>2, <1>3 DEF Members
  <2>3. Types(<<q>>) = [n \in DOMAIN list |-> list[n]]
    <3>1. iface.decl[q].kind \notin Generics
      BY <1>1, <1>2, InterfaceIs DEF Generics
    <3> QED BY <1>3, <3>1, Zenon DEF Types
  <2>4. PICK n \in DOMAIN list : t = list[n]
    BY DEF Range
  <2> HIDE DEF list
  <2>5. n \in DOMAIN Types(<<q>>) /\ Types(<<q>>)[n] = t
    BY <2>3, <2>4
  <2>6. n \in DOMAIN Members(<<q>>) /\ Members(<<q>>)[n] = get_wire_type_name(t)
    BY <2>2, <2>5
  <2> QED BY <2>1, <2>6 DEF Range
<1>9. def_keys_from_name(get_wire_type_name(t)) \subseteq m_sections[r].depends_on
  BY <1>2, <1>6, <1>7, <1>8, Zenon DEF Sound, Holders
<1>10. t \in Fine
  BY <1>3, RangeOfSeq
<1>11. CASE key \in m_sections[r].depends_on
  <2>1. key \in GivenKeys \/ \E m \in With(key) : PassOf(m) < PassOf(r)
    BY <1>1, <1>6, <1>11, Earlier
  <2>2. ASSUME NEW m \in With(key), PassOf(m) < PassOf(r) PROVE PassOf(m) < PassOf(d)
    <3>1. m \in DOMAIN m_sections
      BY DEF With
    <3>2. PassOf(m) \in Nat /\ PassOf(r) \in Nat /\ PassOf(d) \in Nat
      BY <1>1, <1>6, <3>1, InAPass
    <3> QED BY <1>5, <2>2, <3>2
  <2> QED BY <2>1, <2>2
<1> QED BY <1>1, <1>9, <1>10, <1>11, KeysOfWire

\* A service's servers are written before a section that waits for both unions of its calls.
LEMMA ServersEarlier ==
    ASSUME InOrder, stage = "done", NEW s \in Range(iface.services), NEW n \in DOMAIN m_sections,
           \A u \in Range(Unions(s)) : <<"definition", u>> \in m_sections[n].depends_on,
           NEW k \in DOMAIN m_sections,
           m_sections[k].depends_on = member_keys(OwnTypes(s)) \union {<<"definition", <<s>>>>}
    PROVE  PassOf(k) < PassOf(n)
<1>1. /\ LookedUp /\ SectionsSound /\ PassesReady /\ iface \in Interfaces
      /\ Names \subseteq ends[MaxDepth]
  BY DEF InOrder, LookedUp
<1>2. /\ s \in DOMAIN iface.decl /\ Kind(s) = "service" /\ s \in Serving /\ s \notin iface.imported
      /\ s \notin Intrinsics
  BY <1>1, ListsAre, InterfaceIs
<1>3. \A m \in DOMAIN m_sections : PassOf(m) \in Nat /\ PassOf(m) \in 1 .. Len(passes)
  BY <1>1, InAPass
<1> DEFINE cu == <<"call_union", s>>
           ru == <<"return_union", s>>
           procs == iface.decl[s].procedures
           all == all_procedures(s)
           Before(key) == key \in GivenKeys \/ \E m \in With(key) : PassOf(m) < PassOf(n) - 1
\* The sections of the two unions.
<1>4. ASSUME NEW u \in {cu, ru}
      PROVE  /\ u \in CallUnions /\ u[2] = s
             /\ \E d \in DOMAIN m_sections : /\ PassOf(d) <= PassOf(n) - 1
                                             /\ <<"definition", u>> \in m_sections[d].keys
  <2>1. u \in Range(Unions(s)) /\ u[2] = s /\ Len(u) = 2
    BY DEF Unions, Range
  <2>2. u \in CallUnions
    BY <2>1 DEF CallUnions
  <2>3. <<"definition", u>> \notin GivenKeys
    <3>1. <<"definition", u>>[2] = u
      OBVIOUS
    <3> QED BY <2>1, <3>1 DEF GivenKeys
  <2>4. PICK d \in With(<<"definition", u>>) : PassOf(d) < PassOf(n)
    BY <1>1, <2>1, <2>3, Earlier
  <2>5. d \in DOMAIN m_sections /\ <<"definition", u>> \in m_sections[d].keys
    BY DEF With
  <2>6. PassOf(d) <= PassOf(n) - 1
    BY <1>3, <2>4, <2>5
  <2> QED BY <2>1, <2>2, <2>5, <2>6
<1>5. /\ all \in Seq(Procedures) /\ procs \in Seq(Procedures)
      /\ Range(procs) \subseteq Range(all)
  BY <1>1, <1>2, AllProcedures, ServicesAre
\* What such a section depends on.
<1>6. ASSUME NEW u \in {cu, ru}, NEW d \in DOMAIN m_sections,
             <<"definition", u>> \in m_sections[d].keys
      PROVE  /\ <<"wire_types", <<s>>>> \in m_sections[d].depends_on
             /\ \A nm \in Held(u) : def_keys_from_name(nm) \subseteq m_sections[d].depends_on
  <2>1. Sound(m_sections[d], Range(instantiations))
    BY <1>1, EachSection
  <2>2. u \in CallUnions /\ u[2] = s
    BY <1>4
  <2>3. u \in Holders
    BY <2>2 DEF Holders
  <2> QED BY <1>6, <2>1, <2>2, <2>3, Zenon DEF Sound
<1>7. ASSUME NEW key, NEW m \in With(key), NEW d \in DOMAIN m_sections, PassOf(m) < PassOf(d),
             PassOf(d) <= PassOf(n) - 1
      PROVE  PassOf(m) < PassOf(n) - 1
  <2>1. m \in DOMAIN m_sections
    BY DEF With
  <2> QED BY <1>3, <1>7, <2>1
\* The class that the service is, and
<1>8. Before(<<"definition", <<s>>>>)
  <2>1. PICK d \in DOMAIN m_sections : /\ PassOf(d) <= PassOf(n) - 1
                                       /\ <<"definition", cu>> \in m_sections[d].keys
    BY <1>4
  <2> DEFINE wire == <<"wire_types", <<s>>>>
  <2>2. wire \in m_sections[d].depends_on
    BY <1>6, <2>1
  <2>3. wire \notin GivenKeys
    <3>1. wire[2] = <<s>> /\ <<s>>[1] = s
      OBVIOUS
    <3> QED BY <1>2, <3>1 DEF GivenKeys
  <2>4. PICK w \in With(wire) : PassOf(w) < PassOf(d)
    BY <1>1, <2>2, <2>3, Earlier
  <2>5. w \in DOMAIN m_sections /\ wire \in m_sections[w].keys
    BY DEF With
  <2>6. <<"definition", <<s>>>> \in m_sections[w].depends_on
    <3>1. Sound(m_sections[w], Range(instantiations))
      BY <1>1, <2>5, EachSection
    <3> QED BY <2>5, <3>1, Zenon DEF Sound
  <2>7. PassOf(w) <= PassOf(n) - 1
    BY <1>3, <2>1, <2>4, <2>5
  <2>8. \/ <<"definition", <<s>>>> \in GivenKeys
        \/ \E m \in With(<<"definition", <<s>>>>) : PassOf(m) < PassOf(w)
    BY <1>1, <2>5, <2>6, Earlier
  <2> QED BY <1>7, <2>5, <2>7, <2>8
\* the types of its procedures are there before that.
<1>9. ASSUME NEW p \in Range(procs), NEW q \in {p.params_struct, p.results_struct},
             NEW t \in Range(iface.decl[q].members), NEW key \in def_keys_from_name(t)
      PROVE  key \in OwnKeys \/ Before(key)
  <2>1. p \in Procedures /\ p \in Range(all)
    BY <1>5, RangeOfSeq
  <2>2. q \in OfProcs
    BY <2>1 DEF Procedures
  <2>3. q \notin iface.imported
    <3>1. WellFormed(iface)
      BY <1>1, BackendAssumption
    <3>2. \A x \in Range(iface.services) : \A y \in Range(iface.decl[x].procedures) :
             {y.params_struct, y.results_struct} \intersect iface.imported = {}
      BY <3>1, Zenon DEF WellFormed
    <3>3. {p.params_struct, p.results_struct} \intersect iface.imported = {}
      BY <3>2
    <3> QED BY <3>3
  <2>4. PICK u \in {cu, ru} : <<q>> \in Held(u)
    <3>1. PICK at \in DOMAIN all : p = all[at]
      BY <2>1 DEF Range
    <3>2. \A u \in {cu, ru} :
             Held(u) = {IF u[1] = "call_union" THEN <<all[m].params_struct>>
                        ELSE <<all[m].results_struct>> : m \in DOMAIN all}
      <4>1. ASSUME NEW u \in {cu, ru}
            PROVE  Held(u) = {IF u[1] = "call_union" THEN <<all_procedures(u[2])[m].params_struct>>
                              ELSE <<all_procedures(u[2])[m].results_struct>> :
                                 m \in DOMAIN all_procedures(u[2])}
        <5>1. u \in CallUnions
          BY <1>4
        <5> QED BY <5>1, Zenon DEF Held
      <4> QED BY <1>4, <4>1
    <3> HIDE DEF all
    <3>3. cu[1] = "call_union" /\ ru[1] # "call_union"
      OBVIOUS
    <3> HIDE DEF cu, ru
    <3>4. /\ Held(cu) = {<<all[m].params_struct>> : m \in DOMAIN all}
          /\ Held(ru) = {<<all[m].results_struct>> : m \in DOMAIN all}
      BY <3>2, <3>3
    <3>5. <<p.params_struct>> \in Held(cu) /\ <<p.results_struct>> \in Held(ru)
      BY <3>1, <3>4
    <3> QED BY <3>5
  <2>5. PICK d \in DOMAIN m_sections : /\ PassOf(d) <= PassOf(n) - 1
                                       /\ <<"definition", u>> \in m_sections[d].keys
    BY <1>4
  <2>6. def_keys_from_name(<<q>>) \subseteq m_sections[d].depends_on
    BY <1>6, <2>4, <2>5
  <2>7. \/ key \in OwnKeys \union GivenKeys
        \/ \E m \in With(key) : PassOf(m) < PassOf(d)
    BY <2>2, <2>3, <2>6, ParametersEarlier
  <2> QED BY <1>7, <2>5, <2>7
<1>10. ASSUME NEW key \in m_sections[k].depends_on PROVE Before(key)
  <2>1. key \in member_keys(OwnTypes(s)) \/ key = <<"definition", <<s>>>>
    OBVIOUS
  <2>2. CASE key \in member_keys(OwnTypes(s))
    <3>1. PICK t \in Range(OwnTypes(s)) : key \in def_keys_from_name(t)
      BY <2>2 DEF member_keys, Range
    <3>2. PICK p \in Range(procs) : \/ t \in Range(iface.decl[p.params_struct].members)
                                    \/ t \in Range(iface.decl[p.results_struct].members)
      <4> DEFINE P(at) == iface.decl[procs[at].params_struct].members
                 R(at) == iface.decl[procs[at].results_struct].members
                 sq == [at \in DOMAIN procs |-> P(at) \o R(at)]
      <4>1. OwnTypes(s) = FlattenSeq(sq)
        BY Zenon DEF OwnTypes
      <4>2. /\ Len(procs) \in Nat /\ DOMAIN procs = 1 .. Len(procs)
            /\ \A at \in DOMAIN procs : procs[at] \in Procedures /\ procs[at] \in Range(procs)
        BY <1>5, LenProperties DEF Range
      <4>3. \A at \in DOMAIN procs : P(at) \in Seq(Fine) /\ R(at) \in Seq(Fine)
        <5>1. \A x \in Procedures : x.params_struct \in OfProcs /\ x.results_struct \in OfProcs
          BY DEF Procedures
        <5>2. \A x \in OfProcs : iface.decl[x].members \in Seq(Fine)
          BY <1>1, ServicesAre, DeclaredTypes
        <5> QED BY <4>2, <5>1, <5>2
      <4> HIDE DEF procs
      <4>4. \A at \in DOMAIN procs : sq[at] = P(at) \o R(at)
        OBVIOUS
      <4> HIDE DEF P, R
      <4>5. \A at \in DOMAIN procs : /\ P(at) \o R(at) \in Seq(Fine)
                                     /\ Range(P(at) \o R(at)) = Range(P(at)) \union Range(R(at))
        BY <4>3, ConcatProperties, RangeConcatenation
      <4>6. sq \in [1 .. Len(procs) -> Seq(Fine)]
        BY <4>2, <4>5
      <4> HIDE DEF sq
      <4>7. Range(FlattenSeq(sq)) = UNION {Range(sq[at]) : at \in 1 .. Len(procs)}
        BY <4>2, <4>6, FlattenMap
      <4>8. PICK at \in 1 .. Len(procs) : t \in Range(sq[at])
        BY <3>1, <4>1, <4>7
      <4>9. t \in Range(P(at)) \/ t \in Range(R(at))
        BY <4>2, <4>4, <4>5, <4>8
      <4> QED BY <4>2, <4>9 DEF P, R
    <3>3. key \in OwnKeys \/ Before(key)
      BY <1>9, <3>1, <3>2
    <3>4. key \in OwnKeys => key \in GivenKeys
      <4> SUFFICES ASSUME key \in OwnKeys PROVE key \in GivenKeys
        OBVIOUS
      <4>1. PICK type \in {"definition", "generic_declaration"}, x \in Intrinsics : key = <<type, <<x>>>>
        BY DEF OwnKeys
      <4>2. key[2] = <<x>> /\ Len(key[2]) = 1 /\ key[2][1] = x
        BY <4>1
      <4> QED BY <1>10, <4>2 DEF GivenKeys
    <3> QED BY <3>3, <3>4
  <2> QED BY <1>8, <2>1, <2>2
<1>11. PassOf(n) - 1 \in 1 .. Len(passes)
  <2>1. PICK d \in DOMAIN m_sections : PassOf(d) <= PassOf(n) - 1
    BY <1>4
  <2>2. PassOf(n) \in 1 .. Len(passes) /\ PassOf(d) \in 1 .. Len(passes)
    BY <1>3
  <2> QED BY <2>1, <2>2
<1>12. PassOf(k) <= PassOf(n) - 1
  BY <1>1, <1>10, <1>11, Prompt
<1> QED BY <1>3, <1>12

\* DescribedAfterServers, of a finished back end.
LEMMA ServersAreComplete == InOrder => DescribedAfterServers
<1> SUFFICES ASSUME InOrder, stage = "done", NEW s \in Range(iface.services),
                    NEW n \in With(<<"service_descriptor", <<s>>>>),
                    NEW type \in {"sync_server", "async_server"}
             PROVE  Precedes(<<type, <<s>>>>, n)
  BY DEF DescribedAfterServers
<1>1. SectionsSound
  BY DEF InOrder
<1>2. n \in DOMAIN m_sections /\ <<"service_descriptor", <<s>>>> \in m_sections[n].keys
  BY DEF With
<1>3. Sound(m_sections[n], Range(instantiations))
  BY <1>1, <1>2, EachSection
<1>4. \A u \in Range(Unions(s)) : <<"definition", u>> \in m_sections[n].depends_on
  BY <1>2, <1>3, Zenon DEF Sound
<1>5. ServersOf(s, Range(m_sections))
  BY <1>1 DEF SectionsSound
<1>6. PICK r \in Range(m_sections) :
         /\ <<type, <<s>>>> \in r.keys
         /\ r.depends_on = member_keys(OwnTypes(s)) \union {<<"definition", <<s>>>>}
  BY <1>5, Zenon DEF ServersOf
<1>7. PICK k \in DOMAIN m_sections : r = m_sections[k]
  BY <1>1, EachSection
<1>8. PassOf(k) < PassOf(n)
  BY <1>2, <1>4, <1>6, <1>7, ServersEarlier
<1>9. k \in With(<<type, <<s>>>>)
  BY <1>6, <1>7 DEF With
<1> QED BY <1>8, <1>9, Zenon DEF Precedes, SurelyBefore

\* CompleteWhenUsed: what the text of a section needs comes before it, whether or not the
\* section's keys say so: the definitions of the types it holds by value, the operator== of
\* those it compares and the servers whose members a descriptor points to.
THEOREM SectionsAreComplete == BackendSpec => []CompleteWhenUsed
<1>1. BackendInit => InOrder
  BY LookedUpInit, SectionsSoundInit, PassesReadyInit DEF InOrder
<1>2. InOrder /\ [BackendNext]_backend_vars => InOrder'
  BY LookedUpNext, SectionsSoundNext, PassesReadyNext DEF InOrder
<1>3. InOrder => CompleteWhenUsed
  BY HeldIsComplete, OthersAreCompared, ServersAreComplete DEF CompleteWhenUsed
<1> QED BY <1>1, <1>2, <1>3, PTL DEF BackendSpec
==============================================================================
