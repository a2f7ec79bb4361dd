------------------------------ MODULE Lidlc_proofs ------------------------------
(***************************************************************************)
(* What Lidlc keeps, for any elements: what an exit status tells of the    *)
(* files, and that the files fit together.                                 *)
(***************************************************************************)
EXTENDS Lidlc, SequenceTheorems, FiniteSetTheorems, WellFoundedInduction, TLAPS

\* Induction over the natural numbers, for a set.
LEMMA NatSetInduction ==
    ASSUME NEW T, 0 \in T, \A n \in Nat : n \in T => n + 1 \in T
    PROVE  Nat \subseteq T
<1> DEFINE U == Nat \ T
           R == {ss \in Nat \X Nat : ss[1] < ss[2]}
<1>1. IsWellFoundedOn(R, Nat)
  BY NatLessThanWellFounded, Zenon DEF OpToRel
<1>2. SUFFICES ASSUME U # {} PROVE FALSE
  OBVIOUS
<1>3. U \subseteq Nat
  OBVIOUS
<1> HIDE DEF U, R
<1>4. PICK x \in U : \A y \in U : ~ (<<y, x>> \in R)
  BY <1>1, <1>2, <1>3, WFMin
<1> USE DEF U
<1>5. x # 0 /\ x - 1 \in Nat /\ x - 1 + 1 = x
  BY <1>4
<1>6. x - 1 \in U
  BY <1>4, <1>5
<1>7. <<x - 1, x>> \in R
  BY <1>4, <1>5 DEF R
<1> QED BY <1>4, <1>6, <1>7

\* What FlattenSeq computes on the way.
Joins(sq, n, f) == /\ DOMAIN f = 1 .. n
                   /\ \A k \in 1 .. n : f[k] = IF k = 1 THEN sq[k] ELSE f[k - 1] \o sq[k]

LEMMA JoinsAt ==
    ASSUME NEW sq, NEW m \in Nat, NEW f, Joins(sq, m, f), NEW n \in Nat, n + 1 <= m
    PROVE  f[n + 1] = IF n = 0 THEN sq[n + 1] ELSE f[n] \o sq[n + 1]
<1> DEFINE k == n + 1
<1>1. k \in 1 .. m /\ k - 1 = n /\ (k = 1 <=> n = 0)
  OBVIOUS
<1> HIDE DEF k
<1>2. f[k] = IF k = 1 THEN sq[k] ELSE f[k - 1] \o sq[k]
  BY <1>1, Zenon DEF Joins
<1>3. f[k] = IF n = 0 THEN sq[k] ELSE f[n] \o sq[k]
  BY <1>1, <1>2, Zenon
<1> QED BY <1>3, Zenon DEF k

LEMMA JoinsExist ==
    ASSUME NEW S, NEW sq \in Seq(Seq(S))
    PROVE  \A n \in 0 .. Len(sq) : \E f \in [1 .. n -> Seq(S)] : Joins(sq, n, f)
<1> DEFINE T == {n \in Nat : n <= Len(sq) => \E f \in [1 .. n -> Seq(S)] : Joins(sq, n, f)}
<1>1. 0 \in T
  <2> DEFINE f == [k \in 1 .. 0 |-> <<>>]
  <2>1. f \in [1 .. 0 -> Seq(S)] /\ Joins(sq, 0, f)
    BY DEF Joins
  <2> QED BY <2>1
<1>2. ASSUME NEW n \in Nat, n \in T PROVE n + 1 \in T
  <2> SUFFICES ASSUME n + 1 <= Len(sq)
               PROVE  \E f \in [1 .. n + 1 -> Seq(S)] : Joins(sq, n + 1, f)
    BY <1>2
  <2>1. PICK f \in [1 .. n -> Seq(S)] : Joins(sq, n, f)
    BY <1>2
  <2> DEFINE end == IF n = 0 THEN sq[1] ELSE f[n] \o sq[n + 1]
             g == [k \in 1 .. n + 1 |-> IF k = n + 1 THEN end ELSE f[k]]
  <2>2. sq[1] \in Seq(S) /\ sq[n + 1] \in Seq(S)
    OBVIOUS
  <2>3. end \in Seq(S)
    <3>1. CASE n = 0 BY <3>1, <2>2
    <3>2. CASE n # 0
      <4>1. f[n] \in Seq(S) BY <3>2
      <4> QED BY <3>2, <4>1, <2>2, ConcatProperties
    <3> QED BY <3>1, <3>2
  <2> HIDE DEF end
  <2>4. g \in [1 .. n + 1 -> Seq(S)]
    BY <2>3
  <2>5. ASSUME NEW k \in 1 .. n + 1
        PROVE  g[k] = IF k = 1 THEN sq[k] ELSE g[k - 1] \o sq[k]
    <3>1. CASE k = n + 1
      <4>1. CASE n = 0 BY <3>1, <4>1 DEF end
      <4>2. CASE n # 0
        <5>1. k - 1 = n /\ k # 1 /\ n \in 1 .. n + 1 /\ n # n + 1
          BY <3>1, <4>2
        <5>2. g[k] = f[n] \o sq[n + 1]
          BY <3>1, <4>2, Zenon DEF end
        <5>3. g[k - 1] = f[n]
          BY <5>1
        <5> QED BY <3>1, <5>1, <5>2, <5>3, Zenon
      <4> QED BY <4>1, <4>2
    <3>2. CASE k # n + 1
      <4>1. k \in 1 .. n /\ (k # 1 => k - 1 \in 1 .. n) BY <3>2
      <4>2. f[k] = IF k = 1 THEN sq[k] ELSE f[k - 1] \o sq[k]
        BY <2>1, <4>1, Zenon DEF Joins
      <4>3. g[k] = f[k] /\ (k # 1 => g[k - 1] = f[k - 1])
        BY <3>2, <4>1
      <4> QED BY <4>2, <4>3, Zenon
    <3> QED BY <3>1, <3>2
  <2> HIDE DEF g
  <2>6. Joins(sq, n + 1, g)
    BY <2>4, <2>5 DEF Joins
  <2> QED BY <2>4, <2>6
<1> HIDE DEF T
<1>3. Nat \subseteq T
  BY <1>1, <1>2, NatSetInduction
<1> QED BY <1>3 DEF T

LEMMA FlattenIsJoin ==
    ASSUME NEW S, NEW sq \in Seq(Seq(S)), Len(sq) # 0
    PROVE  \E f \in [1 .. Len(sq) -> Seq(S)] :
              Joins(sq, Len(sq), f) /\ FlattenSeq(sq) = f[Len(sq)]
<1> DEFINE G(f) == [k \in 1 .. Len(sq) |-> IF k = 1 THEN sq[k] ELSE f[k - 1] \o sq[k]]
           F == CHOOSE f : f = G(f)
<1>1. FlattenSeq(sq) = F[Len(sq)]
  BY Zenon DEF FlattenSeq
<1>2. PICK f \in [1 .. Len(sq) -> Seq(S)] : Joins(sq, Len(sq), f)
  BY JoinsExist
<1>3. f = G(f)
  BY <1>2 DEF Joins
<1>4. F = G(F)
  BY <1>3
<1> HIDE DEF F
<1>5. Joins(sq, Len(sq), F)
  <2>1. ASSUME NEW k \in 1 .. Len(sq)
        PROVE  F[k] = IF k = 1 THEN sq[k] ELSE F[k - 1] \o sq[k]
    <3>1. G(F)[k] = IF k = 1 THEN sq[k] ELSE F[k - 1] \o sq[k]
      OBVIOUS
    <3> QED BY <3>1, <1>4, Zenon
  <2>2. DOMAIN F = 1 .. Len(sq)
    <3>1. DOMAIN G(F) = 1 .. Len(sq)
      OBVIOUS
    <3> QED BY <3>1, <1>4, Zenon
  <2> QED BY <2>1, <2>2, Zenon DEF Joins
<1> DEFINE T == {n \in Nat : n \in 1 .. Len(sq) => F[n] = f[n]}
<1>6. 0 \in T
  OBVIOUS
<1>7. ASSUME NEW n \in Nat, n \in T PROVE n + 1 \in T
  <2> SUFFICES ASSUME n + 1 \in 1 .. Len(sq) PROVE F[n + 1] = f[n + 1]
    OBVIOUS
  <2>1. n # 0 => F[n] = f[n]
    BY <1>7
  <2>2. Len(sq) \in Nat /\ n + 1 <= Len(sq)
    OBVIOUS
  <2>3. /\ F[n + 1] = IF n = 0 THEN sq[n + 1] ELSE F[n] \o sq[n + 1]
        /\ f[n + 1] = IF n = 0 THEN sq[n + 1] ELSE f[n] \o sq[n + 1]
    BY <1>2, <1>5, <2>2, JoinsAt, Zenon
  <2> QED BY <2>1, <2>3, Zenon
<1> HIDE DEF T
<1>8. Nat \subseteq T
  BY <1>6, <1>7, NatSetInduction
<1>9. F[Len(sq)] = f[Len(sq)]
  <2>1. Len(sq) \in T BY <1>8
  <2> QED BY <2>1 DEF T
<1> QED BY <1>1, <1>2, <1>9

\* FlattenSeq, one sequence more at a time.
LEMMA FlattenType ==
    ASSUME NEW S, NEW sq \in Seq(Seq(S)) PROVE FlattenSeq(sq) \in Seq(S)
<1>1. CASE Len(sq) = 0
  <2>1. sq = <<>> BY <1>1, EmptySeq
  <2> QED BY <1>1, <2>1 DEF FlattenSeq
<1>2. CASE Len(sq) # 0
  <2>1. PICK f \in [1 .. Len(sq) -> Seq(S)] : FlattenSeq(sq) = f[Len(sq)]
    BY <1>2, FlattenIsJoin
  <2>2. Len(sq) \in 1 .. Len(sq)
    BY <1>2
  <2> QED BY <2>1, <2>2
<1> QED BY <1>1, <1>2

LEMMA FlattenAppend ==
    ASSUME NEW S, NEW sq \in Seq(Seq(S)), NEW s \in Seq(S)
    PROVE  FlattenSeq(Append(sq, s)) = FlattenSeq(sq) \o s
<1> DEFINE all == Append(sq, s)
           n   == Len(sq)
<1>1. /\ all \in Seq(Seq(S)) /\ Len(all) = n + 1 /\ n \in Nat
      /\ all[n + 1] = s /\ \A k \in 1 .. n : all[k] = sq[k]
  BY AppendProperties
<1> HIDE DEF all
<1>2. PICK f \in [1 .. n + 1 -> Seq(S)] : Joins(all, n + 1, f) /\ FlattenSeq(all) = f[n + 1]
  BY <1>1, FlattenIsJoin
<1>3. f[n + 1] = IF n = 0 THEN all[n + 1] ELSE f[n] \o all[n + 1]
  <2>1. n \in Nat /\ n + 1 \in Nat /\ n + 1 <= n + 1 BY <1>1
  <2> QED BY <1>2, <2>1, JoinsAt, Zenon
<1>4. CASE n = 0
  <2>1. sq = <<>> BY <1>4, EmptySeq
  <2>2. FlattenSeq(sq) = <<>> BY <1>4, <2>1 DEF FlattenSeq
  <2>3. <<>> \o s = s BY ConcatEmptySeq
  <2> QED BY <1>1, <1>2, <1>3, <1>4, <2>2, <2>3, Zenon DEF all
<1>5. CASE n # 0
  <2>1. PICK g \in [1 .. n -> Seq(S)] : Joins(sq, n, g) /\ FlattenSeq(sq) = g[n]
    BY <1>5, FlattenIsJoin
  <2> DEFINE T == {k \in Nat : k \in 1 .. n => f[k] = g[k]}
  <2>2. 0 \in T
    OBVIOUS
  <2>3. ASSUME NEW k \in Nat, k \in T PROVE k + 1 \in T
    <3> SUFFICES ASSUME k + 1 \in 1 .. n PROVE f[k + 1] = g[k + 1]
      OBVIOUS
    <3>1. /\ n \in Nat /\ n + 1 \in Nat /\ k + 1 <= n /\ k + 1 <= n + 1
          /\ all[k + 1] = sq[k + 1]
      BY <1>1
    <3>2. k # 0 => f[k] = g[k]
      BY <2>3
    <3>3. f[k + 1] = IF k = 0 THEN all[k + 1] ELSE f[k] \o all[k + 1]
      BY <1>2, <3>1, JoinsAt, Zenon
    <3>4. g[k + 1] = IF k = 0 THEN sq[k + 1] ELSE g[k] \o sq[k + 1]
      BY <2>1, <3>1, JoinsAt, Zenon
    <3> QED BY <3>1, <3>2, <3>3, <3>4, Zenon
  <2> HIDE DEF T
  <2>4. Nat \subseteq T
    BY <2>2, <2>3, NatSetInduction
  <2>5. f[n] = g[n]
    <3>1. n \in T /\ n \in 1 .. n BY <1>1, <1>5, <2>4
    <3> QED BY <3>1 DEF T
  <2> QED BY <1>1, <1>2, <1>3, <1>5, <2>1, <2>5, Zenon DEF all
<1> QED BY <1>4, <1>5

LEMMA FlattenEmpty == FlattenSeq(<<>>) = <<>>
BY DEF FlattenSeq

\* Induction over sequences, for what holds of the sequences in a set.
LEMMA SeqSetInduction ==
    ASSUME NEW S, NEW T, <<>> \in T,
           \A sq \in Seq(S), s \in S : sq \in T => Append(sq, s) \in T
    PROVE  Seq(S) \subseteq T
<1> DEFINE N == {n \in Nat : \A sq \in Seq(S) : Len(sq) = n => sq \in T}
<1>1. 0 \in N
  BY EmptySeq
<1>2. ASSUME NEW n \in Nat, n \in N PROVE n + 1 \in N
  <2> SUFFICES ASSUME NEW sq \in Seq(S), Len(sq) = n + 1 PROVE sq \in T
    OBVIOUS
  <2> DEFINE front == SubSeq(sq, 1, n)
  <2>1. front \in Seq(S) /\ Len(front) = n /\ \A k \in 1 .. n : front[k] = sq[k]
    BY SubSeqProperties
  <2>2. sq[n + 1] \in S
    OBVIOUS
  <2> HIDE DEF front
  <2>3. /\ Append(front, sq[n + 1]) \in Seq(S) /\ Len(Append(front, sq[n + 1])) = n + 1
        /\ \A k \in 1 .. n + 1 : Append(front, sq[n + 1])[k] = sq[k]
    BY <2>1, <2>2, AppendProperties
  <2>4. Append(front, sq[n + 1]) = sq
    BY <2>3, SeqEqual
  <2>5. front \in T
    BY <1>2, <2>1
  <2> QED BY <2>1, <2>2, <2>4, <2>5
<1> HIDE DEF N
<1>3. Nat \subseteq N
  BY <1>1, <1>2, NatSetInduction
<1>4. ASSUME NEW sq \in Seq(S) PROVE sq \in T
  <2>1. Len(sq) \in N BY <1>3
  <2> QED BY <2>1 DEF N
<1> QED BY <1>4

LEMMA FlattenRange ==
    ASSUME NEW S, NEW sq \in Seq(Seq(S))
    PROVE  Range(FlattenSeq(sq)) = UNION {Range(sq[k]) : k \in DOMAIN sq}
<1> DEFINE T == {q \in Seq(Seq(S)) :
                   Range(FlattenSeq(q)) = UNION {Range(q[k]) : k \in DOMAIN q}}
<1>1. <<>> \in T
  <2>1. <<>> \in Seq(Seq(S)) /\ DOMAIN <<>> = {} /\ Range(<<>>) = {}
    BY EmptySeq DEF Range
  <2> QED BY <2>1, FlattenEmpty
<1>2. ASSUME NEW q \in Seq(Seq(S)), NEW s \in Seq(S), q \in T PROVE Append(q, s) \in T
  <2> DEFINE all == Append(q, s)
             n == Len(q)
  <2>1. /\ all \in Seq(Seq(S)) /\ DOMAIN all = 1 .. n + 1 /\ n \in Nat
        /\ all[n + 1] = s /\ \A k \in 1 .. n : all[k] = q[k]
    BY AppendProperties, LenProperties
  <2>2. FlattenSeq(all) = FlattenSeq(q) \o s /\ FlattenSeq(q) \in Seq(S)
    BY FlattenAppend, FlattenType
  <2>3. Range(FlattenSeq(all)) = Range(FlattenSeq(q)) \cup Range(s)
    BY <2>2, RangeConcatenation
  <2> HIDE DEF all
  <2>4. \A x : (\E k \in 1 .. n + 1 : x \in Range(all[k]))
                 <=> (\E k \in 1 .. n : x \in Range(q[k])) \/ x \in Range(s)
    <3>1. n + 1 \in 1 .. n + 1 /\ \A k \in 1 .. n + 1 : k = n + 1 \/ k \in 1 .. n
      BY <2>1
    <3>2. \A k \in 1 .. n : k \in 1 .. n + 1
      BY <2>1
    <3> QED BY <2>1, <3>1, <3>2, Zenon
  <2>5. DOMAIN q = 1 .. n
    BY LenProperties
  <2>6. Range(FlattenSeq(q)) = UNION {Range(q[k]) : k \in DOMAIN q}
    BY <1>2
  <2> HIDE DEF T
  <2>7. \A x : x \in Range(FlattenSeq(all)) <=> \E k \in DOMAIN all : x \in Range(all[k])
    BY <2>1, <2>3, <2>4, <2>5, <2>6, Zenon
  <2>8. Range(FlattenSeq(all)) = UNION {Range(all[k]) : k \in DOMAIN all}
    BY <2>7, Zenon
  <2> QED BY <2>1, <2>8, Zenon DEF all, T
<1> HIDE DEF T
<1>3. Seq(Seq(S)) \subseteq T
  BY <1>1, <1>2, SeqSetInduction
<1> QED BY <1>3 DEF T

\* A function from the numbers up to one, each value of which is made of the one before.
Iterates(X, first, step, end) ==
    \E h \in [0 .. end -> X] : h[0] = first /\ \A n \in 1 .. end : h[n] = step[h[n - 1]]

LEMMA IterationExists ==
    ASSUME NEW X, NEW first \in X, NEW step \in [X -> X], NEW end \in Nat
    PROVE  Iterates(X, first, step, end)
<1> USE DEF Iterates
<1> DEFINE Run(m, h) == h[0] = first /\ \A n \in 1 .. m : h[n] = step[h[n - 1]]
           T == {m \in Nat : \E h \in [0 .. m -> X] : Run(m, h)}
<1>1. 0 \in T
  <2> DEFINE h == [n \in 0 .. 0 |-> first]
  <2>1. h \in [0 .. 0 -> X] /\ Run(0, h)
    OBVIOUS
  <2> QED BY <2>1
<1>2. ASSUME NEW m \in Nat, m \in T PROVE m + 1 \in T
  <2>1. PICK h \in [0 .. m -> X] : Run(m, h)
    BY <1>2
  <2> DEFINE g == [n \in 0 .. m + 1 |-> IF n = m + 1 THEN step[h[m]] ELSE h[n]]
  <2>2. g \in [0 .. m + 1 -> X]
    <3>1. h[m] \in X OBVIOUS
    <3> QED BY <3>1
  <2>3. g[0] = first
    BY <2>1
  <2>4. ASSUME NEW n \in 1 .. m + 1 PROVE g[n] = step[g[n - 1]]
    <3>1. n - 1 \in 0 .. m + 1 /\ n - 1 # m + 1 /\ g[n - 1] = h[n - 1]
      OBVIOUS
    <3>2. CASE n = m + 1
      <4>1. n - 1 = m BY <3>2
      <4>2. g[n] = step[h[m]] BY <3>2
      <4> QED BY <3>1, <4>1, <4>2, Zenon
    <3>3. CASE n # m + 1
      <4>1. n \in 1 .. m BY <3>3
      <4>2. g[n] = h[n] BY <3>3
      <4>3. h[n] = step[h[n - 1]] BY <2>1, <4>1
      <4> QED BY <3>1, <4>2, <4>3, Zenon
    <3> QED BY <3>2, <3>3
  <2> HIDE DEF g
  <2>5. Run(m + 1, g)
    BY <2>3, <2>4
  <2> QED BY <2>2, <2>5
<1> HIDE DEF T
<1>3. Nat \subseteq T
  BY <1>1, <1>2, NatSetInduction
<1> QED BY <1>3 DEF T

------------------------------------------------------------------------------
\* Elements as Define adds them: of different symbols, and after their bases.
Loaded(loaded) ==
    /\ loaded \in Seq(Elements)
    /\ \A i, j \in DOMAIN loaded : SymbolOf(loaded[i]) = SymbolOf(loaded[j]) => i = j
    /\ \A i \in DOMAIN loaded : \/ loaded[i].base = <<>>
                                \/ \E j \in 1 .. i - 1 : j \in Bases(loaded, i)

LEMMA BasesBefore ==
    ASSUME NEW loaded, Loaded(loaded), NEW i \in DOMAIN loaded
    PROVE  /\ loaded[i].base = <<>> <=> Bases(loaded, i) = {}
           /\ \A j \in Bases(loaded, i) : j \in DOMAIN loaded /\ j < i
           /\ \A j, k \in Bases(loaded, i) : j = k
<1>1. \A j, k \in Bases(loaded, i) : j = k
  <2> SUFFICES ASSUME NEW j \in Bases(loaded, i), NEW k \in Bases(loaded, i) PROVE j = k
    OBVIOUS
  <2>1. /\ j \in DOMAIN loaded /\ k \in DOMAIN loaded
        /\ <<SymbolOf(loaded[j])>> = <<SymbolOf(loaded[k])>>
    BY Zenon DEF Bases
  <2>2. SymbolOf(loaded[j]) = SymbolOf(loaded[k])
    BY <2>1
  <2> QED BY <2>1, <2>2, Zenon DEF Loaded
<1>2. loaded[i].base = <<>> => Bases(loaded, i) = {}
  <2> SUFFICES ASSUME loaded[i].base = <<>>, NEW j \in Bases(loaded, i) PROVE FALSE
    OBVIOUS
  <2>1. <<>> = <<SymbolOf(loaded[j])>>
    BY Zenon DEF Bases
  <2> QED BY <2>1
<1>3. loaded[i].base = <<>> \/ \E j \in 1 .. i - 1 : j \in Bases(loaded, i)
  BY DEF Loaded
<1>4. i \in Nat
  BY LenProperties DEF Loaded
<1>5. \A j \in Bases(loaded, i) : j \in DOMAIN loaded
  BY DEF Bases
<1>6. \A j \in Bases(loaded, i) : j < i
  BY <1>1, <1>2, <1>3, <1>4
<1> QED BY <1>1, <1>2, <1>3, <1>5, <1>6

\* A list of elements, each the base of the next, that ends in i.
Chain(loaded, i, list) ==
    /\ list \in Seq(DOMAIN loaded)
    /\ Len(list) >= 1
    /\ list[Len(list)] = i
    /\ \A n \in 1 .. Len(list) - 1 : list[n] \in Bases(loaded, list[n + 1])

LEMMA InheritanceChain ==
    ASSUME NEW loaded, Loaded(loaded), NEW i \in DOMAIN loaded
    PROVE  /\ Chain(loaded, i, inheritance_list(loaded, i))
           /\ loaded[inheritance_list(loaded, i)[1]].base = <<>>
<1> DEFINE end == Len(loaded)
           X == {list \in Seq(DOMAIN loaded) : Len(list) >= 1}
           Onto(list) == IF Bases(loaded, list[1]) = {} THEN list
                         ELSE <<CHOOSE j \in Bases(loaded, list[1]) : TRUE>> \o list
           G(f) == [n \in 0 .. end |->
                      IF n = 0 THEN <<i>>
                      ELSE IF Bases(loaded, f[n - 1][1]) = {} THEN f[n - 1]
                      ELSE <<CHOOSE j \in Bases(loaded, f[n - 1][1]) : TRUE>> \o f[n - 1]]
           F == CHOOSE f : f = G(f)
<1>1. inheritance_list(loaded, i) = IF loaded[F[end][1]].base = <<>> THEN F[end] ELSE <<>>
  BY Zenon DEF inheritance_list
<1>2. end \in Nat /\ DOMAIN loaded = 1 .. end
  BY LenProperties DEF Loaded
<1>3. ASSUME NEW list \in X
      PROVE  /\ Onto(list) \in X
             /\ Onto(list) = list \/ /\ Len(Onto(list)) = Len(list) + 1
                                     /\ Onto(list)[1] \in Bases(loaded, list[1])
                                     /\ \A n \in 1 .. Len(list) : Onto(list)[n + 1] = list[n]
  <2>1. list[1] \in DOMAIN loaded
    OBVIOUS
  <2>2. CASE Bases(loaded, list[1]) = {}
    BY <2>2
  <2>3. CASE Bases(loaded, list[1]) # {}
    <3> DEFINE j == CHOOSE j \in Bases(loaded, list[1]) : TRUE
    <3>1. j \in Bases(loaded, list[1])
      BY <2>3
    <3>2. j \in DOMAIN loaded
      BY <3>1, <2>1, BasesBefore
    <3>3. Onto(list) = <<j>> \o list
      BY <2>3
    <3> HIDE DEF j
    <3>4. <<j>> \in Seq(DOMAIN loaded) /\ Len(<<j>>) = 1 /\ <<j>>[1] = j
      BY <3>2
    <3>5. /\ <<j>> \o list \in Seq(DOMAIN loaded) /\ Len(<<j>> \o list) = 1 + Len(list)
          /\ (<<j>> \o list)[1] = j
          /\ \A n \in 1 .. Len(list) : (<<j>> \o list)[n + 1] = list[n]
      BY <3>4, ConcatProperties
    <3> HIDE DEF Onto
    <3> QED BY <3>1, <3>3, <3>5
  <2> QED BY <2>2, <2>3
<1> DEFINE step == [list \in X |-> Onto(list)]
<1>4. step \in [X -> X]
  BY <1>3
<1>5. <<i>> \in X /\ Len(<<i>>) = 1 /\ <<i>>[1] = i
  OBVIOUS
<1>6. PICK h \in [0 .. end -> X] : h[0] = <<i>> /\ \A n \in 1 .. end : h[n] = step[h[n - 1]]
  <2> HIDE DEF step, X
  <2>1. end \in Nat /\ <<i>> \in X
    BY <1>2, <1>5
  <2> HIDE DEF end
  <2>2. Iterates(X, <<i>>, step, end)
    BY <1>4, <2>1, IterationExists
  <2> QED BY <2>2, Zenon DEF Iterates
<1>7. \A n \in 1 .. end : n - 1 \in 0 .. end /\ n # 0
  BY <1>2
<1>8. ASSUME NEW n \in 1 .. end PROVE h[n] = Onto(h[n - 1])
  <2>1. h[n - 1] \in X BY <1>6, <1>7
  <2>2. step[h[n - 1]] = Onto(h[n - 1]) BY <2>1, Zenon
  <2> QED BY <1>6, <2>2, Zenon
<1>9. h = G(h)
  <2>1. \A n \in 0 .. end : h[n] = IF n = 0 THEN <<i>> ELSE Onto(h[n - 1])
    <3>1. \A n \in 0 .. end : n = 0 \/ n \in 1 .. end
      BY <1>2
    <3> QED BY <1>6, <1>8, <3>1, Zenon
  <2> HIDE DEF Onto
  <2>2. h = [n \in 0 .. end |-> IF n = 0 THEN <<i>> ELSE Onto(h[n - 1])]
    BY <1>6, <2>1
  <2> QED BY <2>2, Zenon DEF Onto
<1>10. F = G(F)
  BY <1>9, Zenon
<1> HIDE DEF F
<1>11. F[0] = <<i>> /\ \A n \in 1 .. end : F[n] = Onto(F[n - 1])
  <2>1. ASSUME NEW n \in 1 .. end PROVE F[n] = Onto(F[n - 1])
    <3>1. n \in 0 .. end /\ n # 0 BY <1>2
    <3>2. G(F)[n] = Onto(F[n - 1]) BY <3>1, Zenon
    <3> QED BY <1>10, <3>2, Zenon
  <2>2. F[0] = <<i>>
    <3>1. 0 \in 0 .. end BY <1>2
    <3>2. G(F)[0] = <<i>> BY <3>1, Zenon
    <3> QED BY <1>10, <3>2, Zenon
  <2> QED BY <2>1, <2>2
<1> DEFINE Good(n, list) == /\ Chain(loaded, i, list)
                            /\ loaded[list[1]].base = <<>> \/ list[1] + n <= i
           T == {n \in Nat : n <= end => Good(n, F[n])}
<1>12. 0 \in T
  <2>1. i + 0 <= i /\ 1 .. Len(<<i>>) - 1 = {}
    BY <1>2, <1>5
  <2>2. Chain(loaded, i, <<i>>)
    BY <1>5, <2>1 DEF Chain
  <2>3. Good(0, <<i>>)
    BY <1>5, <2>1, <2>2
  <2> HIDE DEF Good
  <2>4. Good(0, F[0])
    BY <1>11, <2>3
  <2> QED BY <2>4
<1>13. ASSUME NEW n \in Nat, n \in T PROVE n + 1 \in T
  <2> SUFFICES ASSUME n + 1 <= end PROVE Good(n + 1, F[n + 1])
    OBVIOUS
  <2> DEFINE list == F[n]
  <2>1. Good(n, list)
    BY <1>2, <1>13
  <2>2. F[n + 1] = Onto(list)
    <3>1. n + 1 \in 1 .. end /\ n + 1 - 1 = n BY <1>2
    <3> HIDE DEF Onto
    <3>2. F[n + 1] = Onto(F[n + 1 - 1]) BY <1>11, <3>1
    <3> QED BY <3>1, <3>2, Zenon
  <2> HIDE DEF list, T
  <2>3. list \in X /\ list[1] \in DOMAIN loaded
    BY <2>1 DEF Chain
  <2>4. CASE Bases(loaded, list[1]) = {}
    <3>1. Onto(list) = list BY <2>4
    <3>2. loaded[list[1]].base = <<>>
      BY <2>3, <2>4, BasesBefore
    <3> QED BY <2>1, <2>2, <3>1, <3>2
  <2>5. CASE Bases(loaded, list[1]) # {}
    <3> DEFINE new == Onto(list)
    <3>1. PICK j \in Bases(loaded, list[1]) : new = <<j>> \o list
      BY <2>5
    <3>2. j \in DOMAIN loaded /\ j < list[1] /\ loaded[list[1]].base # <<>>
      BY <2>3, <3>1, BasesBefore
    <3>3. <<j>> \in Seq(DOMAIN loaded) /\ Len(<<j>>) = 1 /\ <<j>>[1] = j
      BY <3>2
    <3> HIDE DEF new, X
    <3>4. list \in Seq(DOMAIN loaded) /\ Len(list) \in Nat /\ Len(list) >= 1
      BY <2>1 DEF Chain
    <3>5. /\ new \in Seq(DOMAIN loaded) /\ Len(new) = 1 + Len(list) /\ new[1] = j
          /\ \A k \in 1 .. Len(list) : new[k + 1] = list[k]
      <4> DEFINE one == <<j>>
      <4> HIDE DEF one
      <4>1. one \in Seq(DOMAIN loaded) /\ Len(one) = 1 /\ one[1] = j /\ new = one \o list
        BY <3>1, <3>3 DEF one
      <4>2. /\ new \in Seq(DOMAIN loaded) /\ Len(new) = Len(one) + Len(list)
            /\ \A k \in 1 .. Len(one) + Len(list) :
                  new[k] = IF k <= Len(one) THEN one[k] ELSE list[k - Len(one)]
        BY <3>4, <4>1, ConcatProperties, Zenon
      <4>3. 1 \in 1 .. Len(one) + Len(list) /\ 1 <= Len(one)
        BY <3>4, <4>1
      <4>4. ASSUME NEW k \in 1 .. Len(list) PROVE new[k + 1] = list[k]
        <5>1. /\ k + 1 \in 1 .. Len(one) + Len(list) /\ ~(k + 1 <= Len(one))
              /\ k + 1 - Len(one) = k
          BY <3>4, <4>1
        <5> DEFINE place == k + 1
        <5> HIDE DEF place
        <5>2. place \in 1 .. Len(one) + Len(list) /\ ~(place <= Len(one)) /\ place - Len(one) = k
          BY <5>1 DEF place
        <5>3. new[place] = list[place - Len(one)]
          BY <4>2, <5>2, Zenon
        <5> QED BY <5>2, <5>3, Zenon DEF place
      <4>5. new[1] = j
        BY <4>1, <4>2, <4>3, Zenon
      <4> QED BY <4>1, <4>2, <4>4, <4>5
    <3>6. new[Len(new)] = i
      <4>1. new[Len(list) + 1] = list[Len(list)] BY <3>4, <3>5
      <4> QED BY <2>1, <3>4, <3>5, <4>1 DEF Chain
    <3>7. ASSUME NEW k \in 1 .. Len(new) - 1
          PROVE  new[k] \in Bases(loaded, new[k + 1])
      <4>1. CASE k = 1
        <5>1. new[k + 1] = list[1] BY <3>4, <3>5, <4>1
        <5> QED BY <3>1, <3>5, <4>1, <5>1
      <4>2. CASE k # 1
        <5>1. k - 1 \in 1 .. Len(list) - 1 /\ k - 1 \in 1 .. Len(list) /\ k \in 1 .. Len(list)
              /\ k - 1 + 1 = k
          BY <3>4, <3>5, <4>2
        <5>2. new[k] = list[k - 1] /\ new[k + 1] = list[k]
          BY <3>5, <5>1
        <5>3. list[k - 1] \in Bases(loaded, list[k])
          BY <2>1, <5>1 DEF Chain
        <5> QED BY <5>2, <5>3
      <4> QED BY <4>1, <4>2
    <3>8. Chain(loaded, i, new)
      <4>1. new \in Seq(DOMAIN loaded) /\ Len(new) >= 1
        BY <3>4, <3>5
      <4> QED BY <3>6, <3>7, <4>1, Zenon DEF Chain
    <3>9. new[1] + (n + 1) <= i
      BY <2>1, <2>3, <3>2, <3>5, <1>2
    <3> QED BY <2>2, <3>8, <3>9 DEF new
  <2> QED BY <2>4, <2>5
<1> HIDE DEF T
<1>14. Good(end, F[end])
  <2>1. end \in T BY <1>2, <1>12, <1>13, NatSetInduction
  <2> QED BY <1>2, <2>1 DEF T
<1>15. F[end][1] \in DOMAIN loaded
  BY <1>14 DEF Chain
<1>16. loaded[F[end][1]].base = <<>>
  BY <1>2, <1>14, <1>15
<1> QED BY <1>1, <1>14, <1>16, Zenon

------------------------------------------------------------------------------
\* The order of a back end.
LEMMA OfKindIs ==
    ASSUME NEW loaded, Loaded(loaded), NEW home, NEW kind
    PROVE  /\ OfKind(loaded, home, kind) \in Seq(DOMAIN loaded)
           /\ Range(OfKind(loaded, home, kind)) =
                 {i \in DOMAIN loaded : loaded[i].home = home /\ loaded[i].kind = kind}
<1> DEFINE C(i) == loaded[i].home = home /\ loaded[i].kind = kind
           D == DOMAIN loaded
           sq == [i \in D |-> IF C(i) THEN <<i>> ELSE <<>>]
<1>1. Len(loaded) \in Nat /\ D = 1 .. Len(loaded)
  BY LenProperties DEF Loaded
<1>2. OfKind(loaded, home, kind) = FlattenSeq(sq)
  BY Zenon DEF OfKind
<1> HIDE DEF C
<1>3. ASSUME NEW i \in D
      PROVE  sq[i] \in Seq(D) /\ Range(sq[i]) = IF C(i) THEN {i} ELSE {}
  <2>1. <<i>> \in Seq(D) /\ <<>> \in Seq(D)
    OBVIOUS
  <2>2. Range(<<i>>) = {i} /\ Range(<<>>) = {}
    BY DEF Range
  <2> QED BY <2>1, <2>2
<1>4. sq \in Seq(Seq(D)) /\ DOMAIN sq = D
  <2>1. sq \in [1 .. Len(loaded) -> Seq(D)]
    BY <1>1, <1>3
  <2> QED BY <1>1, <2>1
<1> HIDE DEF D, sq
<1>5. FlattenSeq(sq) \in Seq(D) /\ Range(FlattenSeq(sq)) = UNION {Range(sq[k]) : k \in D}
  BY <1>4, FlattenType, FlattenRange, Zenon
<1>6. UNION {Range(sq[k]) : k \in D} = {i \in D : C(i)}
  <2>1. ASSUME NEW i \in D, C(i) PROVE \E k \in D : i \in Range(sq[k])
    BY <1>3, <2>1
  <2>2. ASSUME NEW k \in D, NEW i \in Range(sq[k]) PROVE i \in D /\ C(i)
    <3>1. CASE C(k)
      BY <1>3, <3>1
    <3>2. CASE ~C(k)
      BY <1>3, <3>2
    <3> QED BY <3>1, <3>2
  <2> QED BY <2>1, <2>2
<1> QED BY <1>2, <1>5, <1>6, Zenon DEF D, C

LEMMA InOrderIs ==
    ASSUME NEW loaded, Loaded(loaded), NEW home, NEW S, NEW kinds \in Seq(S)
    PROVE  /\ InOrder(loaded, home, kinds) \in Seq(DOMAIN loaded)
           /\ Range(InOrder(loaded, home, kinds)) =
                 {i \in DOMAIN loaded : loaded[i].home = home /\ loaded[i].kind \in Range(kinds)}
<1> DEFINE D == DOMAIN loaded
           sq == [n \in DOMAIN kinds |-> OfKind(loaded, home, kinds[n])]
<1>1. InOrder(loaded, home, kinds) = FlattenSeq(sq)
  BY Zenon DEF InOrder
<1>2. ASSUME NEW n \in DOMAIN kinds
      PROVE  /\ sq[n] \in Seq(D)
             /\ Range(sq[n]) = {i \in D : loaded[i].home = home /\ loaded[i].kind = kinds[n]}
  <2>1. sq[n] = OfKind(loaded, home, kinds[n])
    OBVIOUS
  <2> HIDE DEF sq
  <2> QED BY <2>1, OfKindIs
<1>3. sq \in Seq(Seq(D)) /\ DOMAIN sq = DOMAIN kinds
  <2>1. Len(kinds) \in Nat /\ DOMAIN kinds = 1 .. Len(kinds)
    BY LenProperties
  <2> HIDE DEF D
  <2>2. sq \in [DOMAIN kinds -> Seq(D)]
    BY <1>2
  <2> QED BY <2>1, <2>2
<1> HIDE DEF D, sq
<1>4. /\ FlattenSeq(sq) \in Seq(D)
      /\ Range(FlattenSeq(sq)) = UNION {Range(sq[k]) : k \in DOMAIN kinds}
  BY <1>3, FlattenType, FlattenRange, Zenon
<1>5. Range(kinds) = {kinds[n] : n \in DOMAIN kinds}
  BY DEF Range
<1>6. UNION {Range(sq[k]) : k \in DOMAIN kinds} =
         {i \in D : loaded[i].home = home /\ loaded[i].kind \in Range(kinds)}
  BY <1>2, <1>5
<1> QED BY <1>1, <1>4, <1>6, Zenon DEF D

\* What symbols are made of.
LEMMA FrontLast ==
    ASSUME NEW S, NEW s \in Seq(S), NEW x
    PROVE  /\ Front(Append(s, x)) = s /\ Last(Append(s, x)) = x
           /\ Last(s \o <<x>>) = x
<1> DEFINE U == S \cup {x}
           all == Append(s, x)
<1>1. s \in Seq(U) /\ x \in U
  OBVIOUS
<1> HIDE DEF U
<1>2. /\ all \in Seq(U) /\ Len(all) = Len(s) + 1 /\ Len(s) \in Nat
      /\ all[Len(s) + 1] = x /\ \A k \in 1 .. Len(s) : all[k] = s[k]
  BY <1>1, AppendProperties
<1>3. s \o <<x>> = all
  BY <1>1, AppendIsConcat
<1> HIDE DEF all
<1>4. Last(all) = x
  BY <1>2 DEF Last
<1>5. Front(all) = s
  <2>1. Len(all) - 1 = Len(s)
    BY <1>2
  <2>2. /\ SubSeq(all, 1, Len(s)) \in Seq(U) /\ Len(SubSeq(all, 1, Len(s))) = Len(s)
        /\ \A k \in 1 .. Len(s) : SubSeq(all, 1, Len(s))[k] = all[k]
    BY <1>2, SubSeqProperties
  <2>3. SubSeq(all, 1, Len(s)) = s
    BY <1>1, <1>2, <2>2, SeqEqual
  <2> QED BY <2>1, <2>3 DEF Front
<1> QED BY <1>3, <1>4, <1>5 DEF all

LEMMA SymbolParts ==
    ASSUME NEW elem \in Elements
    PROVE  /\ SymbolOf(elem) = Append(elem.home, elem.name)
           /\ Front(SymbolOf(elem)) = elem.home
           /\ \A x : Last(SymbolOf(elem) \o <<x>>) = x
<1>1. elem.home \in Seq(STRING) /\ SymbolOf(elem) = Append(elem.home, elem.name)
  BY LidlcAssumption, Zenon DEF SymbolOf
<1>2. Front(SymbolOf(elem)) = elem.home
  BY <1>1, FrontLast
<1>3. SymbolOf(elem) \in Seq(STRING \cup {elem.name})
  <2>1. elem.home \in Seq(STRING \cup {elem.name})
    BY <1>1
  <2>2. elem.name \in STRING \cup {elem.name}
    OBVIOUS
  <2> QED BY <1>1, <2>1, <2>2, AppendProperties
<1> QED BY <1>1, <1>2, <1>3, FrontLast

------------------------------------------------------------------------------
\* Unions of services that the classes of an element's file use.
UnionsMade(classes, made) ==
    \A class \in Range(classes) : \A use \in class.uses :
       Last(use.symbol) \in ServiceUnions => Front(use.symbol) \in made

LEMMA UsesAreOfTypes ==
    ASSUME NEW loaded, NEW who, NEW types, NEW made,
           \A k \in DOMAIN types : UnionsOf(types[k]) \subseteq made
    PROVE  \A use \in generate_members(loaded, who, types) :
              Last(use.symbol) \in ServiceUnions => Front(use.symbol) \in made
<1> SUFFICES ASSUME NEW use \in generate_members(loaded, who, types),
                    Last(use.symbol) \in ServiceUnions
             PROVE  Front(use.symbol) \in made
  OBVIOUS
<1>1. PICK k \in DOMAIN types : use \in Spelled(loaded, who, types[k])
  BY Zenon DEF generate_members
<1>2. PICK part \in Range(UserParts(types[k])) : use = Use(loaded, who, part.symbol, part.sized)
  BY <1>1, Zenon DEF Spelled
<1>3. use.symbol = part.symbol
  BY <1>2 DEF Use
<1>4. use.symbol \in SymbolsIn(types[k])
  BY <1>3, Zenon DEF SymbolsIn
<1>5. Front(use.symbol) \in UnionsOf(types[k])
  BY <1>4, Zenon DEF UnionsOf
<1> QED BY <1>5, Zenon

LEMMA RangeOfFew ==
    ASSUME NEW x, NEW y
    PROVE  Range(<<x>>) = {x} /\ Range(<<x, y>>) = {x, y} /\ Range(<<>>) = {}
BY DEF Range

LEMMA InChain ==
    ASSUME NEW loaded, Loaded(loaded), NEW i \in DOMAIN loaded
    PROVE  /\ i \in Range(inheritance_list(loaded, i))
           /\ Range(inheritance_list(loaded, i)) \subseteq DOMAIN loaded
<1> DEFINE list == inheritance_list(loaded, i)
<1>1. Chain(loaded, i, list)
  BY InheritanceChain
<1> HIDE DEF list
<1>2. list \in Seq(DOMAIN loaded) /\ Len(list) \in DOMAIN list /\ list[Len(list)] = i
  BY <1>1 DEF Chain
<1>3. \A n \in DOMAIN list : list[n] \in DOMAIN loaded
  BY <1>2
<1> QED BY <1>2, <1>3 DEF Range, list

LEMMA ProcClassesUse ==
    ASSUME NEW loaded, NEW i, NEW proc, NEW made,
           \A t \in ProcTypes(proc) : UnionsOf(t) \subseteq made
    PROVE  UnionsMade(proc_classes(loaded, i, proc), made)
<1> DEFINE who(suffix) == SymbolOf(loaded[i]) \o <<proc.name \o suffix>>
           A == Class(<<loaded[i].name, proc.name \o "_params">>,
                      generate_members(loaded, who("_params"), TypesOf(proc.params)))
           B == Class(<<loaded[i].name, proc.name \o "_results">>,
                      generate_members(loaded, who("_results"), <<proc.type>>))
<1>1. proc_classes(loaded, i, proc) = <<A, B>>
  BY Zenon DEF proc_classes
<1> HIDE DEF who
<1>2. /\ A.uses = generate_members(loaded, who("_params"), TypesOf(proc.params))
      /\ B.uses = generate_members(loaded, who("_results"), <<proc.type>>)
  BY DEF Class
<1>3. \A k \in DOMAIN TypesOf(proc.params) : UnionsOf(TypesOf(proc.params)[k]) \subseteq made
  <2>1. \A k \in DOMAIN TypesOf(proc.params) : TypesOf(proc.params)[k] \in ProcTypes(proc)
    BY DEF TypesOf, ProcTypes
  <2> QED BY <2>1, Zenon
<1>4. \A k \in DOMAIN <<proc.type>> : UnionsOf(<<proc.type>>[k]) \subseteq made
  <2>1. \A k \in DOMAIN <<proc.type>> : <<proc.type>>[k] = proc.type
    OBVIOUS
  <2>2. proc.type \in ProcTypes(proc)
    BY DEF ProcTypes
  <2> QED BY <2>1, <2>2, Zenon
<1> HIDE DEF A, B
<1>5. Range(<<A, B>>) = {A, B}
  BY RangeOfFew
<1>6. \A use \in A.uses : Last(use.symbol) \in ServiceUnions => Front(use.symbol) \in made
  BY <1>2, <1>3, UsesAreOfTypes, Zenon
<1>7. \A use \in B.uses : Last(use.symbol) \in ServiceUnions => Front(use.symbol) \in made
  BY <1>2, <1>4, UsesAreOfTypes, Zenon
<1> QED BY <1>1, <1>5, <1>6, <1>7, Zenon DEF UnionsMade

LEMMA UnionClassUses ==
    ASSUME NEW loaded, Loaded(loaded), NEW i \in DOMAIN loaded, NEW union,
           NEW suffix \in {"_params", "_results"},
           \A j \in Range(inheritance_list(loaded, i)) : loaded[j].kind = "service"
    PROVE  \A use \in union_class(loaded, i, union, suffix).uses :
              Last(use.symbol) \notin ServiceUnions
<1> DEFINE Structs(j) == {SymbolOf(loaded[j]) \o <<loaded[j].members[k].name \o suffix>> :
                            k \in DOMAIN loaded[j].members}
           structs == UNION {Structs(j) : j \in Range(inheritance_list(loaded, i))}
           uses == {Use(loaded, SymbolOf(loaded[i]) \o <<union>>, s, FALSE) : s \in structs}
<1>1. union_class(loaded, i, union, suffix).uses = uses
  BY DEF union_class, Class
<1> SUFFICES ASSUME NEW use \in uses PROVE Last(use.symbol) \notin ServiceUnions
  BY <1>1, Zenon
<1>2. PICK s \in structs : use = Use(loaded, SymbolOf(loaded[i]) \o <<union>>, s, FALSE)
  BY Zenon
<1>3. use.symbol = s
  BY <1>2 DEF Use
<1>4. PICK j \in Range(inheritance_list(loaded, i)) : s \in Structs(j)
  BY <1>2, Zenon
<1>5. PICK k \in DOMAIN loaded[j].members :
         s = SymbolOf(loaded[j]) \o <<loaded[j].members[k].name \o suffix>>
  BY <1>4, Zenon
<1>6. j \in DOMAIN loaded /\ loaded[j] \in Elements
  <2>1. j \in DOMAIN loaded BY <1>4, InChain
  <2> QED BY <2>1 DEF Loaded
<1>7. loaded[j].members[k] \in Range(loaded[j].members)
  BY <1>5, Zenon DEF Range
<1>8. loaded[j].members[k].name \o suffix \notin ServiceUnions
  BY <1>4, <1>6, <1>7, LidlcAssumption, Zenon
<1>9. Last(s) = loaded[j].members[k].name \o suffix
  BY <1>5, <1>6, SymbolParts, Zenon
<1> QED BY <1>3, <1>8, <1>9, Zenon

LEMMA KindOfBases ==
    ASSUME NEW loaded, Loaded(loaded), NEW i \in DOMAIN loaded, BaseKind(loaded[i].kind) = loaded[i].kind
    PROVE  \A j \in Range(inheritance_list(loaded, i)) : loaded[j].kind = loaded[i].kind
<1> DEFINE list == inheritance_list(loaded, i)
           T == {m \in Nat : m < Len(list) => loaded[list[Len(list) - m]].kind = loaded[i].kind}
<1>1. Chain(loaded, i, list)
  BY InheritanceChain
<1> HIDE DEF list
<1>2. /\ list \in Seq(DOMAIN loaded) /\ Len(list) \in Nat /\ DOMAIN list = 1 .. Len(list)
      /\ list[Len(list)] = i
  BY <1>1 DEF Chain
<1>3. 0 \in T
  BY <1>2
<1>4. ASSUME NEW m \in Nat, m \in T PROVE m + 1 \in T
  <2> SUFFICES ASSUME m + 1 < Len(list)
               PROVE  loaded[list[Len(list) - (m + 1)]].kind = loaded[i].kind
    OBVIOUS
  <2> DEFINE n == Len(list) - (m + 1)
  <2>1. n \in 1 .. Len(list) - 1 /\ n + 1 = Len(list) - m /\ m < Len(list)
    BY <1>2
  <2>2. loaded[list[Len(list) - m]].kind = loaded[i].kind
    BY <1>4, <2>1
  <2> HIDE DEF n
  <2>3. list[n] \in Bases(loaded, list[n + 1])
    BY <1>1, <2>1 DEF Chain
  <2>4. loaded[list[n]].kind = BaseKind(loaded[list[n + 1]].kind)
    BY <2>3, Zenon DEF Bases
  <2>5. loaded[list[n + 1]].kind = loaded[i].kind
    BY <2>1, <2>2
  <2>6. loaded[list[n]].kind = loaded[i].kind
    BY <2>4, <2>5, Zenon
  <2> QED BY <2>6 DEF n
<1> HIDE DEF T
<1>5. Nat \subseteq T
  BY <1>3, <1>4, NatSetInduction
<1>6. ASSUME NEW n \in 1 .. Len(list) PROVE loaded[list[n]].kind = loaded[i].kind
  <2>1. Len(list) - n \in T /\ Len(list) - n < Len(list) /\ Len(list) - (Len(list) - n) = n
    BY <1>2, <1>5
  <2> QED BY <2>1 DEF T
<1> QED BY <1>2, <1>6 DEF list, Range

\* An element that a back end gets past has a file with a class, and the unions it uses
\* are those that have been made.
LEMMA ServiceFileUses ==
    ASSUME NEW loaded, Loaded(loaded), NEW i \in DOMAIN loaded, loaded[i].kind = "service",
           NEW made, generate_unions(loaded, i, made)
    PROVE  /\ service_file(loaded, i).classes # <<>>
           /\ UnionsMade(service_file(loaded, i).classes, made)
<1> DEFINE procs == loaded[i].members
           own == <<Class(<<loaded[i].name>>, {})>>
           sq == [k \in DOMAIN procs |-> proc_classes(loaded, i, procs[k])]
           A == union_class(loaded, i, "call_union", "_params")
           B == union_class(loaded, i, "return_union", "_results")
           S == Range(own) \cup {A, B} \cup UNION {Range(sq[k]) : k \in DOMAIN procs}
           classes == own \o FlattenSeq(sq) \o <<A, B>>
<1>1. service_file(loaded, i).classes = classes
  BY DEF service_file, File
<1>2. loaded[i] \in Elements /\ procs \in Seq(Range(procs))
  <2>1. loaded[i] \in Elements BY DEF Loaded
  <2> QED BY <2>1, LidlcAssumption, Zenon
<1>3. Len(procs) \in Nat /\ DOMAIN procs = 1 .. Len(procs)
  BY <1>2, LenProperties
<1> HIDE DEF procs
<1>4. ASSUME NEW k \in DOMAIN procs PROVE sq[k] \in Seq(S)
  <2>1. Range(sq[k]) \subseteq S
    OBVIOUS
  <2>2. PICK a, b : sq[k] = <<a, b>>
    BY Zenon DEF proc_classes
  <2> HIDE DEF sq, S
  <2>3. Range(sq[k]) = {a, b}
    BY <2>2, RangeOfFew, Zenon
  <2> QED BY <2>1, <2>2, <2>3
<1>5. own \in Seq(S) /\ <<A, B>> \in Seq(S)
  <2> DEFINE c == Class(<<loaded[i].name>>, {})
  <2>1. Range(own) = {c}
    BY RangeOfFew, Zenon
  <2>2. c \in S /\ A \in S /\ B \in S
    <3>1. c \in Range(own)
      BY <2>1, Zenon
    <3> HIDE DEF own, c, A, B, sq
    <3> QED BY <3>1
  <2>3. own = <<c>>
    OBVIOUS
  <2> HIDE DEF own, c, S, A, B
  <2> QED BY <2>2, <2>3
<1>6. sq \in Seq(Seq(S)) /\ DOMAIN sq = DOMAIN procs
  <2>1. DOMAIN sq = DOMAIN procs
    OBVIOUS
  <2> HIDE DEF S
  <2>2. sq \in [DOMAIN procs -> Seq(S)]
    BY <1>4, Zenon
  <2> HIDE DEF sq
  <2> QED BY <1>3, <2>1, <2>2
<1> HIDE DEF A, B, sq, S
<1>7. FlattenSeq(sq) \in Seq(S) /\ Range(FlattenSeq(sq)) = UNION {Range(sq[k]) : k \in DOMAIN procs}
  BY <1>6, FlattenType, FlattenRange, Zenon
<1> HIDE DEF own
<1>8. own \o FlattenSeq(sq) \in Seq(S) /\ Len(classes) = Len(own) + Len(FlattenSeq(sq)) + 2
  BY <1>5, <1>7
<1>9. Range(classes) = Range(own) \cup Range(FlattenSeq(sq)) \cup {A, B}
  <2>1. Range(own \o FlattenSeq(sq)) = Range(own) \cup Range(FlattenSeq(sq))
    BY <1>5, <1>7, RangeConcatenation
  <2>2. Range(classes) = Range(own \o FlattenSeq(sq)) \cup Range(<<A, B>>)
    <3> DEFINE front == own \o FlattenSeq(sq)
               back == <<A, B>>
    <3>1. front \in Seq(S) /\ back \in Seq(S) /\ classes = front \o back
      BY <1>5, <1>8
    <3> HIDE DEF front, back, classes
    <3>2. Range(front \o back) = Range(front) \cup Range(back)
      BY <3>1, RangeConcatenation, Zenon
    <3> QED BY <3>1, <3>2 DEF front, back
  <2> QED BY <2>1, <2>2, RangeOfFew, Zenon
<1>10. classes # <<>>
  <2>1. Len(own) \in Nat /\ Len(FlattenSeq(sq)) \in Nat
    BY <1>5, <1>7
  <2> QED BY <1>8, <2>1
<1> HIDE DEF classes
<1>11. ASSUME NEW class \in Range(classes), NEW use \in class.uses,
              Last(use.symbol) \in ServiceUnions
       PROVE  Front(use.symbol) \in made
  <2>1. CASE class \in Range(own)
    <3> DEFINE c == Class(<<loaded[i].name>>, {})
    <3>1. own = <<c>> /\ c.uses = {}
      BY DEF own, Class
    <3> HIDE DEF c
    <3>2. class.uses = {}
      BY <2>1, <3>1, RangeOfFew, Zenon
    <3> QED BY <3>2, Zenon
  <2>2. CASE class \in Range(FlattenSeq(sq))
    <3>1. PICK k \in DOMAIN procs : class \in Range(sq[k])
      BY <1>7, <2>2, Zenon
    <3>2. sq[k] = proc_classes(loaded, i, procs[k])
      BY DEF sq
    <3>3. \A t \in ProcTypes(procs[k]) : UnionsOf(t) \subseteq made
      BY InChain, Zenon DEF generate_unions, procs
    <3>4. UnionsMade(sq[k], made)
      BY <3>2, <3>3, ProcClassesUse, Zenon
    <3> QED BY <1>11, <3>1, <3>4, Zenon DEF UnionsMade
  <2>3. CASE class \in {A, B}
    <3>1. \A j \in Range(inheritance_list(loaded, i)) : loaded[j].kind = "service"
      BY KindOfBases, Zenon DEF BaseKind
    <3>2. "_params" \in {"_params", "_results"} /\ "_results" \in {"_params", "_results"}
      OBVIOUS
    <3>3. class = A \/ class = B
      BY <2>3
    <3>4. \A u \in class.uses : Last(u.symbol) \notin ServiceUnions
      BY <3>1, <3>2, <3>3, UnionClassUses, Zenon DEF A, B
    <3> QED BY <1>11, <3>4, Zenon
  <2> QED BY <1>9, <2>1, <2>2, <2>3, Zenon
<1> QED BY <1>1, <1>10, <1>11, Zenon DEF UnionsMade

LEMMA PythonFileUses ==
    ASSUME NEW loaded, Loaded(loaded), NEW i \in DOMAIN loaded,
           loaded[i].kind \in {"service", "enum", "struct", "union"},
           NEW made, ~Unmade(loaded, i, made)
    PROVE  /\ PythonFile(loaded, i).classes # <<>>
           /\ UnionsMade(PythonFile(loaded, i).classes, made)
<1>1. CASE loaded[i].kind = "service"
  <2>1. PythonFile(loaded, i) = service_file(loaded, i)
    BY <1>1, Zenon DEF PythonFile
  <2>2. generate_unions(loaded, i, made)
    BY <1>1, Zenon DEF Unmade
  <2> QED BY <1>1, <2>1, <2>2, ServiceFileUses
<1>2. CASE loaded[i].kind # "service"
  <2>1. PICK c : /\ PythonFile(loaded, i).classes = <<c>>
                 /\ \/ c.uses = {}
                    \/ c.uses = generate_members(loaded, SymbolOf(loaded[i]), TypesUsed(loaded, i))
    <3>1. CASE loaded[i].kind = "enum"
      <4>1. PythonFile(loaded, i) = enum_file(loaded, i)
        BY <1>2, <3>1 DEF PythonFile
      <4>2. /\ enum_file(loaded, i).classes = <<Class(<<loaded[i].name>>, {})>>
            /\ Class(<<loaded[i].name>>, {}).uses = {}
        BY DEF enum_file, File, Class
      <4> QED BY <4>1, <4>2, Zenon
    <3>2. CASE loaded[i].kind = "struct"
      <4> DEFINE uses == generate_members(loaded, SymbolOf(loaded[i]), TypesOf(loaded[i].members))
      <4>1. PythonFile(loaded, i) = struct_file(loaded, i)
        BY <1>2, <3>2 DEF PythonFile
      <4>2. /\ struct_file(loaded, i).classes = <<Class(<<loaded[i].name>>, uses)>>
            /\ Class(<<loaded[i].name>>, uses).uses = uses
        BY DEF struct_file, File, Class
      <4>3. TypesUsed(loaded, i) = TypesOf(loaded[i].members)
        BY <3>2 DEF TypesUsed
      <4> QED BY <4>1, <4>2, <4>3, Zenon
    <3>3. CASE loaded[i].kind = "union"
      <4> DEFINE uses == generate_members(loaded, SymbolOf(loaded[i]),
                                          TypesOf(all_members(loaded, i)))
      <4>1. PythonFile(loaded, i) = union_file(loaded, i)
        BY <1>2, <3>3 DEF PythonFile
      <4>2. /\ union_file(loaded, i).classes = <<Class(<<loaded[i].name>>, uses)>>
            /\ Class(<<loaded[i].name>>, uses).uses = uses
        BY DEF union_file, File, Class
      <4>3. TypesUsed(loaded, i) = TypesOf(all_members(loaded, i))
        BY <3>3 DEF TypesUsed
      <4> QED BY <4>1, <4>2, <4>3, Zenon
    <3> QED BY <1>2, <3>1, <3>2, <3>3
  <2>2. \A k \in DOMAIN TypesUsed(loaded, i) : UnionsOf(TypesUsed(loaded, i)[k]) \subseteq made
    BY <1>2, Zenon DEF Unmade, Range
  <2>3. \A use \in c.uses : Last(use.symbol) \in ServiceUnions => Front(use.symbol) \in made
    BY <2>1, <2>2, UsesAreOfTypes, Zenon
  <2>4. Range(<<c>>) = {c} /\ <<c>> # <<>>
    BY RangeOfFew
  <2> QED BY <2>1, <2>3, <2>4, Zenon DEF UnionsMade
<1> QED BY <1>1, <1>2

------------------------------------------------------------------------------
\* How far the Python back end gets.
LEMMA LeastNat ==
    ASSUME NEW S, S \subseteq Nat, S # {}
    PROVE  \E x \in S : \A y \in S : x <= y
<1> DEFINE T == {n \in Nat : \A m \in 0 .. n : m \notin S}
<1> SUFFICES ASSUME \A x \in S : \E y \in S : ~ (x <= y) PROVE FALSE
  OBVIOUS
<1>1. 0 \in T
  OBVIOUS
<1>2. ASSUME NEW n \in Nat, n \in T PROVE n + 1 \in T
  <2>1. n + 1 \notin S
    <3> SUFFICES ASSUME n + 1 \in S PROVE FALSE
      OBVIOUS
    <3>1. PICK y \in S : ~ (n + 1 <= y)
      OBVIOUS
    <3>2. y \in 0 .. n
      BY <3>1
    <3> QED BY <1>2, <3>2
  <2>2. \A m \in 0 .. n + 1 : m = n + 1 \/ m \in 0 .. n
    OBVIOUS
  <2> QED BY <1>2, <2>1, <2>2
<1>3. Nat \subseteq T
  <2> HIDE DEF T
  <2> QED BY <1>1, <1>2, NatSetInduction
<1>4. PICK x \in S : x \in Nat
  OBVIOUS
<1> QED BY <1>3, <1>4

LEMMA PassedIs ==
    ASSUME NEW order, NEW S, order \in Seq(S)
    PROVE  /\ Passed(order) \in 0 .. Len(order)
           /\ \A k \in 1 .. Passed(order) : ~Stops(program, order[k], Made(order, k - 1))
           /\ Passed(order) < Len(order) =>
                 Stops(program, order[Passed(order) + 1], Made(order, Passed(order)))
<1> DEFINE Bad == {k \in 1 .. Len(order) : Stops(program, order[k], Made(order, k - 1))}
           Good(n) == /\ \A k \in 1 .. n : ~Stops(program, order[k], Made(order, k - 1))
                      /\ n < Len(order) => Stops(program, order[n + 1], Made(order, n))
<1>1. Len(order) \in Nat
  OBVIOUS
<1>2. \E n \in 0 .. Len(order) : Good(n)
  <2>1. CASE Bad = {}
    <3>1. Good(Len(order)) BY <1>1, <2>1
    <3>2. Len(order) \in 0 .. Len(order) BY <1>1
    <3> HIDE DEF Good
    <3> QED BY <3>1, <3>2
  <2>2. CASE Bad # {}
    <3>1. Bad \subseteq Nat
      BY <1>1
    <3> HIDE DEF Bad
    <3>2. PICK x \in Bad : \A y \in Bad : x <= y
      BY <2>2, <3>1, LeastNat
    <3> USE DEF Bad
    <3> DEFINE n == x - 1
    <3>3. x \in 1 .. Len(order) /\ n \in 0 .. Len(order) /\ x = n + 1 /\ n \in Nat
      BY <1>1, <3>2
    <3>4. Stops(program, order[x], Made(order, x - 1))
      BY <3>2
    <3>5. Stops(program, order[n + 1], Made(order, n))
      BY <3>3, <3>4, Zenon
    <3>6. ASSUME NEW k \in 1 .. n PROVE ~Stops(program, order[k], Made(order, k - 1))
      <4>1. k \in 1 .. Len(order) /\ ~ (x <= k)
        BY <1>1, <3>3
      <4>2. k \notin Bad
        BY <3>2, <4>1
      <4> QED BY <4>1, <4>2
    <3> HIDE DEF n
    <3>7. Good(n)
      BY <3>5, <3>6
    <3> HIDE DEF Good
    <3> QED BY <3>3, <3>7
  <2> QED BY <2>1, <2>2
<1> HIDE DEF Good
<1>3. Passed(order) = CHOOSE n \in 0 .. Len(order) : Good(n)
  BY Zenon DEF Passed, Good
<1>4. Passed(order) \in 0 .. Len(order) /\ Good(Passed(order))
  BY <1>2, <1>3, Zenon
<1> QED BY <1>4 DEF Good

LEMMA MadeGrows ==
    ASSUME NEW order, NEW m \in Nat, NEW n \in Nat, m <= n
    PROVE  Made(order, m) \subseteq Made(order, n)
<1>1. 1 .. m \subseteq 1 .. n
  OBVIOUS
<1> QED BY <1>1, Zenon DEF Made

\* With more unions made, less stops a back end.
LEMMA StopsWithFewer ==
    ASSUME NEW loaded, NEW i, NEW made, NEW more, made \subseteq more, Stops(loaded, i, more)
    PROVE  Stops(loaded, i, made)
<1>1. \A t : UnionsOf(t) \subseteq made => UnionsOf(t) \subseteq more
  OBVIOUS
<1>2. generate_unions(loaded, i, made) => generate_unions(loaded, i, more)
  BY <1>1, Zenon DEF generate_unions
<1>3. Unmade(loaded, i, more) => Unmade(loaded, i, made)
  BY <1>1, <1>2, Zenon DEF Unmade
<1> QED BY <1>3, Zenon DEF Stops

------------------------------------------------------------------------------
\* What WholeInPython says of files.
WholeFiles(loaded, fs, order) ==
    \A i \in Range(order) :
       /\ SymbolOf(loaded[i]) \in DOMAIN fs /\ fs[SymbolOf(loaded[i])].classes # <<>>
       /\ UnionsMade(fs[SymbolOf(loaded[i])].classes, DOMAIN fs)

InPythonOf(loaded, home) == InOrder(loaded, home, <<"service", "enum", "struct", "union">>)

LEMMA WholeIs ==
    \A home : WholeInPython(home) <=> WholeFiles(program, files, InPythonOf(program, home))
BY Zenon DEF WholeInPython, Whole, WholeFiles, UnionsMade, InPython, InPythonOf

LEMMA InPythonIs ==
    ASSUME NEW loaded, Loaded(loaded), NEW home
    PROVE  /\ InPythonOf(loaded, home) \in Seq(DOMAIN loaded)
           /\ \A i : i \in Range(InPythonOf(loaded, home)) <=>
                        /\ i \in DOMAIN loaded /\ loaded[i].home = home
                        /\ loaded[i].kind \in {"service", "enum", "struct", "union"}
<1> DEFINE kinds == <<"service", "enum", "struct", "union">>
           S == {"service", "enum", "struct", "union"}
<1>1. kinds \in Seq(S) /\ Range(kinds) = S
  BY DEF Range
<1> HIDE DEF kinds, S
<1>2. /\ InOrder(loaded, home, kinds) \in Seq(DOMAIN loaded)
      /\ Range(InOrder(loaded, home, kinds)) =
            {i \in DOMAIN loaded : loaded[i].home = home /\ loaded[i].kind \in Range(kinds)}
  BY <1>1, InOrderIs
<1>3. InPythonOf(loaded, home) = InOrder(loaded, home, kinds)
  BY DEF InPythonOf, kinds
<1> QED BY <1>1, <1>2, <1>3, Zenon DEF S

------------------------------------------------------------------------------
\* A run of the Python back end tells.
LEMMA LeftIs ==
    ASSUME NEW order, NEW left \in Left(order)
    PROVE  \/ DOMAIN left = {}
           \/ LET s == SymbolOf(program[order[Passed(order) + 1]])
              IN  DOMAIN left = {s} /\ left[s].classes = <<>>
<1> DEFINE n == Passed(order)
           s == SymbolOf(program[order[n + 1]])
           types == TypesUsed(program, order[n + 1])
           cut == CutFile(program, types)
<1>1. left = <<>> \/ left = [path \in {s} |-> cut]
  BY Zenon DEF Left
<1>2. cut.classes = <<>>
  BY DEF CutFile, File
<1> HIDE DEF cut, s
<1>3. DOMAIN [path \in {s} |-> cut] = {s} /\ [path \in {s} |-> cut][s] = cut
  OBVIOUS
<1>4. DOMAIN <<>> = {}
  OBVIOUS
<1> QED BY <1>1, <1>2, <1>3, <1>4, Zenon DEF s

LEMMA PythonTells ==
    ASSUME Loaded(program), NEW home, GeneratePython(home)
    PROVE  /\ program' = program /\ last'.home = home /\ last'.backend = "py"
           /\ last'.code = "ok" => WholeFiles(program, files', InPythonOf(program, home))
           /\ last'.code = "thrown" => ~WholeFiles(program, files', InPythonOf(program, home))
<1> DEFINE order == InPython(home)
           n == Passed(order)
           passed == {order[k] : k \in 1 .. n}
           made == {SymbolOf(program[i]) : i \in passed}
           new == [path \in made |->
                     PythonFile(program, CHOOSE i \in passed : SymbolOf(program[i]) = path)]
<1>1. /\ \A file \in DOMAIN files : Front(file) # home
      /\ last' = Report("py", home, IF n = Len(order) THEN "ok" ELSE "thrown", <<>>)
      /\ program' = program
  BY Zenon DEF GeneratePython
<1>2. PICK left \in Left(order) : files' = files ++ new ++ left
  BY Zenon DEF GeneratePython
<1>3. /\ order \in Seq(DOMAIN program) /\ order = InPythonOf(program, home)
      /\ \A i : i \in Range(order) <=>
                   /\ i \in DOMAIN program /\ program[i].home = home
                   /\ program[i].kind \in {"service", "enum", "struct", "union"}
  <2>1. order = InPythonOf(program, home)
    BY DEF InPython, InPythonOf
  <2> HIDE DEF order
  <2> QED BY <2>1, InPythonIs, Zenon
<1> HIDE DEF order
<1>4. /\ n \in 0 .. Len(order)
      /\ \A k \in 1 .. n : ~Stops(program, order[k], Made(order, k - 1))
      /\ n < Len(order) => Stops(program, order[n + 1], Made(order, n))
  BY <1>3, PassedIs
<1>5. /\ Len(order) \in Nat /\ DOMAIN order = 1 .. Len(order)
      /\ \A k \in 1 .. Len(order) : order[k] \in Range(order)
      /\ \A i \in Range(order) : \E k \in 1 .. Len(order) : i = order[k]
  <2>1. Len(order) \in Nat /\ DOMAIN order = 1 .. Len(order)
    BY <1>3
  <2> QED BY <2>1, Zenon DEF Range
<1>6. ASSUME NEW i \in Range(order)
      PROVE  /\ program[i] \in Elements /\ i \in DOMAIN program
             /\ SymbolOf(program[i]) \notin DOMAIN files
  <2>1. i \in DOMAIN program /\ program[i].home = home
    BY <1>3
  <2>2. program[i] \in Elements
    BY <2>1 DEF Loaded
  <2>3. Front(SymbolOf(program[i])) = home
    BY <2>1, <2>2, SymbolParts
  <2> QED BY <1>1, <2>1, <2>2, <2>3, Zenon
<1>7. passed \subseteq Range(order)
  BY <1>4, <1>5
<1>8. DOMAIN files' = DOMAIN files \cup made \cup DOMAIN left
  <2>1. DOMAIN new = made
    OBVIOUS
  <2> HIDE DEF new, made
  <2> QED BY <1>2, <2>1 DEF ++
<1>9. ASSUME NEW i \in passed
      PROVE  /\ SymbolOf(program[i]) \in DOMAIN files'
             /\ files'[SymbolOf(program[i])] = PythonFile(program, i)
  <2> DEFINE s == SymbolOf(program[i])
             j == CHOOSE k \in passed : SymbolOf(program[k]) = s
  <2>1. s \in made /\ s \notin DOMAIN files
    BY <1>6, <1>7
  <2>2. j \in passed /\ SymbolOf(program[j]) = s
    <3>1. \E k \in passed : SymbolOf(program[k]) = s
      OBVIOUS
    <3> QED BY <3>1, Zenon
  <2>3. j = i
    <3>1. i \in DOMAIN program /\ j \in DOMAIN program
      BY <1>6, <1>7, <2>2
    <3> QED BY <2>2, <3>1, Zenon DEF Loaded
  <2>4. new[s] = PythonFile(program, i)
    <3>1. new[s] = PythonFile(program, j)
      BY <2>1, Zenon
    <3> QED BY <2>3, <3>1, Zenon
  <2> HIDE DEF made, j
  <2>5. DOMAIN new = made
    OBVIOUS
  <2> HIDE DEF new, s
  <2>6. files'[s] = new[s]
    BY <1>2, <2>1, <2>5 DEF ++
  <2> QED BY <1>8, <2>1, <2>4, <2>6, Zenon DEF s
<1>10. \A k \in 1 .. n : k - 1 \in Nat /\ n \in Nat /\ k - 1 <= n
  BY <1>4
<1>11. Made(order, n) \subseteq made
  BY Zenon DEF Made
<1>12. last'.code = "ok" => WholeFiles(program, files', order)
  <2> SUFFICES ASSUME last'.code = "ok" PROVE WholeFiles(program, files', order)
    OBVIOUS
  <2>1. n = Len(order)
    BY <1>1 DEF Report
  <2> SUFFICES ASSUME NEW i \in Range(order)
               PROVE  /\ SymbolOf(program[i]) \in DOMAIN files'
                      /\ files'[SymbolOf(program[i])].classes # <<>>
                      /\ UnionsMade(files'[SymbolOf(program[i])].classes, DOMAIN files')
    BY Zenon DEF WholeFiles
  <2>2. PICK k \in 1 .. n : i = order[k]
    BY <1>5, <2>1
  <2>3. ~Unmade(program, i, Made(order, k - 1))
    BY <1>4, <2>2, Zenon DEF Stops
  <2>4. Made(order, k - 1) \subseteq DOMAIN files'
    <3>1. Made(order, k - 1) \subseteq Made(order, n)
      <4> HIDE DEF n
      <4> QED BY <1>10, MadeGrows
    <3> QED BY <1>8, <1>11, <3>1, Zenon
  <2>5. i \in DOMAIN program /\ program[i].kind \in {"service", "enum", "struct", "union"}
    BY <1>3, Zenon
  <2>6. /\ PythonFile(program, i).classes # <<>>
        /\ UnionsMade(PythonFile(program, i).classes, Made(order, k - 1))
    BY <2>3, <2>5, PythonFileUses
  <2>7. i \in passed
    BY <2>2
  <2> QED BY <1>9, <2>4, <2>6, <2>7, Zenon DEF UnionsMade
<1>13. last'.code = "thrown" => ~WholeFiles(program, files', order)
  <2> SUFFICES ASSUME last'.code = "thrown", WholeFiles(program, files', order) PROVE FALSE
    OBVIOUS
  <2>1. n < Len(order)
    BY <1>1, <1>4, <1>5 DEF Report
  <2> DEFINE i == order[n + 1]
             s == SymbolOf(program[i])
  <2>2. i \in Range(order)
    BY <1>4, <1>5, <2>1
  <2>3. s \in DOMAIN files' /\ files'[s].classes # <<>>
    BY <2>2, Zenon DEF WholeFiles
  <2>4. Stops(program, i, Made(order, n))
    BY <1>4, <2>1
  <2>5. s \notin made
    <3> SUFFICES ASSUME s \in made PROVE FALSE
      OBVIOUS
    <3>1. PICK j \in passed : SymbolOf(program[j]) = s
      BY Zenon
    <3>2. i \in DOMAIN program /\ j \in DOMAIN program
      BY <1>6, <1>7, <2>2, <3>1
    <3>3. i = j
      BY <3>1, <3>2, Zenon DEF Loaded
    <3>4. PICK k \in 1 .. n : j = order[k]
      BY <3>1
    <3>5. ~Stops(program, j, Made(order, k - 1))
      BY <1>4, <3>4
    <3>6. Made(order, k - 1) \subseteq Made(order, n)
      <4> HIDE DEF n
      <4> QED BY <1>10, MadeGrows
    <3> HIDE DEF i, n
    <3>7. Stops(program, j, Made(order, n))
      BY <2>4, <3>3, Zenon
    <3> QED BY <3>5, <3>6, <3>7, StopsWithFewer, Zenon
  <2>6. s \notin DOMAIN files
    BY <1>6, <2>2, Zenon
  <2>7. DOMAIN left = {s} /\ left[s].classes = <<>>
    <3>1. DOMAIN left # {}
      BY <1>8, <2>3, <2>5, <2>6
    <3> QED BY <3>1, LeftIs, Zenon
  <2>8. DOMAIN new = made
    BY Zenon
  <2> HIDE DEF new, made, s
  <2>9. files'[s] = left[s]
    BY <1>2, <2>5, <2>6, <2>7, <2>8 DEF ++
  <2> QED BY <2>3, <2>7, <2>9, Zenon
<1>14. last'.home = home /\ last'.backend = "py"
  BY <1>1 DEF Report
<1> QED BY <1>1, <1>3, <1>12, <1>13, <1>14, Zenon

------------------------------------------------------------------------------
\* The command lines that no back end gets.
LEMMA FirstApplies ==
    ASSUME NEW checks, NEW n \in Nat, DOMAIN checks = 1 .. n
    PROVE  \/ FirstOf(checks) = {"go on"}
           \/ \E k \in 1 .. n : checks[k][1] /\ FirstOf(checks) = checks[k][2]
<1> DEFINE applies == {k \in DOMAIN checks : checks[k][1]}
<1>1. FirstOf(checks) = IF applies = {} THEN {"go on"} ELSE checks[Min(applies)][2]
  BY Zenon DEF FirstOf
<1> SUFFICES ASSUME applies # {}
             PROVE  \E k \in 1 .. n : checks[k][1] /\ FirstOf(checks) = checks[k][2]
  BY <1>1, Zenon
<1>2. applies \subseteq Nat
  <2>1. applies \subseteq 1 .. n
    BY Zenon
  <2> HIDE DEF applies
  <2> QED BY <2>1
<1>3. Min(applies) \in applies
  <2> HIDE DEF applies
  <2>1. \E x \in applies : \A y \in applies : x <= y
    BY <1>2, LeastNat
  <2>2. Min(applies) = CHOOSE x \in applies : \A y \in applies : x <= y
    BY DEF Min
  <2> QED BY <2>1, <2>2, Zenon
<1>4. Min(applies) \in 1 .. n /\ checks[Min(applies)][1]
  BY <1>3, Zenon
<1>5. FirstOf(checks) = checks[Min(applies)][2]
  BY <1>1, Zenon
<1> QED BY <1>4, <1>5, Zenon

LEMMA NothingWanted ==
    ASSUME NEW c \in Commands, Wanted(c) # "none"
    PROVE  "ok" \notin Outcomes(c) /\ "thrown" \notin Outcomes(c)
<1>1. /\ c.version \in BOOLEAN /\ c.wrong \in BOOLEAN /\ c.help \in BOOLEAN
      /\ c.details \in BOOLEAN /\ c.output \in BOOLEAN
  BY DEF Commands
<1>2. ~c.version /\ ~c.help /\ ~c.details /\ c.input = "file" /\ c.output
  BY Zenon DEF Wanted
<1>3. main(c) = {"go on"} \/ main(c) = {"refused"}
  <2> DEFINE m == << <<c.version, {"ok"}>>, <<c.wrong, {"refused"}>>, <<c.help, {"ok"}>>,
                     <<c.input = "none", {"refused"}>>, <<c.input = "missing", {"thrown"}>>,
                     <<c.input = "stdin", {"failed", "thrown"}>> >>
  <2>1. DOMAIN m = 1 .. 6 /\ 6 \in Nat
    OBVIOUS
  <2>2. main(c) = FirstOf(m)
    BY DEF main
  <2>3. ASSUME NEW k \in 1 .. 6, m[k][1] PROVE m[k][2] = {"refused"}
    <3>1. k = 1 \/ k = 2 \/ k = 3 \/ k = 4 \/ k = 5 \/ k = 6
      OBVIOUS
    <3>2. c.input # "missing" /\ c.input # "stdin" /\ c.input # "none"
      BY <1>2
    <3> QED BY <1>1, <1>2, <2>3, <3>1, <3>2
  <2> HIDE DEF m
  <2>4. FirstOf(m) = {"go on"} \/ \E k \in 1 .. 6 : m[k][1] /\ FirstOf(m) = m[k][2]
    BY <2>1, FirstApplies, Zenon
  <2> QED BY <2>2, <2>3, <2>4, Zenon
<1>4. run(c) = {"go on"} \/ run(c) = {"failed"}
  <2> DEFINE r == << <<c.details, {"ok"}>>, <<c.backend \notin DOMAIN backends, {"failed"}>>,
                     <<c.backend = "py" /\ ~c.output, {"thrown"}>> >>
  <2>1. DOMAIN r = 1 .. 3 /\ 3 \in Nat
    OBVIOUS
  <2>2. run(c) = FirstOf(r)
    BY DEF run
  <2>3. ASSUME NEW k \in 1 .. 3, r[k][1] PROVE r[k][2] = {"failed"}
    <3>1. k = 1 \/ k = 2 \/ k = 3
      OBVIOUS
    <3> QED BY <1>1, <1>2, <2>3, <3>1
  <2> HIDE DEF r
  <2>4. FirstOf(r) = {"go on"} \/ \E k \in 1 .. 3 : r[k][1] /\ FirstOf(r) = r[k][2]
    BY <2>1, FirstApplies, Zenon
  <2> QED BY <2>2, <2>3, <2>4, Zenon
<1>5. \/ Outcomes(c) = {"go on"} \/ Outcomes(c) = {"refused"} \/ Outcomes(c) = {"failed"}
  BY <1>3, <1>4, Zenon DEF Outcomes
<1> QED BY <1>5

LEMMA RefusalsTell ==
    ASSUME NEW refusal \in Refusals, refusal[2] = "ok" \/ refusal[2] = "thrown"
    PROVE  refusal[1] = "none"
<1>1. PICK c \in Commands : refusal \in {Wanted(c)} \X Outcomes(c)
  BY Zenon DEF Refusals
<1>2. refusal[1] = Wanted(c) /\ refusal[2] \in Outcomes(c)
  BY <1>1
<1> QED BY <1>2, NothingWanted, Zenon

------------------------------------------------------------------------------
\* Definition of elements.
LEMMA DefineLoads ==
    ASSUME Loaded(program), NEW elem \in Elements, Define(elem)
    PROVE  Loaded(program')
<1> DEFINE n == Len(program)
           new == Append(program, elem)
<1>1. /\ program' = new /\ SymbolOf(elem) \notin Symbols
      /\ elem.base # <<>> => \E i \in DOMAIN program :
                                /\ elem.base = <<SymbolOf(program[i])>>
                                /\ program[i].kind = BaseKind(elem.kind)
  BY Zenon DEF Define
<1>2. /\ program \in Seq(Elements) /\ n \in Nat /\ DOMAIN program = 1 .. n
  BY DEF Loaded
<1>3. /\ new \in Seq(Elements) /\ Len(new) = n + 1 /\ DOMAIN new = 1 .. n + 1
      /\ new[n + 1] = elem /\ \A i \in 1 .. n : new[i] = program[i]
  BY <1>2
<1> HIDE DEF new, n
<1>4. \A i \in 1 .. n + 1 : i = n + 1 \/ i \in 1 .. n
  BY <1>2
<1>5. ASSUME NEW i \in 1 .. n + 1, NEW j \in 1 .. n + 1, SymbolOf(new[i]) = SymbolOf(new[j])
      PROVE  i = j
  <2>1. \A k \in 1 .. n : SymbolOf(new[k]) \in Symbols
    BY <1>2, <1>3, Zenon DEF Symbols
  <2>2. SymbolOf(new[n + 1]) \notin Symbols
    BY <1>1, <1>3
  <2>3. CASE i \in 1 .. n /\ j \in 1 .. n
    BY <1>2, <1>3, <1>5, <2>3, Zenon DEF Loaded
  <2> QED BY <1>4, <1>5, <2>1, <2>2, <2>3, Zenon
<1>6. ASSUME NEW i \in 1 .. n + 1
      PROVE  new[i].base = <<>> \/ \E j \in 1 .. i - 1 : j \in Bases(new, i)
  <2>1. CASE i = n + 1
    <3> SUFFICES ASSUME elem.base # <<>> PROVE \E j \in 1 .. n : j \in Bases(new, n + 1)
      BY <1>2, <1>3, <2>1
    <3>1. PICK j \in 1 .. n : /\ elem.base = <<SymbolOf(program[j])>>
                              /\ program[j].kind = BaseKind(elem.kind)
      BY <1>1, <1>2, Zenon
    <3>2. j \in DOMAIN new /\ new[j] = program[j] /\ new[n + 1] = elem
      BY <1>2, <1>3
    <3>3. j \in Bases(new, n + 1)
      BY <3>1, <3>2, Zenon DEF Bases
    <3> QED BY <3>3
  <2>2. CASE i \in 1 .. n
    <3>1. new[i] = program[i]
      BY <1>3, <2>2
    <3>2. program[i].base = <<>> \/ \E j \in 1 .. i - 1 : j \in Bases(program, i)
      BY <1>2, <2>2 DEF Loaded
    <3>3. ASSUME NEW j \in 1 .. i - 1, j \in Bases(program, i) PROVE j \in Bases(new, i)
      <4>1. j \in DOMAIN new /\ new[j] = program[j]
        BY <1>2, <1>3, <2>2
      <4> QED BY <3>1, <3>3, <4>1, Zenon DEF Bases
    <3> QED BY <3>1, <3>2, <3>3, Zenon
  <2> QED BY <1>4, <2>1, <2>2, Zenon
<1> QED BY <1>1, <1>3, <1>5, <1>6, Zenon DEF Loaded

------------------------------------------------------------------------------
\* What an exit status tells.  What the last run left is told from the files it had to
\* write, so all there is to add is that elements are of different symbols and after
\* their bases.
StatusInv == Loaded(program) /\ StatusTells

\* The last run told nothing, or what it told follows from what it is.
LEMMA TellsOther ==
    ASSUME \/ last'.code \notin {"ok", "thrown"}
           \/ last'.backend = "none"
           \/ last'.backend = "js" /\ (last'.code = "thrown" => scripts'[last'.home] = {})
           \/ /\ last'.backend = "cpp"
              /\ last'.code = "ok" => headers'[last'.home] # {}
              /\ last'.code = "thrown" => headers'[last'.home] = {}
    PROVE  StatusTells'
BY DEF StatusTells

LEMMA TellsPython ==
    ASSUME program' = program, last'.backend = "py",
           last'.code = "ok" => WholeFiles(program, files', InPythonOf(program, last'.home)),
           last'.code = "thrown" => ~WholeFiles(program, files', InPythonOf(program, last'.home))
    PROVE  StatusTells'
<1>1. WholeInPython(last.home)' <=> WholeFiles(program, files', InPythonOf(program, last'.home))
  BY Zenon DEF WholeInPython, Whole, WholeFiles, UnionsMade, InPython, InPythonOf
<1> QED BY <1>1 DEF StatusTells

LEMMA QueryTells ==
    ASSUME Loaded(program), NEW home, NEW code, Query(home, code)
    PROVE  StatusTells'
<1>1. /\ program' = program /\ files' = files
      /\ last' = IF code = "go on" THEN Report("query", home, "ok", list_services(home))
                  ELSE Report("none", <<>>, code, <<>>)
  BY Zenon DEF Query, written
<1>2. CASE code # "go on"
  <2>1. last'.backend = "none"
    BY <1>1, <1>2 DEF Report
  <2> QED BY <2>1, TellsOther
<1>3. CASE code = "go on"
  <2>1. /\ last'.backend = "query" /\ last'.home = home /\ last'.code = "ok"
        /\ last'.printed = list_services(home)
    BY <1>1, <1>3 DEF Report
  <2>2. ASSUME WholeInPython(home), NEW name \in Range(list_services(home))
        PROVE  Append(home, name) \in DOMAIN files
    <3> DEFINE services == OfKind(program, home, "service")
    <3>1. PICK k \in DOMAIN services : name = program[services[k]].name
      BY Zenon DEF list_services, Range
    <3>2. services[k] \in Range(services)
      BY <3>1, Zenon DEF Range
    <3>3. Range(services) =
             {i \in DOMAIN program : program[i].home = home /\ program[i].kind = "service"}
      BY OfKindIs
    <3> DEFINE i == services[k]
    <3> HIDE DEF services
    <3>4. i \in DOMAIN program /\ program[i].home = home /\ program[i].kind = "service"
      BY <3>2, <3>3
    <3> HIDE DEF i
    <3>5. i \in Range(InPythonOf(program, home))
      BY <3>4, InPythonIs
    <3>6. SymbolOf(program[i]) \in DOMAIN files
      BY <2>2, <3>5, WholeIs, Zenon DEF WholeFiles
    <3>7. program[i] \in Elements
      BY <3>4 DEF Loaded
    <3>8. SymbolOf(program[i]) = Append(home, name)
      BY <3>1, <3>4, <3>7, SymbolParts, Zenon DEF i
    <3> QED BY <3>6, <3>8, Zenon
  <2>3. WholeInPython(last.home)' <=> WholeInPython(home)
    BY <1>1, <2>1, Zenon DEF WholeInPython, Whole, InPython
  <2>4. WholeInPython(last.home)' => {Append(last'.home, name) : name \in Range(last'.printed)}
                                        \subseteq DOMAIN files'
    BY <1>1, <2>1, <2>2, <2>3, Zenon
  <2> QED BY <2>1, <2>4 DEF StatusTells
<1> QED BY <1>2, <1>3

LEMMA StatusInit == Init => StatusInv
<1> SUFFICES ASSUME Init PROVE StatusInv
  OBVIOUS
<1>1. Loaded(program)
  BY DEF Init, Loaded
<1>2. last.code = "none"
  BY DEF Init, None, Report
<1>3. StatusTells
  BY <1>2 DEF StatusTells
<1> QED BY <1>1, <1>3 DEF StatusInv

LEMMA GenerateTells ==
    ASSUME Loaded(program), NEW home, NEW backend, Generate(home, backend)
    PROVE  program' = program /\ StatusTells'
<1>1. CASE GeneratePython(home)
  <2>1. /\ program' = program /\ last'.home = home /\ last'.backend = "py"
        /\ last'.code = "ok" => WholeFiles(program, files', InPythonOf(program, home))
        /\ last'.code = "thrown" => ~WholeFiles(program, files', InPythonOf(program, home))
    BY <1>1, PythonTells
  <2> QED BY <2>1, TellsPython, Zenon
<1>2. CASE GenerateJs(home)
  <2> DEFINE content == JsFile(program, home)
  <2>1. PICK ended \in Contents(home, <<"service", "struct", "enum", "union">>, content, FALSE) :
           /\ scripts' = scripts ++ [other \in {home} |-> ended[1]]
           /\ last' = Report("js", home, ended[2], <<>>)
           /\ home \notin DOMAIN scripts /\ program' = program
    BY <1>2, Zenon DEF GenerateJs
  <2>2. ended[2] = "thrown" => ended[1] = {}
    BY <2>1 DEF Contents
  <2>3. last'.backend = "js" /\ last'.home = home /\ last'.code = ended[2]
    BY <2>1 DEF Report
  <2>4. scripts'[home] = ended[1]
    BY <2>1 DEF ++
  <2> QED BY <2>1, <2>2, <2>3, <2>4, TellsOther
<1>3. CASE GenerateCpp(home)
  <2> DEFINE content == CppFile(program, home, Below(home))
  <2>1. PICK ended \in Contents(home, <<"service", "enum", "union", "struct">>, content, TRUE) :
           /\ headers' = headers ++ [other \in {home} |-> ended[1]]
           /\ last' = Report("cpp", home, ended[2], <<>>)
           /\ home \notin DOMAIN headers /\ program' = program
    BY <1>3, Zenon DEF GenerateCpp
  <2>2. ended = <<{}, "thrown">> \/ ended = <<{content}, "ok">>
    BY <2>1, Zenon DEF Contents
  <2>3. (ended[2] = "thrown" => ended[1] = {}) /\ (ended[2] = "ok" => ended[1] # {})
    BY <2>2
  <2>4. last'.backend = "cpp" /\ last'.home = home /\ last'.code = ended[2]
    BY <2>1 DEF Report
  <2>5. headers'[home] = ended[1]
    BY <2>1 DEF ++
  <2> QED BY <2>1, <2>3, <2>4, <2>5, TellsOther
<1> QED BY <1>1, <1>2, <1>3 DEF Generate

LEMMA StatusNext ==
    ASSUME StatusInv, [Next]_vars
    PROVE  StatusInv'
<1> USE DEF StatusInv
<1>1. ASSUME UNCHANGED <<program, files, scripts, headers, last>> PROVE StatusInv'
  <2>1. WholeInPython(last.home)' <=> WholeInPython(last.home)
    BY <1>1, Zenon DEF WholeInPython, Whole, InPython
  <2>2. StatusTells'
    BY <1>1, <2>1 DEF StatusTells
  <2> QED BY <1>1, <2>2
<1>2. ASSUME NEW elem \in Elements, Define(elem) PROVE StatusInv'
  <2>1. Loaded(program)'
    BY <1>2, DefineLoads
  <2>2. last'.code = "none"
    BY <1>2 DEF Define, Idle, None, Report
  <2> QED BY <2>1, <2>2, TellsOther
<1>3. ASSUME NEW home, NEW backend, Generate(home, backend) PROVE StatusInv'
  BY <1>3, GenerateTells
<1>4. ASSUME ToStdout PROVE StatusInv'
  <2>1. program' = program /\ last'.backend = "none"
    BY <1>4 DEF ToStdout, Report
  <2> QED BY <2>1, TellsOther
<1>5. ASSUME NEW refusal \in Refusals, Refuse(refusal[1], refusal[2]) PROVE StatusInv'
  <2>1. /\ program' = program /\ last'.backend = refusal[1] /\ last'.code = refusal[2]
    BY <1>5 DEF Refuse, Report
  <2>2. last'.code \notin {"ok", "thrown"} \/ last'.backend = "none"
    BY <2>1, RefusalsTell
  <2> QED BY <2>1, <2>2, TellsOther
<1>6. ASSUME NEW home, NEW code, Query(home, code) PROVE StatusInv'
  <2>1. program' = program
    BY <1>6 DEF Query
  <2> QED BY <1>6, <2>1, QueryTells
<1>7. ASSUME Wait PROVE StatusInv'
  <2>1. program' = program /\ last'.code = "none"
    BY <1>7 DEF Wait, None, Report
  <2> QED BY <2>1, TellsOther
<1>8. ASSUME NEW path, Attempt(path) PROVE StatusInv'
  BY <1>1, <1>8 DEF Attempt, written
<1>9. CASE Import BY <1>1, <1>9, Zenon DEF Import, written
<1>10. CASE DefineClass BY <1>1, <1>10, Zenon DEF DefineClass, written
<1>11. CASE Return BY <1>1, <1>11 DEF Return, written
<1>12. CASE UNCHANGED vars BY <1>1, <1>12 DEF vars
<1> QED BY <1>2, <1>3, <1>4, <1>5, <1>6, <1>7, <1>8, <1>9, <1>10, <1>11, <1>12, Zenon DEF Next

\* For all elements, numbers of them and orders of runs: a run of lidlc that was to write
\* Python or C++ ends with 0 only when all of it is written and what a Python file names of
\* a service is in a file, and with an exception only when something is missing; what lidlq
\* lists has its file.
THEOREM ExitStatusTells == Spec => []StatusTells
<1>1. Spec => []StatusInv
  BY StatusInit, StatusNext, PTL DEF Spec
<1>2. StatusInv => StatusTells
  BY DEF StatusInv
<1> QED BY <1>1, <1>2, PTL

------------------------------------------------------------------------------
\* Inheritance lists, one element more at a time.
Roots(loaded, i, list) == Chain(loaded, i, list) /\ loaded[list[1]].base = <<>>

LEMMA ChainWithin ==
    ASSUME NEW loaded, Loaded(loaded), NEW i \in DOMAIN loaded,
           NEW a, Roots(loaded, i, a), NEW b, Roots(loaded, i, b)
    PROVE  /\ Len(a) <= Len(b)
           /\ \A m \in 0 .. Len(a) - 1 : a[Len(a) - m] = b[Len(b) - m]
<1> DEFINE T == {m \in Nat : m < Len(a) => m < Len(b) /\ a[Len(a) - m] = b[Len(b) - m]}
<1>1. /\ a \in Seq(DOMAIN loaded) /\ Len(a) \in Nat /\ Len(a) >= 1 /\ a[Len(a)] = i
      /\ b \in Seq(DOMAIN loaded) /\ Len(b) \in Nat /\ Len(b) >= 1 /\ b[Len(b)] = i
      /\ \A n \in 1 .. Len(a) - 1 : a[n] \in Bases(loaded, a[n + 1])
      /\ \A n \in 1 .. Len(b) - 1 : b[n] \in Bases(loaded, b[n + 1])
      /\ loaded[b[1]].base = <<>>
  BY DEF Roots, Chain
<1>2. 0 \in T
  BY <1>1
<1>3. ASSUME NEW m \in Nat, m \in T PROVE m + 1 \in T
  <2> SUFFICES ASSUME m + 1 < Len(a)
               PROVE  m + 1 < Len(b) /\ a[Len(a) - (m + 1)] = b[Len(b) - (m + 1)]
    OBVIOUS
  <2> DEFINE n == Len(a) - (m + 1)
             k == Len(b) - (m + 1)
  <2>1. m < Len(b) /\ a[Len(a) - m] = b[Len(b) - m]
    BY <1>1, <1>3
  <2>2. /\ n \in 1 .. Len(a) - 1 /\ n + 1 = Len(a) - m /\ k \in 0 .. Len(b) - 1 /\ k + 1 = Len(b) - m
        /\ (k # 0 => m + 1 < Len(b))
    BY <1>1, <2>1
  <2> HIDE DEF n, k
  <2>3. a[n] \in Bases(loaded, a[n + 1]) /\ a[n + 1] = b[k + 1]
    BY <1>1, <2>1, <2>2
  <2>4. k # 0
    <3> SUFFICES ASSUME k = 0 PROVE FALSE
      OBVIOUS
    <3>1. b[k + 1] = b[1] /\ b[1] \in DOMAIN loaded
      BY <1>1
    <3>2. Bases(loaded, b[1]) = {}
      BY <1>1, <3>1, BasesBefore
    <3> QED BY <2>3, <3>1, <3>2
  <2>5. k \in 1 .. Len(b) - 1 /\ b[k + 1] \in DOMAIN loaded
    BY <1>1, <2>2, <2>4
  <2>6. a[n] = b[k]
    <3>1. b[k] \in Bases(loaded, b[k + 1])
      BY <1>1, <2>5
    <3> QED BY <2>3, <2>5, <3>1, BasesBefore
  <2>7. m + 1 < Len(b)
    BY <2>2, <2>4
  <2> QED BY <2>6, <2>7 DEF n, k
<1>4. Nat \subseteq T
  <2> HIDE DEF T
  <2> QED BY <1>2, <1>3, NatSetInduction
<1>5. Len(a) \in Nat /\ Len(a) >= 1 /\ Len(b) \in Nat
  BY <1>1
<1>6. ASSUME NEW m \in 0 .. Len(a) - 1
      PROVE  m < Len(b) /\ a[Len(a) - m] = b[Len(b) - m]
  <2>1. m \in Nat /\ m < Len(a)
    BY <1>5
  <2>2. m \in T
    <3> HIDE DEF T
    <3> QED BY <1>4, <2>1
  <2> QED BY <2>1, <2>2
<1> HIDE DEF T
<1>7. Len(a) - 1 < Len(b)
  <2>1. Len(a) - 1 \in 0 .. Len(a) - 1
    BY <1>5
  <2> QED BY <1>6, <2>1
<1>8. Len(a) <= Len(b)
  BY <1>5, <1>7
<1> QED BY <1>6, <1>8

LEMMA ChainUnique ==
    ASSUME NEW loaded, Loaded(loaded), NEW i \in DOMAIN loaded,
           NEW a, Roots(loaded, i, a), NEW b, Roots(loaded, i, b)
    PROVE  a = b
<1>1. a \in Seq(DOMAIN loaded) /\ Len(a) \in Nat /\ b \in Seq(DOMAIN loaded) /\ Len(b) \in Nat
  BY DEF Roots, Chain
<1>2. Len(a) <= Len(b) /\ Len(b) <= Len(a)
  BY ChainWithin
<1>3. \A m \in 0 .. Len(a) - 1 : a[Len(a) - m] = b[Len(b) - m]
  BY ChainWithin
<1>4. Len(a) = Len(b)
  BY <1>1, <1>2
<1>5. ASSUME NEW n \in 1 .. Len(a) PROVE a[n] = b[n]
  <2>1. Len(a) - n \in 0 .. Len(a) - 1 /\ Len(a) - (Len(a) - n) = n
    BY <1>1
  <2> QED BY <1>3, <1>4, <2>1
<1> QED BY <1>1, <1>4, <1>5, SeqEqual

LEMMA ListOfRoot ==
    ASSUME NEW loaded, Loaded(loaded), NEW i \in DOMAIN loaded, loaded[i].base = <<>>
    PROVE  inheritance_list(loaded, i) = <<i>>
<1>1. Roots(loaded, i, inheritance_list(loaded, i))
  BY InheritanceChain DEF Roots
<1>2. Roots(loaded, i, <<i>>)
  <2>1. <<i>> \in Seq(DOMAIN loaded) /\ Len(<<i>>) = 1 /\ <<i>>[1] = i
    OBVIOUS
  <2> QED BY <2>1 DEF Roots, Chain
<1> QED BY <1>1, <1>2, ChainUnique

LEMMA ListOfDerived ==
    ASSUME NEW loaded, Loaded(loaded), NEW i \in DOMAIN loaded, NEW j \in Bases(loaded, i)
    PROVE  inheritance_list(loaded, i) = Append(inheritance_list(loaded, j), i)
<1> DEFINE list == inheritance_list(loaded, j)
           all == Append(list, i)
<1>1. j \in DOMAIN loaded
  BY BasesBefore
<1>2. Roots(loaded, i, inheritance_list(loaded, i)) /\ Roots(loaded, j, list)
  BY <1>1, InheritanceChain DEF Roots
<1> HIDE DEF list
<1>3. /\ list \in Seq(DOMAIN loaded) /\ Len(list) \in Nat /\ Len(list) >= 1 /\ list[Len(list)] = j
      /\ \A n \in 1 .. Len(list) - 1 : list[n] \in Bases(loaded, list[n + 1])
      /\ loaded[list[1]].base = <<>>
  BY <1>2 DEF Roots, Chain
<1>4. /\ all \in Seq(DOMAIN loaded) /\ Len(all) = Len(list) + 1 /\ all[Len(all)] = i
      /\ \A n \in 1 .. Len(list) : all[n] = list[n]
  BY <1>3
<1> HIDE DEF all
<1>5. ASSUME NEW n \in 1 .. Len(all) - 1 PROVE all[n] \in Bases(loaded, all[n + 1])
  <2>1. CASE n = Len(list)
    BY <1>3, <1>4, <2>1
  <2>2. CASE n # Len(list)
    <3>1. n \in 1 .. Len(list) - 1 /\ n \in 1 .. Len(list) /\ n + 1 \in 1 .. Len(list)
      BY <1>3, <1>4, <2>2
    <3> QED BY <1>3, <1>4, <3>1
  <2> QED BY <2>1, <2>2
<1>6. all[1] = list[1]
  BY <1>3, <1>4
<1>7. Roots(loaded, i, all)
  BY <1>3, <1>4, <1>5, <1>6 DEF Roots, Chain
<1>8. inheritance_list(loaded, i) = all
  BY <1>2, <1>7, ChainUnique
<1> QED BY <1>8, Zenon DEF all, list

\* What is put together along an inheritance list: what part says of each of its elements.
Along(part, list) == FlattenSeq([n \in DOMAIN list |-> part[list[n]]])
Parts(D, S) == [D -> Seq(S)]

LEMMA AlongOne ==
    ASSUME NEW S, NEW D, NEW part \in Parts(D, S), NEW i \in D
    PROVE  Along(part, <<i>>) = part[i]
<1> USE DEF Parts
<1> DEFINE sq == [n \in DOMAIN <<i>> |-> part[<<i>>[n]]]
<1>1. sq = Append(<<>>, part[i])
  OBVIOUS
<1>2. FlattenSeq(Append(<<>>, part[i])) = FlattenSeq(<<>>) \o part[i]
  <2>1. <<>> \in Seq(Seq(S)) /\ part[i] \in Seq(S)
    OBVIOUS
  <2> QED BY <2>1, FlattenAppend
<1>3. part[i] \in Seq(S) /\ <<>> \o part[i] = part[i]
  BY ConcatEmptySeq
<1> QED BY <1>1, <1>2, <1>3, FlattenEmpty, Zenon DEF Along

LEMMA AlongAppend ==
    ASSUME NEW S, NEW D, NEW part \in Parts(D, S), NEW list \in Seq(D), NEW i \in D
    PROVE  /\ Along(part, list) \in Seq(S)
           /\ Along(part, Append(list, i)) = Along(part, list) \o part[i]
<1> USE DEF Parts
<1> DEFINE sq == [n \in DOMAIN list |-> part[list[n]]]
           all == [n \in DOMAIN Append(list, i) |-> part[Append(list, i)[n]]]
<1>1. /\ Len(list) \in Nat /\ DOMAIN list = 1 .. Len(list) /\ part[i] \in Seq(S)
      /\ \A n \in 1 .. Len(list) : list[n] \in D /\ part[list[n]] \in Seq(S)
  OBVIOUS
<1>2. sq \in Seq(Seq(S)) /\ Len(sq) = Len(list)
  BY <1>1
<1>3. all = Append(sq, part[i])
  <2>1. DOMAIN Append(list, i) = 1 .. Len(list) + 1
    BY <1>1
  <2>2. /\ Append(sq, part[i]) \in Seq(Seq(S)) /\ Len(Append(sq, part[i])) = Len(list) + 1
        /\ Append(sq, part[i])[Len(list) + 1] = part[i]
        /\ \A n \in 1 .. Len(list) : Append(sq, part[i])[n] = part[list[n]]
    BY <1>1, <1>2
  <2>3. Append(list, i)[Len(list) + 1] = i /\ \A n \in 1 .. Len(list) : Append(list, i)[n] = list[n]
    BY <1>1
  <2>4. all \in Seq(Seq(S)) /\ Len(all) = Len(list) + 1
    BY <1>1, <2>1, <2>3
  <2>5. ASSUME NEW n \in 1 .. Len(list) + 1 PROVE all[n] = Append(sq, part[i])[n]
    <3>1. n = Len(list) + 1 \/ n \in 1 .. Len(list)
      BY <1>1
    <3> QED BY <2>1, <2>2, <2>3, <3>1
  <2> HIDE DEF all, sq
  <2> QED BY <2>2, <2>4, <2>5, SeqEqual
<1> HIDE DEF sq, all
<1>4. FlattenSeq(sq) \in Seq(S) /\ FlattenSeq(Append(sq, part[i])) = FlattenSeq(sq) \o part[i]
  BY <1>1, <1>2, FlattenType, FlattenAppend
<1>5. Along(part, list) = FlattenSeq(sq) /\ Along(part, Append(list, i)) = FlattenSeq(all)
  BY Zenon DEF Along, sq, all
<1> QED BY <1>3, <1>4, <1>5

\* The members of an element, what they are numbered, and which procedures they are.
Own(loaded) == [j \in DOMAIN loaded |-> loaded[j].members]

OwnNumbers(loaded) ==
    [j \in DOMAIN loaded |->
       [k \in DOMAIN loaded[j].members |->
          [name |-> loaded[j].members[k].name,
           value |-> Len(all_members(loaded, j)) - Len(loaded[j].members) + k - 1]]]

OwnProcs(loaded) ==
    [j \in DOMAIN loaded |-> [k \in DOMAIN loaded[j].members |-> <<j, k>>]]

MembersOf(loaded) == UNION {Range(loaded[j].members) : j \in DOMAIN loaded}
Numbering(loaded) == [name : {m.name : m \in MembersOf(loaded)}, value : Int]
ProcsOf(loaded) == (DOMAIN loaded) \X Nat

LEMMA AlongInherits ==
    ASSUME NEW loaded, Loaded(loaded), NEW i \in DOMAIN loaded,
           NEW S, NEW part \in Parts(DOMAIN loaded, S)
    PROVE  /\ Along(part, inheritance_list(loaded, i)) \in Seq(S)
           /\ loaded[i].base = <<>> => Along(part, inheritance_list(loaded, i)) = part[i]
           /\ \A j \in Bases(loaded, i) :
                 Along(part, inheritance_list(loaded, i))
                 = Along(part, inheritance_list(loaded, j)) \o part[i]
<1>1. \A j \in DOMAIN loaded : inheritance_list(loaded, j) \in Seq(DOMAIN loaded)
  BY InheritanceChain DEF Chain
<1>2. Along(part, inheritance_list(loaded, i)) \in Seq(S)
  BY <1>1, AlongAppend
<1>3. ASSUME loaded[i].base = <<>>
      PROVE  Along(part, inheritance_list(loaded, i)) = part[i]
  BY <1>3, ListOfRoot, AlongOne
<1>4. ASSUME NEW j \in Bases(loaded, i)
      PROVE  Along(part, inheritance_list(loaded, i))
             = Along(part, inheritance_list(loaded, j)) \o part[i]
  <2>1. j \in DOMAIN loaded
    BY BasesBefore
  <2>2. inheritance_list(loaded, i) = Append(inheritance_list(loaded, j), i)
    BY ListOfDerived
  <2>3. inheritance_list(loaded, j) \in Seq(DOMAIN loaded)
    BY <1>1, <2>1
  <2>4. Along(part, Append(inheritance_list(loaded, j), i))
        = Along(part, inheritance_list(loaded, j)) \o part[i]
    BY <2>3, AlongAppend
  <2> QED BY <2>2, <2>4, Zenon
<1> QED BY <1>2, <1>3, <1>4

LEMMA MembersAlong ==
    ASSUME NEW loaded, Loaded(loaded)
    PROVE  /\ Own(loaded) \in Parts(DOMAIN loaded, MembersOf(loaded))
           /\ \A i \in DOMAIN loaded :
                 all_members(loaded, i) = Along(Own(loaded), inheritance_list(loaded, i))
<1>1. ASSUME NEW j \in DOMAIN loaded PROVE loaded[j].members \in Seq(MembersOf(loaded))
  <2>1. loaded[j] \in Elements
    BY DEF Loaded
  <2>2. loaded[j].members \in Seq(Range(loaded[j].members))
    BY <2>1, LidlcAssumption
  <2>3. Range(loaded[j].members) \subseteq MembersOf(loaded)
    BY Zenon DEF MembersOf
  <2> QED BY <2>2, <2>3, SeqMonotonic
<1>2. Own(loaded) \in Parts(DOMAIN loaded, MembersOf(loaded))
  BY <1>1 DEF Own, Parts
<1>3. ASSUME NEW i \in DOMAIN loaded
      PROVE  all_members(loaded, i) = Along(Own(loaded), inheritance_list(loaded, i))
  <2> DEFINE list == inheritance_list(loaded, i)
  <2>1. list \in Seq(DOMAIN loaded)
    BY InheritanceChain DEF Chain
  <2>2. all_members(loaded, i) = FlattenSeq([n \in DOMAIN list |-> loaded[list[n]].members])
    BY Zenon DEF all_members
  <2> HIDE DEF list
  <2>3. \A n \in DOMAIN list : loaded[list[n]].members = Own(loaded)[list[n]]
    BY <2>1 DEF Own
  <2>4. [n \in DOMAIN list |-> loaded[list[n]].members]
        = [n \in DOMAIN list |-> Own(loaded)[list[n]]]
    BY <2>3
  <2> QED BY <2>2, <2>4, Zenon DEF Along, list
<1> QED BY <1>2, <1>3

LEMMA MembersTyped ==
    ASSUME NEW loaded, Loaded(loaded), NEW i \in DOMAIN loaded
    PROVE  /\ all_members(loaded, i) \in Seq(MembersOf(loaded))
           /\ loaded[i].members \in Seq(MembersOf(loaded))
           /\ DOMAIN loaded[i].members = 1 .. Len(loaded[i].members)
           /\ Len(all_members(loaded, i)) \in Nat /\ Len(loaded[i].members) \in Nat
<1>1. all_members(loaded, i) \in Seq(MembersOf(loaded))
  BY MembersAlong, AlongInherits
<1>2. loaded[i].members \in Seq(MembersOf(loaded))
  <2>1. Own(loaded)[i] \in Seq(MembersOf(loaded)) /\ Own(loaded)[i] = loaded[i].members
    BY MembersAlong DEF Own, Parts
  <2> QED BY <2>1
<1> QED BY <1>1, <1>2, LenProperties

LEMMA NumbersAlong ==
    ASSUME NEW loaded, Loaded(loaded)
    PROVE  /\ OwnNumbers(loaded) \in Parts(DOMAIN loaded, Numbering(loaded))
           /\ \A i \in DOMAIN loaded :
                 Numbered(loaded, i) = Along(OwnNumbers(loaded), inheritance_list(loaded, i))
<1>1. ASSUME NEW j \in DOMAIN loaded PROVE OwnNumbers(loaded)[j] \in Seq(Numbering(loaded))
  <2> DEFINE own == loaded[j].members
             all == Len(all_members(loaded, j))
             numbers == [k \in DOMAIN own |-> [name |-> own[k].name, value |-> all - Len(own) + k - 1]]
  <2>1. own \in Seq(MembersOf(loaded)) /\ DOMAIN own = 1 .. Len(own) /\ Len(own) \in Nat /\ all \in Nat
    BY MembersTyped
  <2>2. OwnNumbers(loaded)[j] = numbers
    BY DEF OwnNumbers
  <2> HIDE DEF own, all
  <2>3. ASSUME NEW k \in 1 .. Len(own) PROVE numbers[k] \in Numbering(loaded)
    <3>1. own[k] \in MembersOf(loaded) /\ all - Len(own) + k - 1 \in Int
      BY <2>1
    <3>2. own[k].name \in {m.name : m \in MembersOf(loaded)}
      BY <3>1
    <3> QED BY <2>1, <3>1, <3>2 DEF Numbering
  <2>4. numbers \in [1 .. Len(own) -> Numbering(loaded)]
    BY <2>1, <2>3
  <2> HIDE DEF numbers
  <2> QED BY <2>1, <2>2, <2>4, IsASeq
<1>2. OwnNumbers(loaded) \in Parts(DOMAIN loaded, Numbering(loaded))
  <2>1. OwnNumbers(loaded) = [j \in DOMAIN loaded |-> OwnNumbers(loaded)[j]]
    BY DEF OwnNumbers
  <2> QED BY <1>1, <2>1 DEF Parts
<1>3. ASSUME NEW i \in DOMAIN loaded
      PROVE  Numbered(loaded, i) = Along(OwnNumbers(loaded), inheritance_list(loaded, i))
  <2> DEFINE list == inheritance_list(loaded, i)
             numbers(n) == [k \in DOMAIN loaded[list[n]].members |->
                              [name |-> loaded[list[n]].members[k].name,
                               value |-> Len(all_members(loaded, list[n]))
                                         - Len(loaded[list[n]].members) + k - 1]]
  <2>1. list \in Seq(DOMAIN loaded)
    BY InheritanceChain DEF Chain
  <2>2. Numbered(loaded, i) = FlattenSeq([n \in DOMAIN list |-> numbers(n)])
    BY Zenon DEF Numbered
  <2>3. \A n \in DOMAIN list : numbers(n) = OwnNumbers(loaded)[list[n]]
    <3> HIDE DEF list
    <3> QED BY <2>1, Zenon, ElementOfSeq, LenProperties DEF OwnNumbers
  <2> HIDE DEF list, numbers
  <2>4. [n \in DOMAIN list |-> numbers(n)] = [n \in DOMAIN list |-> OwnNumbers(loaded)[list[n]]]
    BY <2>3
  <2> QED BY <2>2, <2>4, Zenon DEF Along, list
<1> QED BY <1>2, <1>3

LEMMA ProcsAlong ==
    ASSUME NEW loaded, Loaded(loaded)
    PROVE  /\ OwnProcs(loaded) \in Parts(DOMAIN loaded, ProcsOf(loaded))
           /\ \A i \in DOMAIN loaded :
                 all_procedures(loaded, i) = Along(OwnProcs(loaded), inheritance_list(loaded, i))
<1>1. ASSUME NEW j \in DOMAIN loaded PROVE OwnProcs(loaded)[j] \in Seq(ProcsOf(loaded))
  <2> DEFINE own == loaded[j].members
  <2>1. DOMAIN own = 1 .. Len(own) /\ Len(own) \in Nat
    BY MembersTyped
  <2>2. OwnProcs(loaded)[j] = [k \in DOMAIN own |-> <<j, k>>]
    BY DEF OwnProcs
  <2> HIDE DEF own
  <2>3. ASSUME NEW k \in 1 .. Len(own) PROVE <<j, k>> \in ProcsOf(loaded)
    <3>1. k \in Nat /\ j \in DOMAIN loaded
      BY <2>1
    <3> QED BY <3>1 DEF ProcsOf
  <2>4. OwnProcs(loaded)[j] \in [1 .. Len(own) -> ProcsOf(loaded)]
    BY <2>1, <2>2, <2>3
  <2> QED BY <2>1, <2>4, IsASeq
<1>2. OwnProcs(loaded) \in Parts(DOMAIN loaded, ProcsOf(loaded))
  <2>1. OwnProcs(loaded) = [j \in DOMAIN loaded |-> OwnProcs(loaded)[j]]
    BY DEF OwnProcs
  <2> QED BY <1>1, <2>1 DEF Parts
<1>3. ASSUME NEW i \in DOMAIN loaded
      PROVE  all_procedures(loaded, i) = Along(OwnProcs(loaded), inheritance_list(loaded, i))
  <2> DEFINE list == inheritance_list(loaded, i)
             procs(n) == [k \in DOMAIN loaded[list[n]].members |-> <<list[n], k>>]
  <2>1. list \in Seq(DOMAIN loaded)
    BY InheritanceChain DEF Chain
  <2>2. all_procedures(loaded, i) = FlattenSeq([n \in DOMAIN list |-> procs(n)])
    BY Zenon DEF all_procedures
  <2>3. \A n \in DOMAIN list : procs(n) = OwnProcs(loaded)[list[n]]
    <3> HIDE DEF list
    <3> QED BY <2>1, Zenon, ElementOfSeq, LenProperties DEF OwnProcs
  <2> HIDE DEF list, procs
  <2>4. [n \in DOMAIN list |-> procs(n)] = [n \in DOMAIN list |-> OwnProcs(loaded)[list[n]]]
    BY <2>3
  <2> QED BY <2>2, <2>4, Zenon DEF Along, list
<1> QED BY <1>2, <1>3

\* Numbers are counted from zero, each for the member that is next, inherited or own.
Counted(loaded, members, numbers, procs, below) ==
    /\ Len(numbers) = Len(members) /\ Len(procs) = Len(members)
    /\ \A k \in 1 .. Len(members) :
          /\ procs[k][1] < below
          /\ numbers[k] = [name |-> loaded[procs[k][1]].members[procs[k][2]].name,
                           value |-> k - 1]
    /\ \A k, m \in 1 .. Len(members) : procs[k] = procs[m] => k = m

IsConcat(all, s, t) ==
    /\ Len(all) = Len(s) + Len(t)
    /\ \A k \in 1 .. Len(s) : all[k] = s[k]
    /\ \A k \in 1 .. Len(t) : all[Len(s) + k] = t[k]

LEMMA ConcatAt ==
    ASSUME NEW S, NEW s \in Seq(S), NEW t \in Seq(S)
    PROVE  IsConcat(s \o t, s, t)
BY ConcatProperties DEF IsConcat

LEMMA CountingOn ==
    ASSUME NEW loaded, NEW M, NEW R, NEW i \in Nat, NEW D \in SUBSET Nat, i \in D,
           NEW A \in Seq(M), NEW N \in Seq(R), NEW Q \in Seq(D \X Nat),
           Counted(loaded, A, N, Q, i),
           NEW own \in Seq(M), own = loaded[i].members,
           NEW num \in Seq(R), NEW procs \in Seq(D \X Nat),
           Len(num) = Len(own), Len(procs) = Len(own),
           \A k \in 1 .. Len(own) :
              /\ procs[k] = <<i, k>>
              /\ num[k] = [name |-> own[k].name, value |-> Len(A \o own) - Len(own) + k - 1]
    PROVE  Counted(loaded, A \o own, N \o num, Q \o procs, i + 1)
<1> DEFINE AA == A \o own
           NN == N \o num
           QQ == Q \o procs
           a == Len(A)
           o == Len(own)
<1>1. /\ a \in Nat /\ o \in Nat /\ Len(N) = a /\ Len(Q) = a /\ Len(num) = o /\ Len(procs) = o
  BY DEF Counted
<1>2. /\ Len(AA) = a + o /\ Len(NN) = a + o /\ Len(QQ) = a + o
      /\ \A k \in 1 .. a : NN[k] = N[k] /\ QQ[k] = Q[k]
      /\ \A k \in 1 .. o : NN[a + k] = num[k] /\ QQ[a + k] = procs[k]
  <2>1. IsConcat(AA, A, own) /\ IsConcat(NN, N, num) /\ IsConcat(QQ, Q, procs)
    BY ConcatAt
  <2> HIDE DEF AA, NN, QQ
  <2> QED BY <1>1, <2>1 DEF IsConcat
<1>3. \A k \in 1 .. a + o : k \in 1 .. a \/ \E m \in 1 .. o : k = a + m
  <2> SUFFICES ASSUME NEW k \in 1 .. a + o, k \notin 1 .. a PROVE \E m \in 1 .. o : k = a + m
    OBVIOUS
  <2> HIDE DEF a, o
  <2>1. k - a \in 1 .. o /\ k = a + (k - a)
    BY <1>1
  <2> QED BY <2>1
<1>4. \A k \in 1 .. o : num[k] = [name |-> own[k].name, value |-> a + k - 1]
  <2> SUFFICES ASSUME NEW k \in 1 .. o
               PROVE  num[k] = [name |-> own[k].name, value |-> a + k - 1]
    OBVIOUS
  <2>1. Len(A \o own) - Len(own) + k - 1 = a + k - 1
    BY <1>1, <1>2
  <2> QED BY <2>1
<1>5. \A k \in 1 .. a : Q[k][1] \in Nat /\ Q[k][1] < i
  <2> SUFFICES ASSUME NEW k \in 1 .. a PROVE Q[k][1] \in Nat /\ Q[k][1] < i
    OBVIOUS
  <2>1. Q[k] \in D \X Nat
    BY <1>1
  <2> QED BY <2>1 DEF Counted
<1>6. \A k \in 1 .. o : procs[k] = <<i, k>> /\ own[k] = loaded[i].members[k]
  OBVIOUS
<1>7. /\ \A k \in 1 .. a : N[k] = [name |-> loaded[Q[k][1]].members[Q[k][2]].name, value |-> k - 1]
      /\ \A k, m \in 1 .. a : Q[k] = Q[m] => k = m
  BY Zenon DEF Counted
<1> HIDE DEF AA, NN, QQ, a, o
<1>8. ASSUME NEW k \in 1 .. a + o
      PROVE  /\ QQ[k][1] < i + 1
             /\ NN[k] = [name |-> loaded[QQ[k][1]].members[QQ[k][2]].name, value |-> k - 1]
  <2>1. CASE k \in 1 .. a
    <3>1. NN[k] = N[k] /\ QQ[k] = Q[k] /\ QQ[k][1] < i + 1
      BY <1>2, <1>5, <2>1
    <3> QED BY <1>7, <2>1, <3>1, Zenon
  <2>2. ASSUME NEW m \in 1 .. o, k = a + m
        PROVE  /\ QQ[k][1] < i + 1
               /\ NN[k] = [name |-> loaded[QQ[k][1]].members[QQ[k][2]].name, value |-> k - 1]
    <3>1. NN[k] = num[m] /\ QQ[k] = procs[m]
      BY <1>2, <2>2
    <3>2. QQ[k][1] = i /\ QQ[k][2] = m
      BY <1>6, <3>1
    <3>3. NN[k] = [name |-> loaded[i].members[m].name, value |-> k - 1]
      <4>1. num[m] = [name |-> own[m].name, value |-> a + m - 1]
        BY <1>4
      <4>2. own[m] = loaded[i].members[m]
        BY <1>6
      <4>3. k - 1 = a + m - 1
        BY <1>1, <2>2
      <4> QED BY <3>1, <4>1, <4>2, <4>3, Zenon
    <3> QED BY <3>2, <3>3
  <2> QED BY <1>3, <2>1, <2>2
<1>9. ASSUME NEW k \in 1 .. a + o, NEW m \in 1 .. a + o, QQ[k] = QQ[m] PROVE k = m
  <2>1. CASE k \in 1 .. a /\ m \in 1 .. a
    <3>1. Q[k] = Q[m]
      BY <1>2, <1>9, <2>1
    <3> QED BY <1>7, <2>1, <3>1
  <2>2. ASSUME NEW x \in 1 .. a, NEW y \in 1 .. o, QQ[x] = QQ[a + y] PROVE FALSE
    <3>1. QQ[x] = Q[x] /\ QQ[a + y] = <<i, y>>
      BY <1>2, <1>6
    <3>2. Q[x][1] = i
      <4>1. Q[x] = <<i, y>>
        BY <2>2, <3>1
      <4> QED BY <4>1
    <3>3. Q[x][1] < i /\ Q[x][1] \in Nat
      BY <1>5
    <3> QED BY <3>2, <3>3
  <2>3. ASSUME NEW x \in 1 .. o, NEW y \in 1 .. o, k = a + x, m = a + y PROVE k = m
    <3>1. QQ[k] = <<i, x>> /\ QQ[m] = <<i, y>>
      BY <1>2, <1>6, <2>3
    <3> QED BY <1>9, <2>3, <3>1
  <2>4. k \in 1 .. a \/ \E x \in 1 .. o : k = a + x
    BY <1>3
  <2>5. m \in 1 .. a \/ \E x \in 1 .. o : m = a + x
    BY <1>3
  <2> QED BY <1>9, <2>1, <2>2, <2>3, <2>4, <2>5
<1>10. Len(AA) = a + o /\ Len(NN) = a + o /\ Len(QQ) = a + o
  BY <1>2
<1>11. Counted(loaded, AA, NN, QQ, i + 1)
  BY <1>8, <1>9, <1>10, Zenon DEF Counted
<1> QED BY <1>11 DEF AA, NN, QQ

LEMMA NoneCounted ==
    ASSUME NEW loaded, NEW i \in Nat
    PROVE  Counted(loaded, <<>>, <<>>, <<>>, i)
BY DEF Counted

LEMMA PartsTyped ==
    ASSUME NEW loaded, Loaded(loaded), NEW i \in DOMAIN loaded
    PROVE  /\ all_members(loaded, i) \in Seq(MembersOf(loaded))
           /\ Numbered(loaded, i) \in Seq(Numbering(loaded))
           /\ all_procedures(loaded, i) \in Seq(ProcsOf(loaded))
           /\ Own(loaded)[i] \in Seq(MembersOf(loaded))
           /\ OwnNumbers(loaded)[i] \in Seq(Numbering(loaded))
           /\ OwnProcs(loaded)[i] \in Seq(ProcsOf(loaded))
<1>1. /\ all_members(loaded, i) \in Seq(MembersOf(loaded))
      /\ Numbered(loaded, i) \in Seq(Numbering(loaded))
      /\ all_procedures(loaded, i) \in Seq(ProcsOf(loaded))
  BY MembersAlong, NumbersAlong, ProcsAlong, AlongInherits
<1>2. /\ Own(loaded)[i] \in Seq(MembersOf(loaded))
      /\ OwnNumbers(loaded)[i] \in Seq(Numbering(loaded))
      /\ OwnProcs(loaded)[i] \in Seq(ProcsOf(loaded))
  BY MembersAlong, NumbersAlong, ProcsAlong DEF Parts
<1> QED BY <1>1, <1>2

LEMMA CountedWith ==
    ASSUME NEW loaded, Loaded(loaded), NEW i \in DOMAIN loaded,
           NEW A \in Seq(MembersOf(loaded)), NEW N \in Seq(Numbering(loaded)),
           NEW Q \in Seq(ProcsOf(loaded)), Counted(loaded, A, N, Q, i),
           all_members(loaded, i) = A \o Own(loaded)[i],
           Numbered(loaded, i) = N \o OwnNumbers(loaded)[i],
           all_procedures(loaded, i) = Q \o OwnProcs(loaded)[i]
    PROVE  Counted(loaded, all_members(loaded, i), Numbered(loaded, i),
                   all_procedures(loaded, i), i + 1)
<1> DEFINE own == Own(loaded)[i]
           num == OwnNumbers(loaded)[i]
           procs == OwnProcs(loaded)[i]
           D == DOMAIN loaded
           all == A \o own
<1>1. i \in Nat /\ D \in SUBSET Nat /\ i \in D
  BY LenProperties DEF Loaded
<1>2. /\ own \in Seq(MembersOf(loaded)) /\ num \in Seq(Numbering(loaded))
      /\ procs \in Seq(ProcsOf(loaded))
  BY PartsTyped
<1>3. own = loaded[i].members /\ DOMAIN own = 1 .. Len(own) /\ Len(own) \in Nat
  BY <1>2, LenProperties DEF Own
<1>4. num = [k \in DOMAIN own |-> [name |-> own[k].name, value |-> Len(all) - Len(own) + k - 1]]
  <2>1. OwnNumbers(loaded)[i]
        = [k \in DOMAIN loaded[i].members |->
             [name |-> loaded[i].members[k].name,
              value |-> Len(all_members(loaded, i)) - Len(loaded[i].members) + k - 1]]
    BY DEF OwnNumbers
  <2> QED BY <1>3, <2>1, Zenon
<1>5. procs = [k \in DOMAIN own |-> <<i, k>>]
  BY <1>3 DEF OwnProcs
<1>6. \A k \in 1 .. Len(own) :
         /\ procs[k] = <<i, k>>
         /\ num[k] = [name |-> own[k].name, value |-> Len(all) - Len(own) + k - 1]
  <2> HIDE DEF own, num, procs, all
  <2> QED BY <1>3, <1>4, <1>5
<1>7. Len(num) = Len(own) /\ Len(procs) = Len(own)
  <2>1. DOMAIN num = DOMAIN own /\ DOMAIN procs = DOMAIN own
    <3> HIDE DEF own, num, procs, all
    <3> QED BY <1>4, <1>5
  <2> HIDE DEF own, num, procs
  <2>2. /\ Len(num) \in Nat /\ DOMAIN num = 1 .. Len(num)
        /\ Len(procs) \in Nat /\ DOMAIN procs = 1 .. Len(procs)
    BY <1>2, LenProperties
  <2> QED BY <1>3, <2>1, <2>2
<1>8. Q \in Seq(D \X Nat) /\ procs \in Seq(D \X Nat)
  BY <1>2 DEF ProcsOf
<1> HIDE DEF own, num, procs, D
<1>9. Counted(loaded, all, N \o num, Q \o procs, i + 1)
  BY <1>1, <1>2, <1>3, <1>6, <1>7, <1>8, CountingOn, Zenon
<1> QED BY <1>9, Zenon DEF own, num, procs

\* The numbers of an element's members, its own and those it inherits.
LEMMA MembersCounted ==
    ASSUME NEW loaded, Loaded(loaded), NEW i \in DOMAIN loaded
    PROVE  Counted(loaded, all_members(loaded, i), Numbered(loaded, i),
                   all_procedures(loaded, i), i + 1)
<1> DEFINE At(j) == Counted(loaded, all_members(loaded, j), Numbered(loaded, j),
                            all_procedures(loaded, j), j + 1)
           T == {n \in Nat : \A j \in DOMAIN loaded : j <= n => At(j)}
<1>1. Len(loaded) \in Nat /\ DOMAIN loaded = 1 .. Len(loaded)
  BY LenProperties DEF Loaded
<1> HIDE DEF At
<1>2. 0 \in T
  BY <1>1
<1>3. ASSUME NEW n \in Nat, n \in T PROVE n + 1 \in T
  <2> SUFFICES ASSUME NEW k \in DOMAIN loaded, k = n + 1 PROVE At(k)
    BY <1>1, <1>3
  <2>1. CASE loaded[k].base = <<>>
    <3>1. /\ all_members(loaded, k) = Own(loaded)[k]
          /\ Numbered(loaded, k) = OwnNumbers(loaded)[k]
          /\ all_procedures(loaded, k) = OwnProcs(loaded)[k]
      BY <2>1, AlongInherits, MembersAlong, NumbersAlong, ProcsAlong
    <3>2. /\ Own(loaded)[k] = <<>> \o Own(loaded)[k]
          /\ OwnNumbers(loaded)[k] = <<>> \o OwnNumbers(loaded)[k]
          /\ OwnProcs(loaded)[k] = <<>> \o OwnProcs(loaded)[k]
      BY PartsTyped, ConcatEmptySeq
    <3>3. Counted(loaded, <<>>, <<>>, <<>>, k)
      BY <1>1, NoneCounted
    <3>4. /\ <<>> \in Seq(MembersOf(loaded)) /\ <<>> \in Seq(Numbering(loaded))
          /\ <<>> \in Seq(ProcsOf(loaded))
      BY EmptySeq
    <3> QED BY <3>1, <3>2, <3>3, <3>4, CountedWith DEF At
  <2>2. CASE loaded[k].base # <<>>
    <3>1. PICK j \in Bases(loaded, k) : j \in DOMAIN loaded /\ j < k
      BY <2>2, BasesBefore
    <3>2. /\ all_members(loaded, k) = all_members(loaded, j) \o Own(loaded)[k]
          /\ Numbered(loaded, k) = Numbered(loaded, j) \o OwnNumbers(loaded)[k]
          /\ all_procedures(loaded, k) = all_procedures(loaded, j) \o OwnProcs(loaded)[k]
      <4>1. \A S : \A part \in Parts(DOMAIN loaded, S) :
               Along(part, inheritance_list(loaded, k))
               = Along(part, inheritance_list(loaded, j)) \o part[k]
        BY AlongInherits
      <4> QED BY <3>1, <4>1, MembersAlong, NumbersAlong, ProcsAlong
    <3>3. At(j)
      BY <1>1, <1>3, <2>2, <3>1
    <3>4. Counted(loaded, all_members(loaded, j), Numbered(loaded, j), all_procedures(loaded, j), k)
      <4> DEFINE A == all_members(loaded, j)
                 N == Numbered(loaded, j)
                 Q == all_procedures(loaded, j)
      <4>1. A \in Seq(MembersOf(loaded)) /\ Q \in Seq(ProcsOf(loaded))
        BY <3>1, PartsTyped
      <4> HIDE DEF A, N, Q
      <4>2. Counted(loaded, A, N, Q, j + 1)
        BY <3>3, Zenon DEF At, A, N, Q
      <4>3. \A m \in 1 .. Len(A) : Q[m][1] < k
        <5> SUFFICES ASSUME NEW m \in 1 .. Len(A) PROVE Q[m][1] < k
          OBVIOUS
        <5>1. Len(Q) = Len(A) /\ Q[m][1] < j + 1
          BY <4>2 DEF Counted
        <5>2. Q[m] \in ProcsOf(loaded)
          BY <4>1, <5>1
        <5>3. Q[m][1] \in Nat
          BY <1>1, <5>2 DEF ProcsOf
        <5> QED BY <1>1, <3>1, <5>1, <5>3
      <4>4. Counted(loaded, A, N, Q, k)
        BY <4>2, <4>3, Zenon DEF Counted
      <4> QED BY <4>4, Zenon DEF A, N, Q
    <3>5. /\ all_members(loaded, j) \in Seq(MembersOf(loaded))
          /\ Numbered(loaded, j) \in Seq(Numbering(loaded))
          /\ all_procedures(loaded, j) \in Seq(ProcsOf(loaded))
      BY <3>1, PartsTyped
    <3> QED BY <3>2, <3>4, <3>5, CountedWith DEF At
  <2> QED BY <2>1, <2>2
<1>4. Nat \subseteq T
  <2> HIDE DEF T
  <2> QED BY <1>2, <1>3, NatSetInduction
<1>5. At(i)
  <2>1. i \in Nat /\ i \in T
    BY <1>1, <1>4
  <2> QED BY <2>1
<1> QED BY <1>5, Zenon DEF At

\* What follows for the numbers: they are the places, those of a base come first, the own ones
\* last, and C++ has the same.
LEMMA NumbersAre ==
    ASSUME NEW loaded, Loaded(loaded), NEW i \in DOMAIN loaded
    PROVE  /\ \A k \in DOMAIN Numbered(loaded, i) : Numbered(loaded, i)[k].value = k - 1
           /\ Len(Numbered(loaded, i)) = Len(all_members(loaded, i))
           /\ \A j \in Bases(loaded, i) : IsPrefix(Numbered(loaded, j), Numbered(loaded, i))
           /\ IsSuffix(js_elems(loaded, i), Numbered(loaded, i))
           /\ cpp_elems(loaded, i) = Numbered(loaded, i)
<1> DEFINE A == all_members(loaded, i)
           N == Numbered(loaded, i)
           Q == all_procedures(loaded, i)
<1>1. Counted(loaded, A, N, Q, i + 1)
  BY MembersCounted
<1>2. A \in Seq(MembersOf(loaded)) /\ N \in Seq(Numbering(loaded)) /\ Q \in Seq(ProcsOf(loaded))
  BY PartsTyped
<1> HIDE DEF A, N, Q
<1>3. /\ Len(N) = Len(A) /\ Len(Q) = Len(A) /\ Len(A) \in Nat
      /\ DOMAIN N = 1 .. Len(A) /\ DOMAIN Q = 1 .. Len(A)
  BY <1>1, <1>2, LenProperties DEF Counted
<1>4. \A k \in 1 .. Len(A) :
         N[k] = [name |-> loaded[Q[k][1]].members[Q[k][2]].name, value |-> k - 1]
  BY <1>1, Zenon DEF Counted
<1>5. \A k \in DOMAIN N : N[k].value = k - 1
  BY <1>3, <1>4
<1>6. cpp_elems(loaded, i) = N
  <2>1. ASSUME NEW k \in 1 .. Len(A) PROVE proc_index(loaded, i, Q[k]) = k - 1
    <3>1. \A m \in DOMAIN Q : Q[m] = Q[k] => m = k
      BY <1>1, <1>3, Zenon DEF Counted
    <3>2. (CHOOSE n \in DOMAIN Q : Q[n] = Q[k]) = k
      BY <1>3, <3>1
    <3>3. proc_index(loaded, i, Q[k]) = (CHOOSE n \in DOMAIN Q : Q[n] = Q[k]) - 1
      BY Zenon DEF proc_index, Q
    <3> QED BY <3>2, <3>3, Zenon
  <2>2. cpp_elems(loaded, i)
        = [n \in DOMAIN Q |-> [name |-> loaded[Q[n][1]].members[Q[n][2]].name,
                               value |-> proc_index(loaded, i, Q[n])]]
    BY Zenon DEF cpp_elems, Q
  <2>3. \A n \in DOMAIN Q : [name |-> loaded[Q[n][1]].members[Q[n][2]].name,
                             value |-> proc_index(loaded, i, Q[n])] = N[n]
    BY <1>3, <1>4, <2>1, Zenon
  <2>4. N = [n \in DOMAIN Q |-> N[n]]
    BY <1>2, <1>3
  <2>5. [n \in DOMAIN Q |-> [name |-> loaded[Q[n][1]].members[Q[n][2]].name,
                             value |-> proc_index(loaded, i, Q[n])]] = [n \in DOMAIN Q |-> N[n]]
    BY <2>3, Zenon
  <2> QED BY <2>2, <2>4, <2>5, Zenon
<1>7. ASSUME NEW j \in Bases(loaded, i) PROVE IsPrefix(Numbered(loaded, j), N)
  <2> DEFINE B == Numbered(loaded, j)
             own == OwnNumbers(loaded)[i]
  <2>1. N = B \o own
    <3>1. \A S : \A part \in Parts(DOMAIN loaded, S) :
             Along(part, inheritance_list(loaded, i))
             = Along(part, inheritance_list(loaded, j)) \o part[i]
      BY AlongInherits
    <3> QED BY <3>1, NumbersAlong, BasesBefore DEF N
  <2>2. B \in Seq(Numbering(loaded)) /\ own \in Seq(Numbering(loaded))
    BY PartsTyped, BasesBefore
  <2> HIDE DEF B, own
  <2>3. IsConcat(N, B, own) /\ Len(B) \in Nat /\ Len(own) \in Nat
    BY <2>1, <2>2, ConcatAt
  <2>4. Len(B) <= Len(N) /\ \A k \in 1 .. Len(B) : N[k] = B[k]
    BY <2>3 DEF IsConcat
  <2>5. SubSeq(B, 1, Len(B)) = SubSeq(N, 1, Len(B))
    BY <1>2, <2>2, <2>3, <2>4
  <2> QED BY <2>4, <2>5 DEF IsPrefix, B
<1>8. IsSuffix(js_elems(loaded, i), N)
  <2> DEFINE own == Len(loaded[i].members)
             js == js_elems(loaded, i)
  <2>1. own \in Nat /\ own <= Len(A)
    <3>1. own \in Nat
      BY MembersTyped
    <3>2. CASE loaded[i].base = <<>>
      <4>1. A = Own(loaded)[i]
        BY <3>2, AlongInherits, MembersAlong DEF A
      <4> QED BY <3>1, <4>1 DEF Own
    <3>3. CASE loaded[i].base # <<>>
      <4>1. PICK j \in Bases(loaded, i) : j \in DOMAIN loaded
        BY <3>3, BasesBefore
      <4>2. A = all_members(loaded, j) \o Own(loaded)[i]
        <5>1. \A S : \A part \in Parts(DOMAIN loaded, S) :
                 Along(part, inheritance_list(loaded, i))
                 = Along(part, inheritance_list(loaded, j)) \o part[i]
          BY AlongInherits
        <5> QED BY <4>1, <5>1, MembersAlong DEF A
      <4>3. IsConcat(A, all_members(loaded, j), Own(loaded)[i])
        BY <4>1, <4>2, PartsTyped, ConcatAt
      <4>4. Len(all_members(loaded, j)) \in Nat /\ Own(loaded)[i] = loaded[i].members
        BY <4>1, MembersTyped DEF Own
      <4> QED BY <3>1, <4>3, <4>4 DEF IsConcat
    <3> QED BY <3>2, <3>3
  <2>2. js = SubSeq(N, Len(N) - own + 1, Len(N))
    BY Zenon DEF js_elems, N
  <2> HIDE DEF own, js
  <2>3. /\ Len(js) = own /\ \A k \in 1 .. own : js[k] = N[Len(N) - own + k]
    BY <1>2, <1>3, <2>1, <2>2
  <2> DEFINE R == Reverse(js)
             S == Reverse(N)
  <2>4. R = [k \in 1 .. own |-> js[own - k + 1]] /\ S = [k \in 1 .. Len(N) |-> N[Len(N) - k + 1]]
    BY <2>3 DEF Reverse
  <2> HIDE DEF R, S
  <2>5. \A k \in 1 .. own : R[k] = S[k]
    <3> SUFFICES ASSUME NEW k \in 1 .. own PROVE R[k] = S[k]
      OBVIOUS
    <3>1. R[k] = js[own - k + 1] /\ S[k] = N[Len(N) - k + 1]
      BY <1>3, <2>1, <2>4
    <3>2. own - k + 1 \in 1 .. own /\ Len(N) - own + (own - k + 1) = Len(N) - k + 1
      BY <1>3, <2>1
    <3> QED BY <2>3, <3>1, <3>2
  <2>6. Len(R) = own /\ Len(S) = Len(N)
    BY <1>3, <2>1, <2>4
  <2>7. SubSeq(R, 1, own) = SubSeq(S, 1, own)
    BY <1>3, <2>1, <2>5, <2>6
  <2>8. IsPrefix(R, S)
    BY <1>3, <2>1, <2>6, <2>7 DEF IsPrefix
  <2> QED BY <2>8, Zenon DEF IsSuffix, R, S, js
<1> QED BY <1>3, <1>5, <1>6, <1>7, <1>8 DEF A, N

------------------------------------------------------------------------------
\* The symbols in a type.
TypeParts(X) == [type : X, opened : BOOLEAN, sized : BOOLEAN]
OpenAll(parts) == FlattenSeq([k \in DOMAIN parts |-> Opened(parts[k])])
Has(parts, type) == \E part \in Range(parts) : part.type = type

LEMMA OpenedParts ==
    ASSUME NEW X, NEW Y, X \subseteq Y, NEW part \in TypeParts(X), part.type.args \in Seq(Y)
    PROVE  Opened(part) \in Seq(TypeParts(Y)) /\ Has(Opened(part), part.type)
<1> DEFINE open == [part EXCEPT !.opened = TRUE]
           args == part.type.args
           below == [i \in DOMAIN args |-> [type |-> args[i], opened |-> FALSE,
                                            sized |-> part.type.to = <<"array">>]]
<1>1. part \in TypeParts(Y) /\ open \in TypeParts(Y) /\ open.type = part.type
  BY DEF TypeParts
<1>2. below \in Seq(TypeParts(Y))
  <2> DEFINE sized == part.type.to = <<"array">>
  <2>1. sized \in BOOLEAN
    OBVIOUS
  <2> HIDE DEF sized
  <2>2. \A i \in DOMAIN args : [type |-> args[i], opened |-> FALSE, sized |-> sized] \in TypeParts(Y)
    BY <2>1 DEF TypeParts
  <2>3. DOMAIN args = 1 .. Len(args) /\ Len(args) \in Nat
    BY LenProperties
  <2> HIDE DEF args
  <2>4. [i \in DOMAIN args |-> [type |-> args[i], opened |-> FALSE, sized |-> sized]]
           \in [1 .. Len(args) -> TypeParts(Y)]
    BY <2>2, <2>3
  <2> QED BY <2>3, <2>4, IsASeq DEF sized
<1>3. Opened(part) = IF part.opened THEN <<part>> ELSE <<open>> \o below
  BY Zenon DEF Opened
<1> HIDE DEF open, below
<1>4. <<part>> \in Seq(TypeParts(Y)) /\ <<open>> \in Seq(TypeParts(Y))
  BY <1>1
<1>5. <<open>> \o below \in Seq(TypeParts(Y))
  BY <1>2, <1>4, ConcatProperties
<1>6. Has(<<part>>, part.type)
  BY RangeOfFew DEF Has
<1>7. Has(<<open>> \o below, part.type)
  <2>1. Range(<<open>> \o below) = Range(<<open>>) \cup Range(below)
    BY <1>2, <1>4, RangeConcatenation
  <2>2. Range(<<open>>) = {open}
    BY RangeOfFew
  <2> QED BY <1>1, <2>1, <2>2 DEF Has
<1> QED BY <1>3, <1>4, <1>5, <1>6, <1>7

LEMMA AllOpened ==
    ASSUME NEW X, NEW Y, X \subseteq Y, \A x \in X : x.args \in Seq(Y),
           NEW parts \in Seq(TypeParts(X)), NEW type, Has(parts, type)
    PROVE  OpenAll(parts) \in Seq(TypeParts(Y)) /\ Has(OpenAll(parts), type)
<1> DEFINE S == TypeParts(Y)
           sq == [k \in DOMAIN parts |-> Opened(parts[k])]
<1>1. DOMAIN parts = 1 .. Len(parts) /\ Len(parts) \in Nat
  BY LenProperties
<1>2. ASSUME NEW k \in DOMAIN parts
      PROVE  sq[k] \in Seq(S) /\ Has(sq[k], parts[k].type)
  <2>1. parts[k] \in TypeParts(X)
    BY <1>1
  <2>2. parts[k].type.args \in Seq(Y)
    BY <2>1 DEF TypeParts
  <2>3. Opened(parts[k]) \in Seq(S) /\ Has(Opened(parts[k]), parts[k].type)
    BY <2>1, <2>2, OpenedParts
  <2> QED BY <2>3
<1>3. sq \in Seq(Seq(S)) /\ DOMAIN sq = DOMAIN parts
  <2> HIDE DEF S
  <2>1. sq \in [1 .. Len(parts) -> Seq(S)]
    BY <1>1, <1>2
  <2> QED BY <1>1, <2>1, IsASeq
<1> HIDE DEF S, sq
<1>4. FlattenSeq(sq) \in Seq(S) /\ Range(FlattenSeq(sq)) = UNION {Range(sq[k]) : k \in DOMAIN parts}
  BY <1>3, FlattenType, FlattenRange, Zenon
<1>5. PICK part \in Range(parts) : part.type = type
  BY DEF Has
<1>6. PICK k \in DOMAIN parts : parts[k] = part
  BY DEF Range
<1>7. Has(sq[k], type)
  BY <1>2, <1>5, <1>6
<1>8. Has(FlattenSeq(sq), type)
  BY <1>4, <1>7, Zenon DEF Has
<1>9. OpenAll(parts) = FlattenSeq(sq)
  BY Zenon DEF OpenAll, sq
<1> QED BY <1>4, <1>8, <1>9 DEF S

LEMMA UserPartsAre ==
    ASSUME NEW type
    PROVE  LET all == OpenAll(OpenAll(<<[type |-> type, opened |-> FALSE, sized |-> FALSE]>>))
           IN  UserParts(type) = FlattenSeq([k \in DOMAIN all |->
                                   IF Len(all[k].type.to) = 1 THEN <<>>
                                   ELSE <<[symbol |-> all[k].type.to, sized |-> all[k].sized]>>])
<1> DEFINE first == <<[type |-> type, opened |-> FALSE, sized |-> FALSE]>>
           G(f) == [n \in 0 .. MaxNesting |->
                      IF n = 0 THEN first
                      ELSE FlattenSeq([k \in DOMAIN f[n - 1] |-> Opened(f[n - 1][k])])]
           F == CHOOSE f : f = G(f)
           g == [n \in 0 .. 2 |-> IF n = 0 THEN first ELSE IF n = 1 THEN OpenAll(first)
                                  ELSE OpenAll(OpenAll(first))]
           Users(all) == FlattenSeq([k \in DOMAIN all |->
                           IF Len(all[k].type.to) = 1 THEN <<>>
                           ELSE <<[symbol |-> all[k].type.to, sized |-> all[k].sized]>>])
<1>1. UserParts(type) = Users(F[MaxNesting])
  BY Zenon DEF UserParts
<1> HIDE DEF first
<1>2. \A f : G(f) = [n \in 0 .. 2 |-> IF n = 0 THEN first ELSE OpenAll(f[n - 1])]
  BY Zenon DEF MaxNesting, OpenAll
<1>3. g[0] = first /\ g[1] = OpenAll(first) /\ g[2] = OpenAll(OpenAll(first))
  OBVIOUS
<1>4. g = G(g)
  <2>1. \A n \in 0 .. 2 : g[n] = IF n = 0 THEN first ELSE OpenAll(g[n - 1])
    BY <1>3
  <2>2. g = [n \in 0 .. 2 |-> g[n]]
    OBVIOUS
  <2> HIDE DEF g
  <2>3. g = [n \in 0 .. 2 |-> IF n = 0 THEN first ELSE OpenAll(g[n - 1])]
    BY <2>1, <2>2
  <2> QED BY <1>2, <2>3, Zenon
<1>5. F = G(F)
  <2> HIDE DEF g, G
  <2> QED BY <1>4, Zenon
<1> HIDE DEF F
<1>6. F = [n \in 0 .. 2 |-> IF n = 0 THEN first ELSE OpenAll(F[n - 1])]
  BY <1>2, <1>5, Zenon
<1> HIDE DEF G
<1>7. /\ F[0] = first /\ F[1] = OpenAll(F[0]) /\ F[2] = OpenAll(F[1])
  <2>1. \A n \in 0 .. 2 : F[n] = IF n = 0 THEN first ELSE OpenAll(F[n - 1])
    BY <1>6, Zenon
  <2> QED BY <2>1
<1> HIDE DEF Users
<1>8. UserParts(type) = Users(OpenAll(OpenAll(first)))
  BY <1>1, <1>7, Zenon DEF MaxNesting
<1> QED BY <1>8, Zenon DEF first, Users

LEMMA SymbolsAre ==
    ASSUME NEW type, IsType(type), \A arg \in Range(type.args) : IsType(arg)
    PROVE  /\ SymbolsIn(type) \subseteq Seq(STRING)
           /\ Len(type.to) > 1 => type.to \in SymbolsIn(type)
<1> DEFINE first == <<[type |-> type, opened |-> FALSE, sized |-> FALSE]>>
           X == {type}
           Y == {type} \cup Range(type.args)
           Z == Y \cup UNION {Range(arg.args) : arg \in Range(type.args)}
           all == OpenAll(OpenAll(first))
           User(part) == IF Len(part.type.to) = 1 THEN <<>>
                         ELSE <<[symbol |-> part.type.to, sized |-> part.sized]>>
           S == [symbol : Seq(STRING), sized : BOOLEAN]
           sq == [k \in DOMAIN all |-> User(all[k])]
<1>1. \A z \in Z : z.to \in Seq(STRING)
  BY DEF IsType
<1>2. type.args \in Seq(Y)
  <2>1. type.args \in Seq(Range(type.args)) /\ Range(type.args) \subseteq Y
    BY DEF IsType
  <2> QED BY <2>1, SeqMonotonic
<1>3. \A y \in Y : y.args \in Seq(Z)
  <2>1. \A arg \in Range(type.args) : arg.args \in Seq(Range(arg.args)) /\ Range(arg.args) \subseteq Z
    BY DEF IsType
  <2>2. Y \subseteq Z
    OBVIOUS
  <2> QED BY <1>2, <2>1, <2>2, SeqMonotonic
<1>4. first \in Seq(TypeParts(X)) /\ Has(first, type)
  <2> DEFINE part == [type |-> type, opened |-> FALSE, sized |-> FALSE]
  <2>1. part \in TypeParts(X) /\ part.type = type
    BY DEF TypeParts
  <2> HIDE DEF part
  <2>2. <<part>> \in Seq(TypeParts(X)) /\ part \in Range(<<part>>)
    BY <2>1 DEF Range
  <2> QED BY <2>1, <2>2 DEF Has, part
<1> HIDE DEF first
<1>5. OpenAll(first) \in Seq(TypeParts(Y)) /\ Has(OpenAll(first), type)
  <2>1. X \subseteq Y /\ \A x \in X : x.args \in Seq(Y)
    BY <1>2
  <2> HIDE DEF X, Y
  <2> QED BY <1>4, <2>1, AllOpened
<1>6. all \in Seq(TypeParts(Z)) /\ Has(all, type)
  <2>1. Y \subseteq Z
    OBVIOUS
  <2> HIDE DEF Y, Z
  <2> QED BY <1>3, <1>5, <2>1, AllOpened
<1>7. UserParts(type) = FlattenSeq(sq)
  BY UserPartsAre, Zenon DEF first
<1> HIDE DEF Z, all
<1>8. ASSUME NEW k \in DOMAIN all
      PROVE  /\ sq[k] \in Seq(S)
             /\ Len(all[k].type.to) # 1 => Range(sq[k]) = {[symbol |-> all[k].type.to, sized |-> all[k].sized]}
  <2>1. all[k] \in TypeParts(Z)
    BY <1>6
  <2>2. all[k].type.to \in Seq(STRING) /\ all[k].sized \in BOOLEAN
    BY <1>1, <2>1 DEF TypeParts
  <2> DEFINE user == [symbol |-> all[k].type.to, sized |-> all[k].sized]
  <2>3. user \in S
    BY <2>2
  <2> HIDE DEF user, S
  <2>4. <<user>> \in Seq(S) /\ <<>> \in Seq(S) /\ Range(<<user>>) = {user}
    BY <2>3 DEF Range
  <2> QED BY <2>4 DEF user
<1>9. sq \in Seq(Seq(S)) /\ DOMAIN sq = DOMAIN all
  <2>1. DOMAIN all = 1 .. Len(all) /\ Len(all) \in Nat
    BY <1>6, LenProperties
  <2> HIDE DEF S, User
  <2>2. sq \in [1 .. Len(all) -> Seq(S)]
    BY <1>8, <2>1
  <2> QED BY <2>1, <2>2, IsASeq
<1> HIDE DEF sq, S
<1>10. FlattenSeq(sq) \in Seq(S) /\ Range(FlattenSeq(sq)) = UNION {Range(sq[k]) : k \in DOMAIN all}
  BY <1>9, FlattenType, FlattenRange, Zenon
<1>11. SymbolsIn(type) = {part.symbol : part \in Range(FlattenSeq(sq))}
  BY <1>7, Zenon DEF SymbolsIn
<1>12. SymbolsIn(type) \subseteq Seq(STRING)
  <2>1. Range(FlattenSeq(sq)) \subseteq S
    BY <1>10 DEF Range
  <2> QED BY <1>11, <2>1 DEF S
<1>13. ASSUME Len(type.to) > 1 PROVE type.to \in SymbolsIn(type)
  <2>1. PICK k \in DOMAIN all : all[k].type = type
    BY <1>6 DEF Has, Range
  <2>2. Len(all[k].type.to) # 1
    <3>1. Len(type.to) \in Nat /\ Len(type.to) # 1
      <4> DEFINE to == type.to
      <4>1. to \in Seq(STRING) /\ Len(to) > 1
        BY <1>13 DEF IsType
      <4> HIDE DEF to
      <4>2. Len(to) \in Nat
        BY <4>1, LenProperties
      <4>3. Len(to) # 1
        BY <4>1, <4>2
      <4> QED BY <4>2, <4>3, Zenon DEF to
    <3> QED BY <2>1, <3>1, Zenon
  <2>3. [symbol |-> type.to, sized |-> all[k].sized] \in Range(sq[k])
    BY <1>8, <2>1, <2>2
  <2>4. [symbol |-> type.to, sized |-> all[k].sized] \in Range(FlattenSeq(sq))
    BY <1>10, <2>3
  <2> QED BY <1>11, <2>4
<1> QED BY <1>12, <1>13

------------------------------------------------------------------------------
\* Symbols within symbols.
Apart(loaded) == \A i, j \in DOMAIN loaded : ~IsPrefix(SymbolOf(loaded[i]), loaded[j].home)

LEMMA PrefixIs ==
    ASSUME NEW S, NEW a \in Seq(S), NEW b \in Seq(S)
    PROVE  IsPrefix(a, b) <=> Len(a) <= Len(b) /\ \A k \in 1 .. Len(a) : a[k] = b[k]
<1>1. Len(a) \in Nat /\ Len(b) \in Nat
  BY LenProperties
<1>2. ASSUME IsPrefix(a, b) PROVE Len(a) <= Len(b) /\ \A k \in 1 .. Len(a) : a[k] = b[k]
  <2>1. Len(a) <= Len(b) /\ SubSeq(a, 1, Len(a)) = SubSeq(b, 1, Len(a))
    BY <1>2, Zenon DEF IsPrefix
  <2>2. ASSUME NEW k \in 1 .. Len(a) PROVE a[k] = b[k]
    <3>1. SubSeq(a, 1, Len(a))[k] = a[k] /\ SubSeq(b, 1, Len(a))[k] = b[k]
      BY <1>1, <2>1
    <3> QED BY <2>1, <3>1
  <2> QED BY <2>1, <2>2
<1>3. ASSUME Len(a) <= Len(b), \A k \in 1 .. Len(a) : a[k] = b[k] PROVE IsPrefix(a, b)
  <2>1. SubSeq(a, 1, Len(a)) = SubSeq(b, 1, Len(a))
    BY <1>1, <1>3
  <2> QED BY <1>3, <2>1, Zenon DEF IsPrefix
<1> QED BY <1>2, <1>3

\* What is at the beginning of a symbol is the symbol or at the beginning of what it is in.
LEMMA PrefixOfAppend ==
    ASSUME NEW S, NEW a \in Seq(S), NEW b \in Seq(S), NEW x \in S, IsPrefix(a, Append(b, x))
    PROVE  a = Append(b, x) \/ IsPrefix(a, b)
<1> DEFINE c == Append(b, x)
<1>1. /\ Len(a) \in Nat /\ Len(b) \in Nat /\ c \in Seq(S) /\ Len(c) = Len(b) + 1
      /\ \A k \in 1 .. Len(b) : c[k] = b[k]
  BY AppendProperties
<1> HIDE DEF c
<1>2. Len(a) <= Len(c) /\ \A k \in 1 .. Len(a) : a[k] = c[k]
  <2>1. IsPrefix(a, c)
    BY DEF c
  <2> QED BY <1>1, <2>1, PrefixIs
<1>3. CASE Len(a) = Len(c)
  BY <1>1, <1>2, <1>3, SeqEqual DEF c
<1>4. CASE Len(a) # Len(c)
  <2>1. Len(a) <= Len(b) /\ \A k \in 1 .. Len(a) : a[k] = b[k]
    BY <1>1, <1>2, <1>4
  <2> QED BY <2>1, PrefixIs
<1> QED BY <1>3, <1>4

LEMMA PrefixOfLonger ==
    ASSUME NEW S, NEW a \in Seq(S), NEW x \in S
    PROVE  IsPrefix(a, a) /\ IsPrefix(a, Append(a, x))
<1>1. Len(a) \in Nat /\ IsPrefix(a, a)
  BY PrefixIs, LenProperties
<1>2. /\ Append(a, x) \in Seq(S) /\ Len(Append(a, x)) = Len(a) + 1
      /\ \A k \in 1 .. Len(a) : Append(a, x)[k] = a[k]
  BY AppendProperties
<1>3. Len(a) <= Len(Append(a, x))
  BY <1>1, <1>2
<1>4. IsPrefix(a, Append(a, x))
  BY <1>2, <1>3, PrefixIs
<1> QED BY <1>1, <1>4

LEMMA SymbolTyped ==
    ASSUME NEW elem \in Elements
    PROVE  /\ elem.home \in Seq(STRING) /\ elem.name \in STRING \ ServiceUnions
           /\ SymbolOf(elem) \in Seq(STRING)
           /\ SymbolOf(elem) = Append(elem.home, elem.name)
           /\ Front(SymbolOf(elem)) = elem.home /\ Last(SymbolOf(elem)) = elem.name
<1>1. elem.home \in Seq(STRING) /\ elem.name \in STRING \ ServiceUnions
  BY LidlcAssumption, Zenon
<1>2. SymbolOf(elem) = Append(elem.home, elem.name)
  BY SymbolParts
<1>3. Append(elem.home, elem.name) \in Seq(STRING)
  BY <1>1, AppendProperties
<1>4. Front(SymbolOf(elem)) = elem.home /\ Last(SymbolOf(elem)) = elem.name
  BY <1>1, <1>2, FrontLast
<1> QED BY <1>1, <1>2, <1>3, <1>4

LEMMA AppendsEqual ==
    ASSUME NEW S, NEW a \in Seq(S), NEW b \in Seq(S), NEW x, NEW y, Append(a, x) = Append(b, y)
    PROVE  a = b /\ x = y
<1>1. Front(Append(a, x)) = a /\ Last(Append(a, x)) = x
  BY FrontLast
<1>2. Front(Append(b, y)) = b /\ Last(Append(b, y)) = y
  BY FrontLast
<1> QED BY <1>1, <1>2

LEMMA SplitSymbol ==
    ASSUME NEW S, NEW s \in Seq(S), Len(s) >= 1
    PROVE  /\ Front(s) \in Seq(S) /\ Last(s) \in S
           /\ s = Append(Front(s), Last(s))
<1> DEFINE n == Len(s)
<1>1. n \in Nat /\ n - 1 \in 0 .. n /\ n \in 1 .. n
  BY LenProperties
<1>2. Front(s) = SubSeq(s, 1, n - 1) /\ Last(s) = s[n]
  BY DEF Front, Last
<1> HIDE DEF n
<1>3. /\ Front(s) \in Seq(S) /\ Len(Front(s)) = n - 1 /\ Last(s) \in S
      /\ \A k \in 1 .. n - 1 : Front(s)[k] = s[k]
  <2>1. s[n] \in S
    BY <1>1 DEF n
  <2>2. \A k \in 1 .. n - 1 : s[k] \in S
    BY <1>1 DEF n
  <2>3. /\ SubSeq(s, 1, n - 1) \in Seq(S) /\ Len(SubSeq(s, 1, n - 1)) = n - 1
        /\ \A k \in 1 .. n - 1 : SubSeq(s, 1, n - 1)[k] = s[k]
    <3> DEFINE m == n - 1
    <3>1. m \in Int /\ m >= 0 /\ \A k \in 1 .. m : s[k] \in S
      BY <1>1, <2>2
    <3>2. Len(SubSeq(s, 1, m)) = IF 1 <= m THEN m - 1 + 1 ELSE 0
      BY <3>1, SubSeqProperties
    <3>3. SubSeq(s, 1, m) \in Seq(S) /\ \A k \in 1 .. m - 1 + 1 : SubSeq(s, 1, m)[k] = s[1 + k - 1]
      BY <3>1, SubSeqProperties
    <3> HIDE DEF m
    <3>4. Len(SubSeq(s, 1, m)) = m
      BY <3>1, <3>2
    <3>5. \A k \in 1 .. m : SubSeq(s, 1, m)[k] = s[k]
      <4> SUFFICES ASSUME NEW k \in 1 .. m PROVE SubSeq(s, 1, m)[k] = s[k]
        OBVIOUS
      <4>1. k \in 1 .. m - 1 + 1 /\ 1 + k - 1 = k
        BY <3>1
      <4> QED BY <3>3, <4>1
    <3> QED BY <3>3, <3>4, <3>5 DEF m
  <2> QED BY <1>2, <2>1, <2>3
<1>4. /\ Append(Front(s), Last(s)) \in Seq(S) /\ Len(Append(Front(s), Last(s))) = n
      /\ \A k \in 1 .. n - 1 : Append(Front(s), Last(s))[k] = s[k]
      /\ Append(Front(s), Last(s))[n] = s[n]
  BY <1>1, <1>2, <1>3
<1>5. \A k \in 1 .. n : k = n \/ k \in 1 .. n - 1
  BY <1>1
<1>6. s = Append(Front(s), Last(s))
  BY <1>4, <1>5, SeqEqual DEF n
<1> QED BY <1>3, <1>6

\* The element that a symbol is, or is in: of another home than where it is used, or next
\* to it.
LEMMA OwnerOfResolvable ==
    ASSUME Loaded(program), NEW s \in Resolvable
    PROVE  /\ Owner(program, s) \in DOMAIN program
           /\ IsPrefix(SymbolOf(program[Owner(program, s)]), s)
<1>1. PICK j \in DOMAIN program :
         \/ s = SymbolOf(program[j])
         \/ \E name : s = Append(SymbolOf(program[j]), name)
  BY Zenon DEF Resolvable, Symbols
<1> DEFINE t == SymbolOf(program[j])
<1>2. program[j] \in Elements
  BY DEF Loaded
<1>3. t \in Seq(STRING)
  BY <1>2, SymbolTyped
<1> HIDE DEF t
<1>4. IsPrefix(t, s)
  <2>1. IsPrefix(t, t)
    BY <1>3, PrefixIs, LenProperties
  <2>2. ASSUME NEW name PROVE IsPrefix(t, Append(t, name))
    <3> DEFINE U == STRING \cup {name}
    <3>1. t \in Seq(U) /\ name \in U
      BY <1>3
    <3> HIDE DEF U
    <3> QED BY <3>1, PrefixOfLonger
  <2> QED BY <1>1, <2>1, <2>2, Zenon DEF t
<1>5. IsPrefix(SymbolOf(program[j]), s)
  BY <1>4 DEF t
<1> QED BY <1>5, Zenon DEF Owner

LEMMA SymbolsNamed ==
    ASSUME NEW elem \in Elements, NEW t \in MemberTypes(elem)
    PROVE  /\ SymbolsIn(t) \subseteq Named(elem)
           /\ SymbolsIn(t) \subseteq Seq(STRING)
           /\ Len(t.to) > 1 => t.to \in SymbolsIn(t)
<1>1. IsType(t) /\ \A arg \in Range(t.args) : IsType(arg)
  BY LidlcAssumption, Zenon
<1>2. SymbolsIn(t) \subseteq Seq(STRING) /\ (Len(t.to) > 1 => t.to \in SymbolsIn(t))
  BY <1>1, SymbolsAre
<1>3. SymbolsIn(t) \subseteq Named(elem)
  BY Zenon DEF Named
<1> QED BY <1>2, <1>3

LEMMA UsedAreOfMembers ==
    ASSUME NEW loaded, Loaded(loaded), NEW i \in DOMAIN loaded,
           loaded[i].kind \in {"struct", "union"}, NEW t \in Range(TypesUsed(loaded, i))
    PROVE  \E j \in DOMAIN loaded : t \in MemberTypes(loaded[j])
<1>1. \A elem : elem.kind \in {"struct", "union"} =>
         \A k \in DOMAIN elem.members : elem.members[k].type \in MemberTypes(elem)
  BY DEF MemberTypes
<1>2. CASE loaded[i].kind = "struct"
  <2>1. TypesUsed(loaded, i) = TypesOf(loaded[i].members)
    BY <1>2 DEF TypesUsed
  <2>2. PICK k \in DOMAIN loaded[i].members : t = loaded[i].members[k].type
    BY <2>1, Zenon DEF TypesOf, Range
  <2>3. t \in MemberTypes(loaded[i])
    BY <1>1, <1>2, <2>2
  <2> QED BY <2>3
<1>3. CASE loaded[i].kind = "union"
  <2> DEFINE all == all_members(loaded, i)
             list == inheritance_list(loaded, i)
             sq == [n \in DOMAIN list |-> loaded[list[n]].members]
             M == MembersOf(loaded)
  <2>1. TypesUsed(loaded, i) = TypesOf(all)
    BY <1>3 DEF TypesUsed
  <2>2. PICK k \in DOMAIN all : t = all[k].type
    BY <2>1, Zenon DEF TypesOf, Range
  <2>3. all[k] \in Range(all)
    BY Zenon DEF Range
  <2>4. all = FlattenSeq(sq)
    BY Zenon DEF all_members
  <2>5. list \in Seq(DOMAIN loaded) /\ Len(list) \in Nat /\ DOMAIN list = 1 .. Len(list)
    BY InheritanceChain, LenProperties DEF Chain
  <2> HIDE DEF all, list, M
  <2>6. \A n \in DOMAIN list : list[n] \in DOMAIN loaded /\ sq[n] \in Seq(M)
    BY <2>5, MembersTyped DEF M
  <2>7. sq \in Seq(Seq(M)) /\ DOMAIN sq = DOMAIN list
    <3>1. sq \in [1 .. Len(list) -> Seq(M)]
      BY <2>5, <2>6
    <3> QED BY <2>5, <3>1, IsASeq
  <2>8. Range(FlattenSeq(sq)) = UNION {Range(sq[n]) : n \in DOMAIN sq}
    BY <2>7, FlattenRange, Zenon
  <2>9. PICK n \in DOMAIN list : all[k] \in Range(sq[n])
    BY <2>3, <2>4, <2>7, <2>8, Zenon
  <2> DEFINE j == list[n]
  <2>10. j \in DOMAIN loaded /\ j \in Range(list)
    BY <2>6, Zenon DEF Range
  <2>11. loaded[j].kind = "union"
    <3>1. BaseKind(loaded[i].kind) = loaded[i].kind
      BY <1>3, Zenon DEF BaseKind
    <3> QED BY <1>3, <2>10, <3>1, KindOfBases, Zenon DEF list
  <2>12. \E m \in DOMAIN loaded[j].members : all[k] = loaded[j].members[m]
    BY <2>9, Zenon DEF Range
  <2> HIDE DEF j
  <2>13. t \in MemberTypes(loaded[j])
    BY <1>1, <2>2, <2>11, <2>12
  <2> QED BY <2>10, <2>13
<1> QED BY <1>2, <1>3

------------------------------------------------------------------------------
\* What a JavaScript file refers to.
LEMMA KindsAre ==
    ASSUME NEW elem \in Elements,
           elem.kind \notin {"service", "generic struct", "generic union"}
    PROVE  elem.kind \in {"struct", "enum", "union"}
<1>1. elem.kind \in Kinds
  BY LidlcAssumption, Zenon
<1> QED BY <1>1, Zenon DEF Kinds

InScriptOf(loaded, home) == Range(InOrder(loaded, home, <<"struct", "enum", "union">>))

LEMMA InScriptIs ==
    ASSUME NEW loaded, Loaded(loaded), NEW home
    PROVE  InScriptOf(loaded, home) =
              {i \in DOMAIN loaded : loaded[i].home = home /\ loaded[i].kind \in {"struct", "enum", "union"}}
<1> DEFINE kinds == <<"struct", "enum", "union">>
           S == {"struct", "enum", "union"}
<1>1. kinds \in Seq(S) /\ Range(kinds) = S
  BY DEF Range
<1> HIDE DEF kinds, S
<1>2. Range(InOrder(loaded, home, kinds)) =
         {i \in DOMAIN loaded : loaded[i].home = home /\ loaded[i].kind \in Range(kinds)}
  BY <1>1, InOrderIs
<1>3. InScriptOf(loaded, home) = Range(InOrder(loaded, home, kinds))
  BY Zenon DEF InScriptOf, kinds
<1> QED BY <1>1, <1>2, <1>3, Zenon DEF S

LEMMA PartDefines ==
    ASSUME NEW loaded, NEW i, loaded[i].kind \in {"struct", "enum", "union"}
    PROVE  {loaded[i].name, loaded[i].name \o "Class"} \subseteq js_part(loaded, i).defines
<1>1. CASE loaded[i].kind = "struct"
  <2>1. js_part(loaded, i) = js_struct(loaded, i)
    BY <1>1 DEF js_part
  <2> QED BY <2>1 DEF js_struct, js_file
<1>2. CASE loaded[i].kind = "enum"
  <2>1. js_part(loaded, i) = js_enum(loaded[i].name)
    BY <1>2 DEF js_part
  <2> QED BY <2>1 DEF js_enum, js_file
<1>3. CASE loaded[i].kind = "union"
  <2>1. js_part(loaded, i) = js_union(loaded, i)
    BY <1>3 DEF js_part
  <2> QED BY <2>1 DEF js_union, js_file
<1> QED BY <1>1, <1>2, <1>3

\* What is not defined with it is the name or the class of a symbol in a type.
OfTypes(types, r) ==
    \E k \in DOMAIN types :
       \/ \E s \in SymbolsIn(types[k]) : r = Last(s) \o "Class"
       \/ Len(types[k].to) > 1 /\ r = Last(types[k].to)

LEMMA MembersRefer ==
    ASSUME NEW types, NEW r \in js_members(types) \cup js_ctor(types)
    PROVE  OfTypes(types, r)
<1>1. CASE r \in js_members(types)
  BY <1>1, Zenon DEF js_members, get_local_type_name, OfTypes
<1>2. CASE r \in js_ctor(types)
  <2>1. PICK k \in DOMAIN types : r \in get_local_user_obj_name(types[k])
    BY <1>2, Zenon DEF js_ctor
  <2>2. Len(types[k].to) > 1 /\ r = Last(types[k].to)
    BY <2>1 DEF get_local_user_obj_name
  <2> QED BY <2>1, <2>2, Zenon DEF OfTypes
<1> QED BY <1>1, <1>2

LEMMA PartRefers ==
    ASSUME NEW loaded, NEW i, loaded[i].kind \in {"struct", "enum", "union"},
           NEW r \in js_part(loaded, i).refers
    PROVE  \/ r \in js_part(loaded, i).defines
           \/ /\ loaded[i].kind \in {"struct", "union"}
              /\ OfTypes(TypesUsed(loaded, i), r)
<1> DEFINE types == TypesUsed(loaded, i)
           mentioned == js_members(types) \cup js_ctor(types)
           name == loaded[i].name
<1> HIDE DEF types
<1>1. CASE loaded[i].kind = "struct"
  <2>1. js_part(loaded, i) = js_struct(loaded, i)
    BY <1>1 DEF js_part
  <2>2. r \in mentioned
    BY <2>1 DEF js_struct, js_file, types
  <2> QED BY <1>1, <2>2, MembersRefer DEF types
<1>2. CASE loaded[i].kind = "enum"
  <2>1. js_part(loaded, i) = js_enum(loaded[i].name)
    BY <1>2 DEF js_part
  <2> QED BY <2>1 DEF js_enum, js_file
<1>3. CASE loaded[i].kind = "union"
  <2>1. js_part(loaded, i) = js_union(loaded, i)
    BY <1>3 DEF js_part
  <2> DEFINE own == name \o "Variants"
  <2>2. r \in {own \o "Enum", own \o "Class"} \cup mentioned
    BY <2>1 DEF js_union, js_enum, js_file, types
  <2>3. {own \o "Enum", own \o "Class"} \subseteq js_part(loaded, i).defines
    BY <2>1 DEF js_union, js_enum, js_file
  <2>4. CASE r \in mentioned
    BY <1>3, <2>4, MembersRefer DEF types
  <2> QED BY <2>2, <2>3, <2>4
<1> QED BY <1>1, <1>2, <1>3

------------------------------------------------------------------------------
\* A JavaScript file defines what it refers to: where a symbol is in the module of the
\* file and in an element, it is the element, as no element is called like a module.
LEMMA SymbolOfOwner ==
    ASSUME Loaded(program), Apart(program), NEW i \in DOMAIN program,
           NEW s \in Resolvable, s \in Seq(STRING), Front(s) = program[i].home
    PROVE  s = SymbolOf(program[Owner(program, s)])
<1> DEFINE o == Owner(program, s)
           a == SymbolOf(program[o])
<1>1. o \in DOMAIN program /\ IsPrefix(a, s)
  BY OwnerOfResolvable
<1>2. program[o] \in Elements /\ program[i] \in Elements
  BY <1>1 DEF Loaded
<1>3. a \in Seq(STRING) /\ a = Append(program[o].home, program[o].name)
      /\ program[o].home \in Seq(STRING) /\ program[i].home \in Seq(STRING)
  BY <1>2, SymbolTyped
<1>4. ~IsPrefix(a, program[i].home)
  BY <1>1, Zenon DEF Apart
<1> HIDE DEF o
<1>5. Len(a) >= 1
  BY <1>3
<1> HIDE DEF a
<1>6. Len(a) <= Len(s)
  BY <1>1, <1>3, PrefixIs
<1>7. Len(s) >= 1
  BY <1>3, <1>5, <1>6, LenProperties
<1>8. s = Append(program[i].home, Last(s)) /\ Last(s) \in STRING
  BY <1>7, SplitSymbol
<1> DEFINE home == program[i].home
           x == Last(s)
<1>9. a = s \/ IsPrefix(a, home)
  <2>1. IsPrefix(a, Append(home, x)) /\ home \in Seq(STRING) /\ x \in STRING /\ a \in Seq(STRING)
    BY <1>1, <1>3, <1>8 DEF a
  <2> HIDE DEF home, x
  <2>2. a = Append(home, x) \/ IsPrefix(a, home)
    BY <2>1, PrefixOfAppend
  <2> QED BY <1>8, <2>2, Zenon DEF home, x
<1> QED BY <1>4, <1>9 DEF a, o

LEMMA ScriptsDefine ==
    ASSUME Loaded(program), Apart(program), Closed, NEW home
    PROVE  DefinedInScript(home, JsFile(program, home))
<1> DEFINE mine == InScriptOf(program, home)
           used == UNION {Named(program[i]) : i \in DOMAIN program}
           Away(s) == \/ Front(s) # home
                      \/ program[Owner(program, s)].kind
                         \in {"service", "generic struct", "generic union"}
           absent == {s \in used : Away(s)}
           script == JsFile(program, home)
<1>1. DefinedInScript(home, script) <=>
        script.refers \subseteq
           script.defines \cup UNION {{Last(s), Last(s) \o "Class"} : s \in absent}
  BY Zenon DEF DefinedInScript
<1>2. /\ script.refers = UNION {js_part(program, i).refers : i \in mine}
      /\ script.defines = UNION {js_part(program, i).defines : i \in mine}
  BY DEF JsFile, InScriptOf
<1>3. \A i : i \in mine <=> /\ i \in DOMAIN program /\ program[i].home = home
                            /\ program[i].kind \in {"struct", "enum", "union"}
  <2>1. mine = {i \in DOMAIN program : /\ program[i].home = home
                                      /\ program[i].kind \in {"struct", "enum", "union"}}
    BY InScriptIs
  <2> HIDE DEF mine
  <2> QED BY <2>1, Zenon
<1> HIDE DEF mine, script
<1>4. ASSUME NEW i \in mine, NEW r \in js_part(program, i).refers
      PROVE  \/ r \in script.defines
             \/ \E s \in absent : r \in {Last(s), Last(s) \o "Class"}
  <2> DEFINE types == TypesUsed(program, i)
  <2>1. CASE r \in js_part(program, i).defines
    BY <1>2, <2>1, Zenon
  <2>2. CASE program[i].kind \in {"struct", "union"} /\ OfTypes(types, r)
    <3>1. PICK k \in DOMAIN types :
             \/ \E s \in SymbolsIn(types[k]) : r = Last(s) \o "Class"
             \/ Len(types[k].to) > 1 /\ r = Last(types[k].to)
      BY <2>2, Zenon DEF OfTypes
    <3>2. types[k] \in Range(types)
      BY Zenon DEF Range
    <3>3. PICK j \in DOMAIN program : types[k] \in MemberTypes(program[j])
      BY <1>3, <2>2, <3>2, UsedAreOfMembers, Zenon
    <3>4. program[j] \in Elements
      BY DEF Loaded
    <3> DEFINE t == types[k]
    <3> HIDE DEF types
    <3>5. /\ SymbolsIn(t) \subseteq Named(program[j]) /\ SymbolsIn(t) \subseteq Seq(STRING)
          /\ Len(t.to) > 1 => t.to \in SymbolsIn(t)
      BY <3>3, <3>4, SymbolsNamed
    <3>6. PICK s \in SymbolsIn(t) : r = Last(s) \o "Class" \/ r = Last(s)
      BY <3>1, <3>5, Zenon
    <3>7. s \in used /\ s \in Resolvable /\ s \in Seq(STRING)
      BY <3>5, <3>6, Zenon DEF Closed
    <3>8. CASE Away(s)
      BY <3>6, <3>7, <3>8
    <3>9. CASE ~Away(s)
      <4> DEFINE o == Owner(program, s)
      <4>1. Front(s) = program[i].home
        BY <1>3, <3>9, Zenon
      <4>2. o \in DOMAIN program
        BY <3>7, OwnerOfResolvable
      <4>3. s = SymbolOf(program[o])
        BY <1>3, <3>7, <4>1, SymbolOfOwner
      <4>4. program[o] \in Elements
        BY <4>2 DEF Loaded
      <4>5. program[o].kind \in {"struct", "enum", "union"}
        BY <3>9, <4>4, KindsAre, Zenon
      <4>6. Front(s) = program[o].home /\ Last(s) = program[o].name
        BY <4>3, <4>4, SymbolTyped
      <4> HIDE DEF o
      <4>7. o \in mine
        BY <1>3, <4>1, <4>2, <4>5, <4>6, Zenon
      <4>8. {program[o].name, program[o].name \o "Class"} \subseteq js_part(program, o).defines
        BY <4>5, PartDefines
      <4>9. r \in js_part(program, o).defines
        BY <3>6, <4>6, <4>8, Zenon
      <4> QED BY <1>2, <4>7, <4>9, Zenon
    <3> QED BY <3>8, <3>9
  <2>3. \/ r \in js_part(program, i).defines
        \/ program[i].kind \in {"struct", "union"} /\ OfTypes(types, r)
    <3>1. program[i].kind \in {"struct", "enum", "union"}
      BY <1>3, Zenon
    <3> HIDE DEF Away
    <3> QED BY <3>1, PartRefers
  <2> QED BY <2>1, <2>2, <2>3
<1> HIDE DEF absent
<1>5. script.refers \subseteq
         script.defines \cup UNION {{Last(s), Last(s) \o "Class"} : s \in absent}
  BY <1>2, <1>4, Zenon
<1> QED BY <1>1, <1>5 DEF script

------------------------------------------------------------------------------
\* What a C++ back end that ended well got past: the unions of the services that its
\* elements name are of the module or of one below it.
AtOrBelow(home) == {home} \cup Below(home)

ServicesOf(homes) == {i \in DOMAIN program : /\ program[i].home \in homes
                                             /\ program[i].kind = "service"}

LEMMA BelowListed ==
    ASSUME Loaded(program), NEW home
    PROVE  SetToSeq(Below(home)) \in Seq(Below(home))
<1> DEFINE S == Below(home)
           n == Cardinality(S)
<1>1. IsFiniteSet(S)
  <2>1. IsFiniteSet(1 .. Len(program)) /\ DOMAIN program = 1 .. Len(program)
    BY FS_Interval, LenProperties DEF Loaded
  <2>2. IsFiniteSet(Homes)
    <3> DEFINE f == [i \in DOMAIN program |-> program[i].home]
    <3>1. f \in Surjection(DOMAIN program, Homes)
      BY DEF Surjection, Homes
    <3> HIDE DEF f
    <3> QED BY <2>1, <3>1, FS_Surjection
  <2>3. S \subseteq Homes
    BY DEF Below
  <2> QED BY <2>2, <2>3, FS_Subset
<1> HIDE DEF S
<1>2. n \in Nat /\ \E f \in [1 .. n -> S] : IsInjective(f)
  <2>1. n \in Nat /\ ExistsBijection(1 .. n, S)
    BY <1>1, FS_CardinalityType
  <2> QED BY <2>1, Zenon DEF ExistsBijection, Bijection, Injection
<1>3. SetToSeq(S) \in [1 .. n -> S]
  BY <1>2, Zenon DEF SetToSeq
<1>4. SetToSeq(S) \in Seq(S)
  BY <1>2, <1>3, IsASeq
<1> QED BY <1>4 DEF S

CppKinds == <<"service", "enum", "union", "struct">>

LEMMA UnmadeWithFewer ==
    ASSUME NEW loaded, NEW i, NEW made, NEW more, made \subseteq more, ~Unmade(loaded, i, made)
    PROVE  ~Unmade(loaded, i, more)
<1>1. \A t : UnionsOf(t) \subseteq made => UnionsOf(t) \subseteq more
  OBVIOUS
<1>2. generate_unions(loaded, i, made) => generate_unions(loaded, i, more)
  BY <1>1, Zenon DEF generate_unions
<1> QED BY <1>1, <1>2, Zenon DEF Unmade

LEMMA GotPast ==
    ASSUME Loaded(program), NEW home, ~Stopped(home, CppKinds), NEW i \in DOMAIN program,
           program[i].home = home, program[i].kind \in {"service", "enum", "union", "struct"}
    PROVE  ~Unmade(program, i,
                   {SymbolOf(program[j]) : j \in ServicesOf(AtOrBelow(home))})
<1> DEFINE D == DOMAIN program
           kinds == CppKinds
           below == SetToSeq(Below(home))
           sq == [k \in DOMAIN below |-> InOrder(program, below[k], kinds)]
           mine == InOrder(program, home, kinds)
           order == FlattenSeq(sq) \o mine
           made == {SymbolOf(program[j]) : j \in ServicesOf(AtOrBelow(home))}
           S == {"service", "enum", "union", "struct"}
<1>1. kinds \in Seq(S) /\ Range(kinds) = S
  BY DEF CppKinds, Range
<1>2. \A k \in DOMAIN order : ~Unmade(program, order[k], Made(order, k - 1))
  BY Zenon DEF Stopped, CppKinds
<1> HIDE DEF kinds, S
<1>3. \A other : /\ InOrder(program, other, kinds) \in Seq(D)
                 /\ Range(InOrder(program, other, kinds)) =
                      {j \in D : program[j].home = other /\ program[j].kind \in Range(kinds)}
  BY <1>1, InOrderIs
<1>4. below \in Seq(Below(home))
  BY BelowListed
<1> HIDE DEF below
<1>5. sq \in Seq(Seq(D)) /\ DOMAIN sq = DOMAIN below /\ \A k \in DOMAIN below : below[k] \in Below(home)
  <2>1. DOMAIN below = 1 .. Len(below) /\ Len(below) \in Nat
        /\ \A k \in DOMAIN below : below[k] \in Below(home)
    BY <1>4
  <2> HIDE DEF D
  <2>2. sq \in [1 .. Len(below) -> Seq(D)]
    BY <1>3, <2>1
  <2> QED BY <2>1, <2>2, IsASeq
<1>6. \A k \in DOMAIN below : sq[k] = InOrder(program, below[k], kinds)
  OBVIOUS
<1> HIDE DEF sq
<1>7. FlattenSeq(sq) \in Seq(D) /\ Range(FlattenSeq(sq)) = UNION {Range(sq[k]) : k \in DOMAIN sq}
  BY <1>5, FlattenType, FlattenRange, Zenon
<1>8. mine \in Seq(D) /\ i \in Range(mine)
  BY <1>1, <1>3 DEF S
<1>9. order \in Seq(D) /\ Range(order) = Range(FlattenSeq(sq)) \cup Range(mine)
  <2> HIDE DEF mine, D
  <2> QED BY <1>7, <1>8, ConcatProperties, RangeConcatenation
<1>10. \A j \in Range(order) : j \in D /\ program[j].home \in AtOrBelow(home)
  <2> SUFFICES ASSUME NEW j \in Range(order)
               PROVE  j \in D /\ program[j].home \in AtOrBelow(home)
    OBVIOUS
  <2>1. CASE j \in Range(mine)
    BY <1>3, <2>1 DEF AtOrBelow
  <2>2. CASE j \in Range(FlattenSeq(sq))
    <3>1. PICK k \in DOMAIN below : j \in Range(sq[k])
      BY <1>5, <1>7, <2>2, Zenon
    <3>2. j \in D /\ program[j].home = below[k]
      BY <1>3, <1>6, <3>1, Zenon
    <3> QED BY <1>5, <3>2, Zenon DEF AtOrBelow
  <2> HIDE DEF order
  <2> QED BY <1>9, <2>1, <2>2
<1>11. PICK k \in DOMAIN order : order[k] = i
  <2>1. i \in Range(order)
    BY <1>8, <1>9, Zenon
  <2> QED BY <2>1, Zenon DEF Range
<1> HIDE DEF order
<1>12. Made(order, k - 1) \subseteq made
  <2> SUFFICES ASSUME NEW s \in Made(order, k - 1) PROVE s \in made
    OBVIOUS
  <2>1. PICK m \in 1 .. k - 1 : s = SymbolOf(program[order[m]]) /\ program[order[m]].kind = "service"
    BY Zenon DEF Made
  <2>2. order[m] \in Range(order)
    <3>1. m \in DOMAIN order
      BY <1>9, <1>11, <2>1, LenProperties
    <3> QED BY <3>1, Zenon DEF Range
  <2>3. order[m] \in ServicesOf(AtOrBelow(home))
    BY <1>10, <2>1, <2>2, Zenon DEF ServicesOf
  <2> QED BY <2>1, <2>3, Zenon
<1>13. ~Unmade(program, i, Made(order, k - 1))
  BY <1>2, <1>11
<1> HIDE DEF made
<1>14. ~Unmade(program, i, made)
  BY <1>12, <1>13, UnmadeWithFewer
<1> QED BY <1>14 DEF made

------------------------------------------------------------------------------
\* What the symbols in a C++ file are called.
LEMMA UnderSymbol ==
    ASSUME NEW elem \in Elements, NEW x, NEW s, s = SymbolOf(elem) \o <<x>>
    PROVE  s = Append(SymbolOf(elem), x) /\ Front(s) = SymbolOf(elem) /\ Last(s) = x
<1> DEFINE a == SymbolOf(elem)
           U == STRING \cup {x}
<1>1. a \in Seq(STRING)
  BY SymbolTyped
<1> HIDE DEF a
<1>2. a \in Seq(U) /\ x \in U
  BY <1>1
<1> HIDE DEF U
<1>3. a \o <<x>> = Append(a, x)
  BY <1>2, AppendIsConcat
<1>4. Front(Append(a, x)) = a /\ Last(Append(a, x)) = x
  BY <1>1, FrontLast
<1> QED BY <1>3, <1>4 DEF a

LEMMA StructsAre ==
    ASSUME NEW service, NEW s \in ProcStructs(service)
    PROVE  \E k \in DOMAIN service.members : \E suffix \in {"_params", "_results"} :
              s = SymbolOf(service) \o <<service.members[k].name \o suffix>>
BY Zenon DEF ProcStructs

LEMMA RenamedAre ==
    ASSUME NEW elem \in Elements, NEW s \in rename(elem)
    PROVE  s = Append(SymbolOf(elem), Last(s)) /\ Front(s) = SymbolOf(elem)
<1>1. \E x : s = SymbolOf(elem) \o <<x>>
  <2>1. CASE s \in UnionSymbols(elem)
    BY <2>1, Zenon DEF UnionSymbols
  <2>2. CASE s \in ProcStructs(elem)
    BY <2>2, StructsAre, Zenon
  <2> QED BY <2>1, <2>2, Zenon DEF rename
<1> QED BY <1>1, UnderSymbol

\* No element is called like another and what is in it.
LEMMA ElementsKeepNames ==
    ASSUME Loaded(program), Apart(program), NEW i \in DOMAIN program, NEW j \in DOMAIN program
    PROVE  SymbolOf(program[i]) \notin rename(program[j])
<1> SUFFICES ASSUME SymbolOf(program[i]) \in rename(program[j]) PROVE FALSE
  OBVIOUS
<1> DEFINE s == SymbolOf(program[i])
           a == SymbolOf(program[j])
           home == program[i].home
           name == program[i].name
<1>1. program[i] \in Elements /\ program[j] \in Elements
  BY DEF Loaded
<1>2. s = Append(a, Last(s))
  BY <1>1, RenamedAre
<1>3. home \in Seq(STRING) /\ s = Append(home, name) /\ a \in Seq(STRING)
  BY <1>1, SymbolTyped
<1>4. ~IsPrefix(a, home)
  BY Zenon DEF Apart
<1> HIDE DEF a, home, name, s
<1>5. a = home
  <2> DEFINE x == Last(s)
  <2>1. Append(a, x) = Append(home, name)
    BY <1>2, <1>3
  <2> HIDE DEF x
  <2> QED BY <1>3, <2>1, AppendsEqual
<1>6. IsPrefix(a, a)
  BY <1>3, PrefixIs, LenProperties
<1> QED BY <1>4, <1>5, <1>6

\* A union of a service that is in the text of a module was made for it.
LEMMA UnionsSeen ==
    ASSUME Loaded(program), Apart(program), NEW home, ~Stopped(home, CppKinds),
           NEW i \in DOMAIN program, program[i].home = home,
           NEW s \in cpp_refers(program, i), NEW j \in DOMAIN program,
           s \in UnionSymbols(program[j])
    PROVE  j \in ServicesOf(AtOrBelow(home))
<1> DEFINE made == {SymbolOf(program[k]) : k \in ServicesOf(AtOrBelow(home))}
<1>1. program[i] \in Elements /\ program[j] \in Elements
  BY DEF Loaded
<1>2. PICK u \in ServiceUnions : s = SymbolOf(program[j]) \o <<u>>
  BY Zenon DEF UnionSymbols
<1>3. s \in rename(program[j])
  BY Zenon DEF rename
<1>4. Front(s) = SymbolOf(program[j]) /\ Last(s) = u
  BY <1>1, <1>2, UnderSymbol
<1>5. ASSUME NEW t, s \in SymbolsIn(t), UnionsOf(t) \subseteq made
      PROVE  j \in ServicesOf(AtOrBelow(home))
  <2>1. Front(s) \in UnionsOf(t)
    BY <1>4, <1>5, Zenon DEF UnionsOf
  <2>2. PICK k \in ServicesOf(AtOrBelow(home)) : SymbolOf(program[j]) = SymbolOf(program[k])
    BY <1>4, <1>5, <2>1
  <2>3. k \in DOMAIN program
    BY Zenon DEF ServicesOf
  <2>4. j = k
    BY <2>2, <2>3, Zenon DEF Loaded
  <2> QED BY <2>4
<1>6. program[i].kind \in {"service", "enum", "union", "struct"} => ~Unmade(program, i, made)
  BY GotPast
<1> HIDE DEF made
<1>7. CASE program[i].kind = "service"
  <2>1. generate_unions(program, i, made)
    BY <1>6, <1>7 DEF Unmade
  <2>2. \A n \in Range(inheritance_list(program, i)) : /\ n \in DOMAIN program
                                                       /\ program[n].kind = "service"
    <3>1. BaseKind(program[i].kind) = program[i].kind
      BY <1>7 DEF BaseKind
    <3>2. \A n \in Range(inheritance_list(program, i)) : program[n].kind = program[i].kind
      BY <3>1, KindOfBases
    <3> QED BY <1>7, <3>2, InChain
  <2>3. \/ s \in Range(program[i].base)
        \/ \E k \in DOMAIN program[i].members : \E t \in ProcTypes(program[i].members[k]) :
              s \in SymbolsIn(t)
        \/ \E n \in Range(inheritance_list(program, i)) : s \in ProcStructs(program[n])
    <3>1. cpp_refers(program, i) =
            UNION ({Range(program[i].base)}
                   \cup {SymbolsIn(t) : t \in UNION {ProcTypes(program[i].members[k]) :
                                                     k \in DOMAIN program[i].members}}
                   \cup {ProcStructs(program[n]) : n \in Range(inheritance_list(program, i))})
      BY <1>7 DEF cpp_refers
    <3> QED BY <3>1, Zenon
  <2>4. CASE s \in Range(program[i].base)
    <3>1. program[i].base # <<>>
      BY <2>4, RangeOfFew
    <3>2. PICK n \in Bases(program, i) : TRUE
      BY <3>1, BasesBefore
    <3>3. n \in DOMAIN program /\ program[i].base = <<SymbolOf(program[n])>>
      BY Zenon DEF Bases
    <3>4. s = SymbolOf(program[n])
      <4>1. Range(<<SymbolOf(program[n])>>) = {SymbolOf(program[n])}
        BY RangeOfFew
      <4> QED BY <2>4, <3>3, <4>1, Zenon
    <3> QED BY <1>3, <3>3, <3>4, ElementsKeepNames
  <2>5. CASE \E k \in DOMAIN program[i].members : \E t \in ProcTypes(program[i].members[k]) :
               s \in SymbolsIn(t)
    <3>1. i \in Range(inheritance_list(program, i))
      BY InChain
    <3> QED BY <1>5, <2>1, <2>5, <3>1, Zenon DEF generate_unions
  <2>6. CASE \E n \in Range(inheritance_list(program, i)) : s \in ProcStructs(program[n])
    <3>1. PICK n \in Range(inheritance_list(program, i)) : s \in ProcStructs(program[n])
      BY <2>6
    <3>2. n \in DOMAIN program /\ program[n].kind = "service"
      BY <2>2, <3>1, Zenon
    <3>3. program[n] \in Elements
      BY <3>2 DEF Loaded
    <3>4. PICK k \in DOMAIN program[n].members, suffix \in {"_params", "_results"} :
             s = SymbolOf(program[n]) \o <<program[n].members[k].name \o suffix>>
      BY <3>1, StructsAre
    <3>5. program[n].members[k] \in Range(program[n].members)
      BY Zenon DEF Range
    <3>6. program[n].members[k].name \o suffix \notin ServiceUnions
      BY <3>2, <3>3, <3>5, LidlcAssumption, Zenon
    <3>7. Last(s) = program[n].members[k].name \o suffix
      BY <3>3, <3>4, SymbolParts, Zenon
    <3> QED BY <1>4, <3>6, <3>7, Zenon
  <2> QED BY <2>3, <2>4, <2>5, <2>6
<1>8. CASE program[i].kind \in {"struct", "union"}
  <2>1. program[i].kind # "service" /\ ~Unmade(program, i, made)
    BY <1>6, <1>8
  <2>2. \A t \in Range(TypesUsed(program, i)) : UnionsOf(t) \subseteq made
    BY <2>1, Zenon DEF Unmade
  <2>3. cpp_refers(program, i) = UNION {SymbolsIn(t) : t \in Range(TypesUsed(program, i))}
    BY <1>8 DEF cpp_refers
  <2>4. PICK t \in Range(TypesUsed(program, i)) : s \in SymbolsIn(t)
    BY <2>3
  <2> QED BY <1>5, <2>2, <2>4
<1>9. CASE program[i].kind \notin {"service", "struct", "union"}
  <2>1. cpp_refers(program, i) = {}
    BY <1>9 DEF cpp_refers
  <2> QED BY <2>1
<1> QED BY <1>7, <1>8, <1>9

LEMMA CppFileIs ==
    ASSUME NEW home
    PROVE  LET file == CppFile(program, home, Below(home))
               renamed == UNION {rename(program[k]) : k \in ServicesOf(AtOrBelow(home))}
           IN  /\ \A used \in file.refers :
                     /\ used.name = cpp_identifier(used.symbol, renamed)
                     /\ \E i \in DOMAIN program : /\ program[i].home = home
                                                  /\ used.symbol \in cpp_refers(program, i)
               /\ \A defined \in file.defines :
                     \/ /\ defined.name = defined.symbol
                        /\ \E i \in DOMAIN program : defined.symbol = SymbolOf(program[i])
                     \/ \E j \in ServicesOf({home}) :
                           /\ defined.symbol \in rename(program[j])
                           /\ defined.name = Front(defined.symbol)
                                             \o <<"wire_types", Last(defined.symbol)>>
<1> DEFINE In(homes) == {i \in DOMAIN program : program[i].home \in homes}
           Services(homes) == {i \in In(homes) : program[i].kind = "service"}
           renamed == UNION {rename(program[i]) : i \in Services({home} \cup Below(home))}
           Written == {[symbol |-> SymbolOf(program[i]), name |-> SymbolOf(program[i])] : i \in In({home})}
           file == CppFile(program, home, Below(home))
<1>1. /\ file.defines = Written \cup UNION {generate_wire_types(program[i]) : i \in Services({home})}
      /\ file.refers = {[symbol |-> s, name |-> cpp_identifier(s, renamed)] :
                          s \in UNION {cpp_refers(program, i) : i \in In({home})}}
  BY DEF CppFile
<1>2. \A homes : Services(homes) = ServicesOf(homes)
  BY Zenon DEF ServicesOf
<1>3. renamed = UNION {rename(program[k]) : k \in ServicesOf(AtOrBelow(home))}
  BY <1>2, Zenon DEF AtOrBelow
<1> HIDE DEF file, renamed, Services
<1>4. ASSUME NEW used \in file.refers
      PROVE  /\ used.name = cpp_identifier(used.symbol, renamed)
             /\ \E i \in DOMAIN program : /\ program[i].home = home
                                          /\ used.symbol \in cpp_refers(program, i)
  <2>1. PICK i \in In({home}) : \E s \in cpp_refers(program, i) :
           used = [symbol |-> s, name |-> cpp_identifier(s, renamed)]
    BY <1>1, Zenon
  <2> PICK s \in cpp_refers(program, i) :
         used = [symbol |-> s, name |-> cpp_identifier(s, renamed)]
    BY <2>1
  <2>2. used.symbol = s /\ used.name = cpp_identifier(s, renamed)
    OBVIOUS
  <2>3. i \in DOMAIN program /\ program[i].home = home
    OBVIOUS
  <2> QED BY <2>1, <2>2, <2>3, Zenon
<1>5. ASSUME NEW defined \in file.defines
      PROVE  \/ /\ defined.name = defined.symbol
                /\ \E i \in DOMAIN program : defined.symbol = SymbolOf(program[i])
             \/ \E j \in ServicesOf({home}) :
                   /\ defined.symbol \in rename(program[j])
                   /\ defined.name = Front(defined.symbol)
                                     \o <<"wire_types", Last(defined.symbol)>>
  <2>1. CASE defined \in Written
    <3>1. PICK i \in DOMAIN program :
             defined = [symbol |-> SymbolOf(program[i]), name |-> SymbolOf(program[i])]
      BY <2>1, Zenon
    <3>2. defined.symbol = SymbolOf(program[i]) /\ defined.name = SymbolOf(program[i])
      BY <3>1
    <3> QED BY <3>2, Zenon
  <2>2. CASE \E j \in ServicesOf({home}) : defined \in generate_wire_types(program[j])
    <3>1. PICK j \in ServicesOf({home}) : defined \in generate_wire_types(program[j])
      BY <2>2
    <3>2. PICK s \in rename(program[j]) :
             defined = [symbol |-> s, name |-> Front(s) \o <<"wire_types", Last(s)>>]
      BY <3>1, Zenon DEF generate_wire_types, rename
    <3>3. defined.symbol = s /\ defined.name = Front(s) \o <<"wire_types", Last(s)>>
      BY <3>2
    <3> QED BY <3>1, <3>2, <3>3, Zenon
  <2> QED BY <1>1, <1>2, <2>1, <2>2, Zenon
<1> QED BY <1>3, <1>4, <1>5, Zenon DEF file

LEMMA HeadersCall ==
    ASSUME Loaded(program), Apart(program), NEW home, NEW other, ~Stopped(home, CppKinds),
           NEW used \in CppFile(program, home, Below(home)).refers,
           NEW defined \in CppFile(program, other, Below(other)).defines,
           used.symbol = defined.symbol
    PROVE  \/ used.name = defined.name
           \/ home # other /\ \E i \in DOMAIN program :
                                 /\ program[i].kind = "service"
                                 /\ used.symbol \in ProcStructs(program[i])
<1> DEFINE s == used.symbol
           renamed == UNION {rename(program[k]) : k \in ServicesOf(AtOrBelow(home))}
<1>1. used.name = cpp_identifier(s, renamed)
  BY CppFileIs, Zenon
<1>2. PICK i \in DOMAIN program : program[i].home = home /\ s \in cpp_refers(program, i)
  BY CppFileIs, Zenon
<1>3. CASE /\ defined.name = s
           /\ \E k \in DOMAIN program : s = SymbolOf(program[k])
  <2>1. s \notin renamed
    BY <1>3, ElementsKeepNames, Zenon DEF ServicesOf
  <2> QED BY <1>1, <1>3, <2>1, Zenon DEF cpp_identifier
<1>4. CASE \E j \in ServicesOf({other}) :
              /\ s \in rename(program[j])
              /\ defined.name = Front(s) \o <<"wire_types", Last(s)>>
  <2>1. PICK j \in ServicesOf({other}) :
           /\ s \in rename(program[j])
           /\ defined.name = Front(s) \o <<"wire_types", Last(s)>>
    BY <1>4, Zenon
  <2>2. j \in DOMAIN program /\ program[j].kind = "service" /\ program[j].home = other
    BY DEF ServicesOf
  <2>3. CASE s \in renamed
    BY <1>1, <2>1, <2>3, Zenon DEF cpp_identifier
  <2>4. CASE s \notin renamed
    <3>1. j \notin ServicesOf(AtOrBelow(home))
      BY <2>1, <2>4, Zenon
    <3>2. home # other
      BY <2>2, <3>1 DEF ServicesOf, AtOrBelow
    <3>3. s \notin UnionSymbols(program[j])
      BY <1>2, <2>2, <3>1, UnionsSeen, Zenon
    <3>4. s \in ProcStructs(program[j])
      BY <2>1, <3>3, Zenon DEF rename
    <3> QED BY <2>2, <3>2, <3>4, Zenon
  <2> QED BY <2>3, <2>4
<1>5. \/ /\ defined.name = s
         /\ \E k \in DOMAIN program : s = SymbolOf(program[k])
      \/ \E j \in ServicesOf({other}) :
            /\ s \in rename(program[j])
            /\ defined.name = Front(s) \o <<"wire_types", Last(s)>>
  <2> DEFINE d == defined.symbol
  <2>1. \/ /\ defined.name = d
           /\ \E k \in DOMAIN program : d = SymbolOf(program[k])
        \/ \E j \in ServicesOf({other}) :
              /\ d \in rename(program[j])
              /\ defined.name = Front(d) \o <<"wire_types", Last(d)>>
    BY CppFileIs, Zenon
  <2>2. d = s
    OBVIOUS
  <2> HIDE DEF d, s
  <2> QED BY <2>1, <2>2, Zenon
<1> QED BY <1>3, <1>4, <1>5

------------------------------------------------------------------------------
\* What is in the files.  Elements are only defined while there are none, so each file is
\* what its back end writes for the elements there are; a C++ file is there only when
\* nothing stopped its back end, and no back end gets to work when a symbol of the
\* elements stands for nothing.
BelowOf(loaded, home) ==
    {other \in {loaded[i].home : i \in DOMAIN loaded} : IsPrefix(home, other) /\ other # home}

MadeOf(loaded, order, n) ==
    {SymbolOf(loaded[order[k]]) : k \in {j \in 1 .. n : loaded[order[j]].kind = "service"}}

StoppedOf(loaded, home) ==
    LET below == SetToSeq(BelowOf(loaded, home))
        order == FlattenSeq([k \in DOMAIN below |-> InOrder(loaded, below[k], CppKinds)])
                 \o InOrder(loaded, home, CppKinds)
    IN  \E k \in DOMAIN order : Unmade(loaded, order[k], MadeOf(loaded, order, k - 1))

ClosedOf(loaded) ==
    \A i \in DOMAIN loaded :
       Named(loaded[i]) \subseteq
          {SymbolOf(loaded[j]) : j \in DOMAIN loaded}
          \cup UNION {{Append(SymbolOf(loaded[j]), name) : name \in BuiltIn(loaded[j].kind)} :
                        j \in DOMAIN loaded}

InPythonFile(loaded, path, file) ==
    \/ file.classes = <<>> /\ file.elems = <<>>
    \/ \E i \in DOMAIN loaded : /\ path = SymbolOf(loaded[i])
                                /\ loaded[i].kind \in {"service", "enum", "struct", "union"}
                                /\ file = PythonFile(loaded, i)

PythonFits(loaded, fs) == \A path \in DOMAIN fs : InPythonFile(loaded, path, fs[path])

ScriptsFit(loaded, scr) ==
    \A home \in DOMAIN scr : ClosedOf(loaded) /\ scr[home] \subseteq {JsFile(loaded, home)}

HeadersFit(loaded, hdr) ==
    \A home \in DOMAIN hdr :
       /\ hdr[home] \subseteq {CppFile(loaded, home, BelowOf(loaded, home))}
       /\ hdr[home] # {} => ~StoppedOf(loaded, home)

FilesInv ==
    /\ Loaded(program) /\ Apart(program)
    /\ PythonFits(program, files)
    /\ ScriptsFit(program, scripts)
    /\ HeadersFit(program, headers)

LEMMA OfProgram ==
    /\ \A home : Below(home) = BelowOf(program, home)
    /\ \A home : Stopped(home, CppKinds) <=> StoppedOf(program, home)
    /\ Closed <=> ClosedOf(program)
<1>1. \A home : Below(home) = BelowOf(program, home)
  BY Zenon DEF Below, BelowOf, Homes
<1>2. \A order, n : Made(order, n) = MadeOf(program, order, n)
  BY Zenon DEF Made, MadeOf
<1>3. \A home : Stopped(home, CppKinds) <=> StoppedOf(program, home)
  BY <1>1, <1>2, Zenon DEF Stopped, StoppedOf
<1>4. Closed <=> ClosedOf(program)
  BY Zenon DEF Closed, ClosedOf, Resolvable, Symbols
<1> QED BY <1>1, <1>3, <1>4

------------------------------------------------------------------------------
\* Files that are as FilesInv says fit together.
LEMMA ElemsAre ==
    ASSUME NEW loaded, NEW i, loaded[i].kind \in {"service", "enum", "struct", "union"}
    PROVE  PythonFile(loaded, i).elems = IF loaded[i].kind = "struct" THEN <<>>
                                         ELSE Numbered(loaded, i)
<1>1. CASE loaded[i].kind = "service"
  <2>1. PythonFile(loaded, i) = service_file(loaded, i)
    BY <1>1 DEF PythonFile
  <2>2. service_file(loaded, i).elems = Numbered(loaded, i)
    BY Zenon DEF service_file, File
  <2> QED BY <1>1, <2>1, <2>2
<1>2. CASE loaded[i].kind = "enum"
  <2>1. PythonFile(loaded, i) = enum_file(loaded, i)
    BY <1>2 DEF PythonFile
  <2>2. enum_file(loaded, i).elems = Numbered(loaded, i)
    BY Zenon DEF enum_file, File
  <2> QED BY <1>2, <2>1, <2>2
<1>3. CASE loaded[i].kind = "struct"
  <2>1. PythonFile(loaded, i) = struct_file(loaded, i)
    BY <1>3 DEF PythonFile
  <2>2. struct_file(loaded, i).elems = <<>>
    BY Zenon DEF struct_file, File
  <2> QED BY <1>3, <2>1, <2>2
<1>4. CASE loaded[i].kind = "union"
  <2>1. PythonFile(loaded, i) = union_file(loaded, i)
    BY <1>4 DEF PythonFile
  <2>2. union_file(loaded, i).elems = Numbered(loaded, i)
    BY Zenon DEF union_file, File
  <2> QED BY <1>4, <2>1, <2>2
<1> QED BY <1>1, <1>2, <1>3, <1>4

LEMMA WholeElems ==
    ASSUME Loaded(program), PythonFits(program, files), NEW i \in DOMAIN program,
           SymbolOf(program[i]) \in DOMAIN files
    PROVE  LET file == files[SymbolOf(program[i])]
           IN  \/ file.classes = <<>> /\ file.elems = <<>>
               \/ /\ program[i].kind \in {"service", "enum", "struct", "union"}
                  /\ file.elems = IF program[i].kind = "struct" THEN <<>>
                                  ELSE Numbered(program, i)
<1> DEFINE path == SymbolOf(program[i])
           file == files[path]
<1>1. InPythonFile(program, path, file)
  BY Zenon DEF PythonFits
<1>2. \A j \in DOMAIN program : SymbolOf(program[j]) = path => j = i
  BY Zenon DEF Loaded
<1> HIDE DEF file
<1>3. CASE file.classes = <<>> /\ file.elems = <<>>
  BY <1>3, Zenon DEF file
<1>4. CASE \E j \in DOMAIN program : /\ path = SymbolOf(program[j])
                                     /\ program[j].kind \in {"service", "enum", "struct", "union"}
                                     /\ file = PythonFile(program, j)
  <2>1. /\ program[i].kind \in {"service", "enum", "struct", "union"}
        /\ file = PythonFile(program, i)
    BY <1>2, <1>4, Zenon
  <2>2. file.elems = IF program[i].kind = "struct" THEN <<>> ELSE Numbered(program, i)
    BY <2>1, ElemsAre
  <2> QED BY <2>1, <2>2, Zenon DEF file
<1> QED BY <1>1, <1>3, <1>4, Zenon DEF InPythonFile

LEMMA FilesNumber == FilesInv => SameNumbers
<1> SUFFICES ASSUME FilesInv, NEW i \in DOMAIN program, Whole(SymbolOf(program[i]))
             PROVE  LET elems == files[SymbolOf(program[i])].elems IN
                    /\ \A k \in DOMAIN elems : elems[k].value = k - 1
                    /\ \A base \in Range(program[i].base) \cap DOMAIN files :
                          IsPrefix(files[base].elems, elems)
                    /\ \A home \in DOMAIN scripts : \A script \in scripts[home] :
                          i \in DOMAIN script.elems => IsSuffix(script.elems[i], elems)
                    /\ \A home \in DOMAIN headers : \A header \in headers[home] :
                          i \in DOMAIN header.elems => header.elems[i] = elems
  BY Zenon DEF SameNumbers
<1>1. /\ Loaded(program) /\ PythonFits(program, files) /\ ScriptsFit(program, scripts)
      /\ HeadersFit(program, headers)
  BY DEF FilesInv
<1> DEFINE elems == files[SymbolOf(program[i])].elems
           numbers == Numbered(program, i)
<1>2. /\ program[i].kind \in {"service", "enum", "struct", "union"}
      /\ elems = IF program[i].kind = "struct" THEN <<>> ELSE numbers
  BY <1>1, WholeElems, Zenon DEF Whole
<1>3. /\ \A k \in DOMAIN numbers : numbers[k].value = k - 1
      /\ \A j \in Bases(program, i) : IsPrefix(Numbered(program, j), numbers)
      /\ IsSuffix(js_elems(program, i), numbers)
      /\ cpp_elems(program, i) = numbers
  BY <1>1, NumbersAre, Zenon
<1>4. numbers \in Seq(Numbering(program))
  BY <1>1, PartsTyped
<1> HIDE DEF numbers, elems
<1>5. elems \in Seq(Numbering(program))
  BY <1>2, <1>4
<1>6. \A k \in DOMAIN elems : elems[k].value = k - 1
  BY <1>2, <1>3
<1>7. ASSUME NEW base \in Range(program[i].base) \cap DOMAIN files
      PROVE  IsPrefix(files[base].elems, elems)
  <2>1. program[i].base # <<>>
    BY RangeOfFew
  <2>2. PICK j \in Bases(program, i) : TRUE
    BY <1>1, <2>1, BasesBefore
  <2>3. /\ j \in DOMAIN program /\ program[i].base = <<SymbolOf(program[j])>>
        /\ program[j].kind = BaseKind(program[i].kind)
    BY Zenon DEF Bases
  <2>4. base = SymbolOf(program[j])
    <3>1. Range(<<SymbolOf(program[j])>>) = {SymbolOf(program[j])}
      BY RangeOfFew
    <3> QED BY <2>3, <3>1, Zenon
  <2>5. program[j].kind = program[i].kind
    BY <1>2, <2>3 DEF BaseKind
  <2>6. \/ files[base].elems = <<>>
        \/ program[j].kind # "struct" /\ files[base].elems = Numbered(program, j)
    BY <1>1, <2>3, <2>4, WholeElems, Zenon
  <2>7. CASE files[base].elems = <<>>
    <3> DEFINE S == Numbering(program)
               none == files[base].elems
    <3>1. none \in Seq(S) /\ Len(none) = 0
      BY <2>7
    <3> HIDE DEF S, none
    <3>2. Len(none) <= Len(elems) /\ \A k \in 1 .. Len(none) : none[k] = elems[k]
      BY <1>5, <3>1, LenProperties
    <3>3. IsPrefix(none, elems)
      BY <1>5, <3>1, <3>2, PrefixIs DEF S
    <3> QED BY <3>3 DEF none
  <2>8. CASE program[j].kind # "struct" /\ files[base].elems = Numbered(program, j)
    BY <1>2, <1>3, <2>5, <2>8, Zenon
  <2> QED BY <2>6, <2>7, <2>8
<1>8. ASSUME NEW home \in DOMAIN scripts, NEW script \in scripts[home],
             i \in DOMAIN script.elems
      PROVE  IsSuffix(script.elems[i], elems)
  <2>1. script = JsFile(program, home)
    BY <1>1, Zenon DEF ScriptsFit
  <2> DEFINE D == {j \in InScriptOf(program, home) : program[j].kind \in {"enum", "union"}}
  <2>2. script.elems = [j \in D |-> js_elems(program, j)]
    BY <2>1, Zenon DEF JsFile, InScriptOf
  <2>3. i \in D /\ program[i].kind \in {"enum", "union"}
    <3>1. i \in D
      BY <1>8, <2>2, Zenon
    <3> QED BY <3>1
  <2>4. script.elems[i] = js_elems(program, i)
    <3> HIDE DEF D
    <3> QED BY <2>2, <2>3, Zenon
  <2>5. elems = numbers
    BY <1>2, <2>3
  <2> QED BY <1>3, <2>4, <2>5, Zenon
<1>9. ASSUME NEW home \in DOMAIN headers, NEW header \in headers[home],
             i \in DOMAIN header.elems
      PROVE  header.elems[i] = elems
  <2>1. header = CppFile(program, home, BelowOf(program, home))
    BY <1>1, Zenon DEF HeadersFit
  <2> DEFINE In(homes) == {j \in DOMAIN program : program[j].home \in homes}
             D == {j \in In({home}) : program[j].kind = "service"}
  <2>2. header.elems = [j \in D |-> cpp_elems(program, j)]
    BY <2>1, Zenon DEF CppFile
  <2>3. i \in D
    BY <1>9, <2>2, Zenon
  <2>4. program[i].kind = "service"
    BY <2>3
  <2>5. header.elems[i] = cpp_elems(program, i)
    <3> HIDE DEF D
    <3> QED BY <2>2, <2>3, Zenon
  <2>6. elems = numbers
    BY <1>2, <2>4
  <2> QED BY <1>3, <2>5, <2>6, Zenon
<1> QED BY <1>6, <1>7, <1>8, <1>9, Zenon DEF elems

LEMMA FilesDefine == FilesInv => NamesDefined
<1> SUFFICES ASSUME FilesInv PROVE NamesDefined
  OBVIOUS
<1>1. /\ Loaded(program) /\ Apart(program) /\ ScriptsFit(program, scripts)
      /\ HeadersFit(program, headers)
  BY DEF FilesInv
<1>2. ASSUME NEW home \in DOMAIN scripts, NEW script \in scripts[home]
      PROVE  DefinedInScript(home, script)
  <2>1. ClosedOf(program) /\ script = JsFile(program, home)
    BY <1>1, Zenon DEF ScriptsFit
  <2>2. Closed
    BY <2>1, OfProgram
  <2>3. DefinedInScript(home, JsFile(program, home))
    BY <1>1, <2>2, ScriptsDefine
  <2> QED BY <2>1, <2>3, Zenon
<1>3. ASSUME NEW home \in DOMAIN headers, NEW other \in DOMAIN headers
      PROVE  CalledAsDefined(home, other)
  <2> SUFFICES ASSUME NEW header \in headers[home], NEW file \in headers[other],
                      NEW used \in header.refers, NEW defined \in file.defines,
                      used.symbol = defined.symbol
               PROVE  \/ used.name = defined.name
                      \/ home # other /\ \E i \in DOMAIN program :
                                            /\ program[i].kind = "service"
                                            /\ used.symbol \in ProcStructs(program[i])
    BY Zenon DEF CalledAsDefined
  <2>1. /\ header = CppFile(program, home, Below(home))
        /\ file = CppFile(program, other, Below(other))
    BY <1>1, OfProgram, Zenon DEF HeadersFit
  <2>2. ~Stopped(home, CppKinds)
    <3>1. headers[home] # {}
      OBVIOUS
    <3> QED BY <1>1, <3>1, OfProgram, Zenon DEF HeadersFit
  <2> QED BY <1>1, <2>1, <2>2, HeadersCall
<1> QED BY <1>2, <1>3, Zenon DEF NamesDefined

------------------------------------------------------------------------------
\* Every step keeps the files as FilesInv says.
LEMMA AddedIs ==
    ASSUME NEW f, NEW g, NEW h, h = f ++ g, NEW x \in DOMAIN h
    PROVE  (x \in DOMAIN f /\ h[x] = f[x]) \/ (x \in DOMAIN g /\ h[x] = g[x])
<1> DEFINE D == DOMAIN f \cup DOMAIN g
           At(y) == IF y \in DOMAIN f THEN f[y] ELSE g[y]
<1>1. h = [y \in D |-> At(y)]
  BY Zenon DEF ++
<1>2. x \in D /\ h[x] = At(x)
  <2> HIDE DEF D, At
  <2> QED BY <1>1, Zenon
<1>3. CASE x \in DOMAIN f
  BY <1>2, <1>3
<1>4. CASE x \notin DOMAIN f
  <2>1. x \in DOMAIN g
    BY <1>2, <1>4
  <2>2. h[x] = g[x]
    BY <1>2, <1>4
  <2> QED BY <2>1, <2>2
<1> QED BY <1>3, <1>4

LEMMA ApartWith ==
    ASSUME Loaded(program), Apart(program), NEW elem \in Elements, Define(elem)
    PROVE  Apart(program')
<1> DEFINE n == Len(program)
           new == Append(program, elem)
<1>1. /\ program' = new
      /\ \A home \in Homes : ~IsPrefix(SymbolOf(elem), home)
      /\ \A symbol \in Symbols : ~IsPrefix(symbol, elem.home)
  BY Zenon DEF Define
<1>2. /\ program \in Seq(Elements) /\ n \in Nat /\ DOMAIN program = 1 .. n
  BY DEF Loaded
<1>3. /\ DOMAIN new = 1 .. n + 1 /\ new[n + 1] = elem /\ \A i \in 1 .. n : new[i] = program[i]
  BY <1>2
<1> HIDE DEF new, n
<1>4. \A i \in 1 .. n + 1 : i = n + 1 \/ i \in 1 .. n
  BY <1>2
<1>5. ~IsPrefix(SymbolOf(elem), elem.home)
  <2> DEFINE home == elem.home
             name == elem.name
             s == SymbolOf(elem)
  <2>1. home \in Seq(STRING) /\ s \in Seq(STRING) /\ s = Append(home, name)
    BY SymbolTyped
  <2> HIDE DEF home, name, s
  <2>2. Len(s) = Len(home) + 1 /\ Len(home) \in Nat
    BY <2>1, LenProperties
  <2>3. ~(Len(s) <= Len(home))
    BY <2>2
  <2>4. ~IsPrefix(s, home)
    BY <2>1, <2>3, PrefixIs
  <2> QED BY <2>4 DEF home, s
<1>6. ASSUME NEW i \in 1 .. n + 1, NEW j \in 1 .. n + 1
      PROVE  ~IsPrefix(SymbolOf(new[i]), new[j].home)
  <2>1. CASE i \in 1 .. n /\ j \in 1 .. n
    BY <1>2, <1>3, <2>1, Zenon DEF Apart
  <2>2. CASE i \in 1 .. n /\ j = n + 1
    <3>1. SymbolOf(program[i]) \in Symbols
      BY <1>2, <2>2, Zenon DEF Symbols
    <3> QED BY <1>1, <1>3, <2>2, <3>1, Zenon
  <2>3. CASE i = n + 1 /\ j \in 1 .. n
    <3>1. program[j].home \in Homes
      BY <1>2, <2>3, Zenon DEF Homes
    <3> QED BY <1>1, <1>3, <2>3, <3>1, Zenon
  <2>4. CASE i = n + 1 /\ j = n + 1
    BY <1>3, <1>5, <2>4, Zenon
  <2> QED BY <1>4, <2>1, <2>2, <2>3, <2>4
<1> QED BY <1>1, <1>3, <1>6, Zenon DEF Apart

\* What is left of the element that stops the Python back end is cut short.
LEMMA LeftFits ==
    ASSUME NEW order, NEW left \in Left(order), NEW path \in DOMAIN left
    PROVE  left[path].classes = <<>> /\ left[path].elems = <<>>
<1> DEFINE n == Passed(order)
           s == SymbolOf(program[order[n + 1]])
           types == TypesUsed(program, order[n + 1])
           cut == CutFile(program, types)
<1>1. left = <<>> \/ left = [x \in {s} |-> cut]
  BY Zenon DEF Left
<1>2. cut.classes = <<>> /\ cut.elems = <<>>
  BY DEF CutFile, File
<1> HIDE DEF cut, s
<1>3. left # <<>>
  <2>1. DOMAIN <<>> = {}
    OBVIOUS
  <2> QED BY <2>1, Zenon
<1>4. left[path] = cut
  BY <1>1, <1>3
<1> QED BY <1>2, <1>4

LEMMA PythonFilesFit ==
    ASSUME Loaded(program), PythonFits(program, files), NEW home, GeneratePython(home)
    PROVE  PythonFits(program, files')
<1> DEFINE order == InPython(home)
           n == Passed(order)
           passed == {order[k] : k \in 1 .. n}
           made == {SymbolOf(program[i]) : i \in passed}
           new == [path \in made |->
                     PythonFile(program, CHOOSE i \in passed : SymbolOf(program[i]) = path)]
<1>1. PICK left \in Left(order) : files' = files ++ new ++ left
  BY Zenon DEF GeneratePython
<1>2. /\ order \in Seq(DOMAIN program)
      /\ \A i : i \in Range(order) <=>
                   /\ i \in DOMAIN program /\ program[i].home = home
                   /\ program[i].kind \in {"service", "enum", "struct", "union"}
  <2>1. order = InPythonOf(program, home)
    BY DEF InPython, InPythonOf
  <2> HIDE DEF order
  <2>2. /\ InPythonOf(program, home) \in Seq(DOMAIN program)
        /\ \A i : i \in Range(InPythonOf(program, home)) <=>
                   /\ i \in DOMAIN program /\ program[i].home = home
                   /\ program[i].kind \in {"service", "enum", "struct", "union"}
    BY InPythonIs
  <2> QED BY <2>1, <2>2, Zenon
<1> HIDE DEF order
<1>3. passed \subseteq Range(order)
  <2>1. n \in 0 .. Len(order)
    BY <1>2, PassedIs
  <2>2. Len(order) \in Nat /\ DOMAIN order = 1 .. Len(order)
    BY <1>2, LenProperties
  <2> HIDE DEF n
  <2>3. \A k \in 1 .. n : k \in DOMAIN order
    BY <2>1, <2>2
  <2> QED BY <2>3, Zenon DEF Range
<1> HIDE DEF n
<1>4. ASSUME NEW path \in made
      PROVE  InPythonFile(program, path, new[path])
  <2> DEFINE i == CHOOSE j \in passed : SymbolOf(program[j]) = path
  <2>1. i \in passed /\ SymbolOf(program[i]) = path
    <3>1. \E j \in passed : SymbolOf(program[j]) = path
      BY Zenon
    <3> QED BY <3>1, Zenon
  <2>2. new[path] = PythonFile(program, i)
    BY Zenon
  <2> HIDE DEF i, new, passed
  <2>3. i \in DOMAIN program /\ program[i].kind \in {"service", "enum", "struct", "union"}
    BY <1>2, <1>3, <2>1, Zenon
  <2> QED BY <2>1, <2>2, <2>3, Zenon DEF InPythonFile
<1>5. DOMAIN new = made
  BY Zenon
<1> HIDE DEF new, made
<1> SUFFICES ASSUME NEW path \in DOMAIN files' PROVE InPythonFile(program, path, files'[path])
  BY Zenon DEF PythonFits
<1>6. \/ path \in DOMAIN (files ++ new) /\ files'[path] = (files ++ new)[path]
      \/ path \in DOMAIN left /\ files'[path] = left[path]
  BY <1>1, AddedIs
<1>7. CASE path \in DOMAIN left /\ files'[path] = left[path]
  <2>1. left[path].classes = <<>> /\ left[path].elems = <<>>
    BY <1>7, LeftFits
  <2> QED BY <1>7, <2>1, Zenon DEF InPythonFile
<1>8. CASE path \in DOMAIN (files ++ new) /\ files'[path] = (files ++ new)[path]
  <2>1. \/ path \in DOMAIN files /\ (files ++ new)[path] = files[path]
        \/ path \in DOMAIN new /\ (files ++ new)[path] = new[path]
    BY <1>8, AddedIs
  <2>2. CASE path \in DOMAIN files /\ (files ++ new)[path] = files[path]
    BY <1>8, <2>2, Zenon DEF PythonFits
  <2>3. CASE path \in DOMAIN new /\ (files ++ new)[path] = new[path]
    BY <1>4, <1>5, <1>8, <2>3, Zenon
  <2> QED BY <2>1, <2>2, <2>3
<1> QED BY <1>6, <1>7, <1>8

LEMMA ContentsAre ==
    ASSUME NEW home, NEW kinds, NEW content, NEW flushed,
           NEW ended \in Contents(home, kinds, content, flushed)
    PROVE  ended[1] \subseteq {content} /\ (ended[1] # {} => ~Stopped(home, kinds))
<1>1. CASE Stopped(home, kinds)
  <2>1. ended = <<{}, "thrown">>
    BY <1>1, Zenon DEF Contents
  <2> QED BY <2>1
<1>2. CASE ~Stopped(home, kinds)
  <2>1. ended \in {<<{}, "thrown">>, <<{content}, "ok">>, <<{}, "ok">>}
    BY <1>2, Zenon DEF Contents
  <2>2. ended[1] \subseteq {content}
    BY <2>1
  <2> QED BY <1>2, <2>2
<1> QED BY <1>1, <1>2

\* There is one file more, of a module that had none.
One(home, x) == [other \in {home} |-> x]

LEMMA AddedFile ==
    ASSUME NEW f, NEW home, NEW x, NEW g, g = f ++ One(home, x), NEW h \in DOMAIN g
    PROVE  (h \in DOMAIN f /\ g[h] = f[h]) \/ (h = home /\ g[h] = x)
<1> DEFINE one == One(home, x)
<1>1. DOMAIN one = {home} /\ one[home] = x
  BY DEF One
<1>2. g = f ++ one
  OBVIOUS
<1> HIDE DEF one
<1>3. (h \in DOMAIN f /\ g[h] = f[h]) \/ (h \in DOMAIN one /\ g[h] = one[h])
  BY <1>2, AddedIs
<1> QED BY <1>1, <1>3

LEMMA ScriptsStayFit ==
    ASSUME ScriptsFit(program, scripts), NEW home, GenerateJs(home)
    PROVE  ScriptsFit(program, scripts')
<1> DEFINE kinds == <<"service", "struct", "enum", "union">>
           script == JsFile(program, home)
<1>1. ClosedOf(program)
  BY OfProgram, Zenon DEF GenerateJs
<1>2. PICK ended \in Contents(home, kinds, script, FALSE) :
         scripts' = scripts ++ One(home, ended[1])
  BY Zenon DEF GenerateJs, One
<1>3. ended[1] \subseteq {script}
  <2> HIDE DEF kinds, script
  <2> QED BY ContentsAre, Zenon
<1>4. ASSUME NEW h \in DOMAIN scripts' PROVE scripts'[h] \subseteq {JsFile(program, h)}
  <2>1. (h \in DOMAIN scripts /\ scripts'[h] = scripts[h]) \/ (h = home /\ scripts'[h] = ended[1])
    BY <1>2, AddedFile
  <2> QED BY <1>3, <2>1, Zenon DEF ScriptsFit
<1> QED BY <1>1, <1>4, Zenon DEF ScriptsFit

LEMMA HeadersStayFit ==
    ASSUME HeadersFit(program, headers), NEW home, GenerateCpp(home)
    PROVE  HeadersFit(program, headers')
<1> DEFINE header == CppFile(program, home, Below(home))
<1>1. PICK ended \in Contents(home, CppKinds, header, TRUE) :
         headers' = headers ++ One(home, ended[1])
  BY Zenon DEF GenerateCpp, CppKinds, One
<1>2. ended[1] \subseteq {header} /\ (ended[1] # {} => ~Stopped(home, CppKinds))
  BY ContentsAre
<1>3. header = CppFile(program, home, BelowOf(program, home))
  BY OfProgram, Zenon
<1>4. ended[1] # {} => ~StoppedOf(program, home)
  BY <1>2, OfProgram, Zenon
<1> HIDE DEF header
<1>5. ASSUME NEW h \in DOMAIN headers'
      PROVE  /\ headers'[h] \subseteq {CppFile(program, h, BelowOf(program, h))}
             /\ headers'[h] # {} => ~StoppedOf(program, h)
  <2>1. (h \in DOMAIN headers /\ headers'[h] = headers[h]) \/ (h = home /\ headers'[h] = ended[1])
    BY <1>1, AddedFile
  <2>2. CASE h \in DOMAIN headers /\ headers'[h] = headers[h]
    BY <2>2, Zenon DEF HeadersFit
  <2>3. CASE h = home /\ headers'[h] = ended[1]
    BY <1>2, <1>3, <1>4, <2>3, Zenon
  <2> QED BY <2>1, <2>2, <2>3
<1> QED BY <1>5, Zenon DEF HeadersFit

LEMMA FilesInit == Init => FilesInv
<1> SUFFICES ASSUME Init PROVE FilesInv
  OBVIOUS
<1>1. program = <<>> /\ files = <<>> /\ scripts = <<>> /\ headers = <<>>
  BY DEF Init
<1>2. DOMAIN <<>> = {}
  OBVIOUS
<1>3. Loaded(program) /\ Apart(program)
  BY <1>1, <1>2 DEF Loaded, Apart
<1>4. /\ PythonFits(program, files) /\ ScriptsFit(program, scripts)
      /\ HeadersFit(program, headers)
  BY <1>1, <1>2, Zenon DEF PythonFits, ScriptsFit, HeadersFit
<1> QED BY <1>3, <1>4 DEF FilesInv

LEMMA FilesNext ==
    ASSUME FilesInv, [Next]_vars
    PROVE  FilesInv'
<1>1. /\ Loaded(program) /\ Apart(program) /\ PythonFits(program, files)
      /\ ScriptsFit(program, scripts) /\ HeadersFit(program, headers)
  BY DEF FilesInv
<1>2. ASSUME UNCHANGED <<program, written>> PROVE FilesInv'
  <2>1. program' = program /\ files' = files /\ scripts' = scripts /\ headers' = headers
    BY <1>2 DEF written
  <2> QED BY <1>1, <2>1, Zenon DEF FilesInv
<1>3. CASE UNCHANGED vars
  BY <1>2, <1>3 DEF vars, written
<1>4. ASSUME NEW elem \in Elements, Define(elem) PROVE FilesInv'
  <2>1. files' = <<>> /\ scripts' = <<>> /\ headers' = <<>>
    BY <1>4 DEF Define, written
  <2>2. DOMAIN <<>> = {}
    OBVIOUS
  <2>3. /\ PythonFits(program', files') /\ ScriptsFit(program', scripts')
        /\ HeadersFit(program', headers')
    BY <2>1, <2>2, Zenon DEF PythonFits, ScriptsFit, HeadersFit
  <2>4. Loaded(program') /\ Apart(program')
    BY <1>1, <1>4, DefineLoads, ApartWith
  <2> QED BY <2>3, <2>4, Zenon DEF FilesInv
<1>5. ASSUME NEW home, GeneratePython(home) PROVE FilesInv'
  <2>1. program' = program /\ scripts' = scripts /\ headers' = headers
    BY <1>5 DEF GeneratePython
  <2>2. PythonFits(program, files')
    BY <1>1, <1>5, PythonFilesFit
  <2> QED BY <1>1, <2>1, <2>2, Zenon DEF FilesInv
<1>6. ASSUME NEW home, GenerateJs(home) PROVE FilesInv'
  <2>1. program' = program /\ files' = files /\ headers' = headers
    BY <1>6 DEF GenerateJs
  <2>2. ScriptsFit(program, scripts')
    BY <1>1, <1>6, ScriptsStayFit
  <2> QED BY <1>1, <2>1, <2>2, Zenon DEF FilesInv
<1>7. ASSUME NEW home, GenerateCpp(home) PROVE FilesInv'
  <2>1. program' = program /\ files' = files /\ scripts' = scripts
    BY <1>7 DEF GenerateCpp
  <2>2. HeadersFit(program, headers')
    BY <1>1, <1>7, HeadersStayFit
  <2> QED BY <1>1, <2>1, <2>2, Zenon DEF FilesInv
<1>8. ASSUME NEW home, NEW backend, Generate(home, backend) PROVE FilesInv'
  BY <1>5, <1>6, <1>7, <1>8, Zenon DEF Generate
<1>9. CASE ToStdout
  BY <1>2, <1>9 DEF ToStdout
<1>10. ASSUME NEW wanted, NEW code, Refuse(wanted, code) PROVE FilesInv'
  BY <1>2, <1>10 DEF Refuse
<1>11. ASSUME NEW home, NEW code, Query(home, code) PROVE FilesInv'
  BY <1>2, <1>11, Zenon DEF Query
<1>12. CASE Wait
  BY <1>2, <1>12 DEF Wait
<1>13. ASSUME NEW path, Attempt(path) PROVE FilesInv'
  BY <1>2, <1>13 DEF Attempt
<1>14. CASE Import
  BY <1>2, <1>14, Zenon DEF Import
<1>15. CASE DefineClass
  BY <1>2, <1>15, Zenon DEF DefineClass
<1>16. CASE Return
  BY <1>2, <1>16, Zenon DEF Return
<1> QED BY <1>3, <1>4, <1>8, <1>9, <1>10, <1>11, <1>12, <1>13, <1>14, <1>15, <1>16, Zenon
        DEF Next

\* Whatever back ends are run for whichever modules, in any order, and however many of them
\* fail: the numbers of members are those of Python in every language, and a name in a file
\* is what it is called where it is defined.
THEOREM FilesAgree == Spec => []OutputsAgree
<1>1. Spec => []FilesInv
  BY FilesInit, FilesNext, PTL DEF Spec
<1>2. FilesInv => OutputsAgree
  BY FilesNumber, FilesDefine DEF OutputsAgree
<1> QED BY <1>1, <1>2, PTL
=================================================================================
