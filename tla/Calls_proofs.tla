------------------------------ MODULE Calls_proofs ------------------------------
(***************************************************************************)
(* Proofs about calls: for any chain of stubs, relays and zero-copy        *)
(* clients, whatever the capacity of the buffers and what is in the        *)
(* builders beforehand, the answer reaches the user as the implementation  *)
(* returned it, unless a stub displaced it.                                *)
(***************************************************************************)
EXTENDS Calls, SequenceTheorems, TLAPS

\* The skipping loop stops at the first aligned place, less than one alignment
\* further.
LEMMA AlignUpFacts ==
    ASSUME NEW p \in Nat, NEW a \in Aligns
    PROVE  /\ AlignUp(p, a) \in Nat
           /\ AlignUp(p, a) >= p
           /\ AlignUp(p, a) < p + a
           /\ AlignUp(p, a) % a = 0
<1>1. CASE a = 1  BY <1>1, SMTT(30) DEF AlignUp
<1>2. CASE a = 2  BY <1>2, SMTT(30) DEF AlignUp
<1>3. CASE a = 4  BY <1>3, SMTT(30) DEF AlignUp
<1>4. CASE a = 8  BY <1>4, SMTT(30) DEF AlignUp
<1> QED BY <1>1, <1>2, <1>3, <1>4 DEF Aligns

Cells == ({"len", "junk", "pad", "garbage"} \X Nat) \union ({"ptr", "high"} \X Int)
         \union ({"data"} \X (Nat \X Nat)) \union ({"alternative"} \X Procs)

\* What a message has at a place.
WordAt(m, p, what, n) == /\ p \in Nat /\ p + 2 <= Len(m)
                         /\ m[p + 1] = Byte(what, n)
                         /\ m[p + 2] = Byte("high", n)
BytesAt(m, p, s) == /\ p \in Nat /\ p + Len(s) <= Len(m)
                    /\ \A k \in 1 .. Len(s) : m[p + k] = s[k]
PtrIs(m, p, t)    == WordAt(m, p, "ptr", p - t)
StringIs(m, p, s) == WordAt(m, p, "len", Len(s)) /\ BytesAt(m, p + 2, s)
VectorIs(m, p, n, s) == WordAt(m, p, "len", n) /\ BytesAt(m, VectorData(p), s)

\* The object at p is what the implementation of f returns for a.  That of a struct
\* ends where its pointer does.
ObjectIs(m, p, f, a) ==
    CASE f = "string"  -> StringIs(m, p, Data(a, Count, 1))
      [] f = "vector"  -> VectorIs(m, p, Count, Data(a, Count, 4))
      [] f = "struct"  -> \E t \in 0 .. p : /\ PtrIs(m, p, t)
                                            /\ StringIs(m, t, Data(a, Count, 1))
                                            /\ t + 2 + Count <= p
      [] f = "strings" -> /\ WordAt(m, p, "len", Count)
                          /\ \A i \in 1 .. Count : \E t \in 0 .. Len(m) :
                                PtrIs(m, p + 2 * i, t) /\ StringIs(m, t, Data(a, 1, 1))

\* What the caller has to see.
Seen(f, a) == CASE f \in {"value", "view"}    -> Data(a, 1, 1)
                [] f \in {"string", "struct"} -> Data(a, Count, 1)
                [] f = "vector"               -> Data(a, Count, 4)
                [] f = "strings"              -> [i \in 1 .. Count |-> Data(a, 1, 1)]

\* t is m and more.
Grown(m, t) == Len(m) <= Len(t) /\ \A k \in 1 .. Len(m) : t[k] = m[k]

------------------------------------------------------------------------------
(* What is appended to a message.                                          *)

LEMMA CellsAre ==
    /\ \A n \in Nat : /\ Byte("len", n) \in Cells /\ Byte("junk", n) \in Cells
                      /\ Byte("pad", n) \in Cells /\ Byte("garbage", n) \in Cells
    /\ \A n \in Int : Byte("ptr", n) \in Cells /\ Byte("high", n) \in Cells
    /\ \A a \in Nat, i \in Nat : Byte("data", <<a, i>>) \in Cells
    /\ \A f \in Procs : Byte("alternative", f) \in Cells
    /\ Pad \in Cells
BY DEF Cells, Byte, Pad

\* A word of a type tells its number.
LEMMA WordTypes ==
    ASSUME NEW c \in Cells
    PROVE  /\ c[1] = "len" => c[2] \in Nat
           /\ c[1] = "ptr" => c[2] \in Int
BY DEF Cells

LEMMA JoinFacts ==
    ASSUME NEW m \in Seq(Cells), NEW s \in Seq(Cells), NEW t, t = m \o s
    PROVE  /\ t \in Seq(Cells) /\ Len(t) = Len(m) + Len(s) /\ Grown(m, t)
           /\ Len(m) \in Nat /\ Len(s) \in Nat /\ Len(t) \in Nat
           /\ BytesAt(t, Len(m), s)
<1>1. Len(m) \in Nat /\ Len(s) \in Nat
    BY LenProperties
<1>2. /\ t \in Seq(Cells) /\ Len(t) = Len(m) + Len(s)
      /\ \A k \in 1 .. Len(m) + Len(s) : t[k] = IF k <= Len(m) THEN m[k] ELSE s[k - Len(m)]
    BY ConcatProperties
<1>3. \A k \in 1 .. Len(s) : /\ Len(m) + k \in 1 .. Len(m) + Len(s)
                             /\ ~(Len(m) + k <= Len(m)) /\ Len(m) + k - Len(m) = k
    BY <1>1
<1>4. \A k \in 1 .. Len(s) : t[Len(m) + k] = s[k]
    BY <1>2, <1>3
<1>5. Grown(m, t)
    BY <1>1, <1>2 DEF Grown
<1>6. BytesAt(t, Len(m), s)
    BY <1>1, <1>2, <1>4 DEF BytesAt
<1> QED
    BY <1>1, <1>2, <1>5, <1>6

LEMMA GrownMore ==
    ASSUME NEW m \in Seq(Cells), NEW t \in Seq(Cells), NEW u \in Seq(Cells),
           Grown(m, t), Grown(t, u)
    PROVE  Grown(m, u)
<1>1. Len(m) \in Nat /\ Len(t) \in Nat /\ Len(u) \in Nat
    BY LenProperties
<1> QED
    BY <1>1 DEF Grown

LEMMA AlignedFacts ==
    ASSUME NEW m \in Seq(Cells), NEW a \in {2, 4}, NEW t, t = Aligned(m, a)
    PROVE  /\ t \in Seq(Cells) /\ Len(t) = AlignUp(Len(m), a) /\ Grown(m, t)
           /\ Len(m) \in Nat /\ AlignUp(Len(m), a) \in Nat
           /\ Len(m) <= AlignUp(Len(m), a)
<1> DEFINE n == (0 - Len(m)) % a
           s == SubSeq(<<Pad, Pad, Pad>>, 1, n)
<1>1. Len(m) \in Nat
    BY LenProperties
<1>2. n \in 0 .. 3 /\ Len(m) + n = AlignUp(Len(m), a)
    <2>1. CASE a = 2
        BY <1>1, <2>1, SMTT(30) DEF AlignUp
    <2>2. CASE a = 4
        BY <1>1, <2>2, SMTT(30) DEF AlignUp
    <2> QED
        BY <2>1, <2>2
<1> HIDE DEF n
<1>3. s \in Seq(Cells) /\ Len(s) = n
    <2>1. \A k \in 1 .. n : <<Pad, Pad, Pad>>[k] \in Cells
        BY <1>2, CellsAre
    <2> QED
        BY <1>2, <2>1, SubSeqProperties
<1>4. t = m \o s
    BY DEF Aligned, n
<1> HIDE DEF s
<1>5. t \in Seq(Cells) /\ Len(t) = Len(m) + Len(s) /\ Grown(m, t)
    BY <1>3, <1>4, JoinFacts
<1>6. Len(m) + n \in Nat /\ Len(m) <= Len(m) + n
    BY <1>1, <1>2
<1>7. AlignUp(Len(m), a) \in Nat /\ Len(m) <= AlignUp(Len(m), a)
    BY <1>2, <1>6
<1> QED
    BY <1>1, <1>2, <1>3, <1>5, <1>7

LEMMA EndFacts ==
    ASSUME NEW m \in Seq(Cells)
    PROVE  Len(m) \in Nat /\ End(m) \in Nat /\ Len(m) <= End(m) /\ Len(Aligned(m, 2)) = End(m)
BY AlignedFacts DEF End

LEMMA WordFacts ==
    ASSUME NEW what, NEW n \in Int, Byte(what, n) \in Cells, NEW w, w = Word(what, n)
    PROVE  /\ w \in Seq(Cells) /\ Len(w) = 2
           /\ w[1] = Byte(what, n) /\ w[2] = Byte("high", n)
<1>1. Byte("high", n) \in Cells
    BY CellsAre
<1>2. \A x, y \in Cells : /\ <<x, y>> \in Seq(Cells) /\ Len(<<x, y>>) = 2
                            /\ <<x, y>>[1] = x /\ <<x, y>>[2] = y
    OBVIOUS
<1> QED
    BY <1>1, <1>2 DEF Word

\* A word that is appended is there.
LEMMA WordAdded ==
    ASSUME NEW m \in Seq(Cells), NEW what, NEW n \in Int, Byte(what, n) \in Cells,
           NEW t, t = m \o Word(what, n)
    PROVE  /\ t \in Seq(Cells) /\ Len(t) = Len(m) + 2 /\ Grown(m, t)
           /\ WordAt(t, Len(m), what, n)
<1> DEFINE w == Word(what, n)
<1>1. /\ w \in Seq(Cells) /\ Len(w) = 2
      /\ w[1] = Byte(what, n) /\ w[2] = Byte("high", n)
    BY WordFacts
<1> HIDE DEF w
<1>2. /\ t \in Seq(Cells) /\ Len(t) = Len(m) + Len(w) /\ Grown(m, t)
      /\ Len(m) \in Nat
      /\ BytesAt(t, Len(m), w)
    BY <1>1, JoinFacts DEF w
<1> QED
    BY <1>1, <1>2 DEF WordAt, BytesAt

LEMMA DataFacts ==
    ASSUME NEW a \in Nat, NEW n \in Nat, NEW size \in Nat
    PROVE  Data(a, n, size) \in Seq(Cells) /\ Len(Data(a, n, size)) = n * size
<1> DEFINE k == n * size
           d == [i \in 1 .. k |-> Byte("data", <<a, i>>)]
<1>1. k \in Nat
    OBVIOUS
<1> HIDE DEF k
<1>2. d \in [1 .. k -> Cells]
    BY <1>1, CellsAre
<1>3. d \in Seq(Cells) /\ Len(d) = k
    BY <1>1, <1>2, SeqDef
<1> QED
    BY <1>3 DEF Data, k

------------------------------------------------------------------------------
(* What is in a message stays there while the message grows.               *)

LEMMA WordKept ==
    ASSUME NEW m \in Seq(Cells), NEW t \in Seq(Cells), Grown(m, t),
           NEW p, NEW what, NEW n, WordAt(m, p, what, n)
    PROVE  WordAt(t, p, what, n)
<1>1. Len(m) \in Nat /\ Len(t) \in Nat /\ p \in Nat
    BY LenProperties DEF WordAt
<1>2. p + 1 \in 1 .. Len(m) /\ p + 2 \in 1 .. Len(m)
    BY <1>1 DEF WordAt
<1> QED
    BY <1>1, <1>2 DEF WordAt, Grown

LEMMA BytesKept ==
    ASSUME NEW m \in Seq(Cells), NEW t \in Seq(Cells), Grown(m, t),
           NEW p, NEW s \in Seq(Cells), BytesAt(m, p, s)
    PROVE  BytesAt(t, p, s)
<1>1. Len(m) \in Nat /\ Len(t) \in Nat /\ p \in Nat /\ Len(s) \in Nat
    BY LenProperties DEF BytesAt
<1>2. \A k \in 1 .. Len(s) : p + k \in 1 .. Len(m)
    BY <1>1 DEF BytesAt
<1> QED
    BY <1>1, <1>2 DEF BytesAt, Grown

LEMMA StringKept ==
    ASSUME NEW m \in Seq(Cells), NEW t \in Seq(Cells), Grown(m, t),
           NEW p, NEW s \in Seq(Cells), StringIs(m, p, s)
    PROVE  StringIs(t, p, s)
BY WordKept, BytesKept DEF StringIs

LEMMA PtrKept ==
    ASSUME NEW m \in Seq(Cells), NEW t \in Seq(Cells), Grown(m, t),
           NEW p, NEW q, PtrIs(m, p, q)
    PROVE  PtrIs(t, p, q)
BY WordKept DEF PtrIs

\* What the elements of a string or a vector are.
LEMMA DataOf ==
    ASSUME NEW a \in Nat
    PROVE  /\ Data(a, 1, 1) \in Seq(Cells) /\ Len(Data(a, 1, 1)) = 1
           /\ Data(a, Count, 1) \in Seq(Cells) /\ Len(Data(a, Count, 1)) = Count
           /\ Data(a, Count, 4) \in Seq(Cells) /\ Len(Data(a, Count, 4)) = 4 * Count
           /\ Count \in Nat \ {0}
<1>1. Count \in Nat \ {0}
    BY CallsAssumption
<1>2. 1 * 1 = 1 /\ Count * 1 = Count /\ Count * 4 = 4 * Count
    BY <1>1
<1>3. Data(a, 1, 1) \in Seq(Cells) /\ Len(Data(a, 1, 1)) = 1
    <2>1. 1 \in Nat
        OBVIOUS
    <2> QED
        BY <1>2, <2>1, DataFacts, ZenonT(40)
<1>4. Data(a, Count, 1) \in Seq(Cells) /\ Len(Data(a, Count, 1)) = Count
    BY <1>1, <1>2, DataFacts, SMTT(30)
<1>5. Data(a, Count, 4) \in Seq(Cells) /\ Len(Data(a, Count, 4)) = 4 * Count
    BY <1>1, <1>2, DataFacts, SMTT(30)
<1> QED
    BY <1>1, <1>3, <1>4, <1>5

LEMMA ObjectKept ==
    ASSUME NEW m \in Seq(Cells), NEW t \in Seq(Cells), Grown(m, t),
           NEW p \in Int, NEW f \in References, NEW a \in Nat, ObjectIs(m, p, f, a)
    PROVE  ObjectIs(t, p, f, a)
<1>1. /\ Data(a, 1, 1) \in Seq(Cells) /\ Data(a, Count, 1) \in Seq(Cells)
      /\ Data(a, Count, 4) \in Seq(Cells)
    BY DataOf
<1>2. Len(m) \in Nat /\ Len(t) \in Nat /\ Len(m) <= Len(t)
    BY LenProperties DEF Grown
<1>3. CASE f = "string"
    BY <1>1, <1>3, StringKept DEF ObjectIs
<1>4. CASE f = "vector"
    BY <1>1, <1>4, WordKept, BytesKept DEF ObjectIs, VectorIs
<1>5. CASE f = "struct"
    BY <1>1, <1>5, StringKept, PtrKept DEF ObjectIs
<1>6. CASE f = "strings"
    <2>1. WordAt(t, p, "len", Count)
        BY <1>6, WordKept DEF ObjectIs
    <2>2. ASSUME NEW i \in 1 .. Count
          PROVE  \E q \in 0 .. Len(t) : PtrIs(t, p + 2 * i, q) /\ StringIs(t, q, Data(a, 1, 1))
        <3>1. PICK q \in 0 .. Len(m) : PtrIs(m, p + 2 * i, q) /\ StringIs(m, q, Data(a, 1, 1))
            BY <1>6 DEF ObjectIs
        <3>2. PtrIs(t, p + 2 * i, q) /\ StringIs(t, q, Data(a, 1, 1))
            BY <1>1, <3>1, StringKept, PtrKept
        <3> QED
            BY <1>2, <3>2
    <2> QED
        BY <1>6, <2>1, <2>2 DEF ObjectIs
<1> QED
    BY <1>3, <1>4, <1>5, <1>6 DEF References

------------------------------------------------------------------------------
(* What is created in a message.                                           *)

LEMMA StringMade ==
    ASSUME NEW m \in Seq(Cells), NEW s \in Seq(Cells), NEW t, t = WithString(m, s)
    PROVE  /\ t \in Seq(Cells) /\ Grown(m, t) /\ Len(t) = End(m) + 2 + Len(s)
           /\ StringIs(t, End(m), s)
<1> DEFINE u == Aligned(m, 2)
           v == u \o Word("len", Len(s))
<1>1. /\ u \in Seq(Cells) /\ Len(u) = End(m) /\ Grown(m, u) /\ Len(s) \in Nat
      /\ End(m) \in Nat
    BY AlignedFacts, EndFacts, LenProperties
<1> HIDE DEF u
<1>2. Byte("len", Len(s)) \in Cells
    BY <1>1, CellsAre
<1>3. /\ v \in Seq(Cells) /\ Len(v) = End(m) + 2 /\ Grown(u, v)
      /\ WordAt(v, End(m), "len", Len(s))
    <2> DEFINE n == Len(s)
    <2>1. v = u \o Word("len", n) /\ n \in Int /\ Byte("len", n) \in Cells
        BY <1>1, <1>2
    <2> HIDE DEF v, n
    <2>2. /\ v \in Seq(Cells) /\ Len(v) = Len(u) + 2 /\ Grown(u, v)
          /\ WordAt(v, Len(u), "len", n)
        BY <1>1, <2>1, WordAdded, ZenonT(40)
    <2> QED
        BY <1>1, <2>2 DEF n
<1>4. t = v \o s
    BY DEF WithString, u
<1> HIDE DEF v
<1>5. /\ t \in Seq(Cells) /\ Len(t) = Len(v) + Len(s) /\ Grown(v, t)
      /\ BytesAt(t, Len(v), s)
    BY <1>3, <1>4, JoinFacts
<1>6. Grown(m, t)
    BY <1>1, <1>3, <1>5, GrownMore
<1>7. WordAt(t, End(m), "len", Len(s))
    BY <1>3, <1>5, WordKept
<1>8. BytesAt(t, End(m) + 2, s)
    BY <1>3, <1>5
<1> QED
    BY <1>3, <1>5, <1>6, <1>7, <1>8 DEF StringIs

LEMMA PtrMade ==
    ASSUME NEW m \in Seq(Cells), NEW to \in Int, NEW t, t = WithPtr(m, to)
    PROVE  /\ t \in Seq(Cells) /\ Grown(m, t) /\ Len(t) = End(m) + 2
           /\ PtrIs(t, End(m), to)
<1> DEFINE u == Aligned(m, 2)
           n == End(m) - to
<1>1. /\ u \in Seq(Cells) /\ Len(u) = End(m) /\ Grown(m, u) /\ End(m) \in Nat /\ n \in Int
    BY AlignedFacts, EndFacts
<1>2. Byte("ptr", n) \in Cells
    BY <1>1, CellsAre
<1>3. t = u \o Word("ptr", n)
    BY DEF WithPtr
<1> HIDE DEF u, n
<1>4. t \in Seq(Cells) /\ Len(t) = Len(u) + 2 /\ Grown(u, t) /\ WordAt(t, Len(u), "ptr", n)
    BY <1>1, <1>2, <1>3, WordAdded
<1>5. Grown(m, t)
    BY <1>1, <1>4, GrownMore
<1> QED
    BY <1>1, <1>4, <1>5 DEF PtrIs, n

\* AlignUp of an even place is where the elements of a vector there begin.
LEMMA VectorMade ==
    ASSUME NEW m \in Seq(Cells), NEW n \in Nat, NEW s \in Seq(Cells),
           NEW t, t = WithVector(m, n, s)
    PROVE  /\ t \in Seq(Cells) /\ Grown(m, t) /\ VectorIs(t, End(m), n, s)
<1> DEFINE u == Aligned(m, 2)
           v == u \o Word("len", n)
           w == Aligned(v, 4)
<1>1. /\ u \in Seq(Cells) /\ Len(u) = End(m) /\ Grown(m, u) /\ Len(s) \in Nat
      /\ End(m) \in Nat
    BY AlignedFacts, EndFacts, LenProperties
<1> HIDE DEF u
<1>2. Byte("len", n) \in Cells
    BY CellsAre
<1>3. /\ v \in Seq(Cells) /\ Len(v) = End(m) + 2 /\ Grown(u, v)
      /\ WordAt(v, End(m), "len", n)
    <2>1. v = u \o Word("len", n) /\ n \in Int
        OBVIOUS
    <2> HIDE DEF v, w
    <2>2. /\ v \in Seq(Cells) /\ Len(v) = Len(u) + 2 /\ Grown(u, v)
          /\ WordAt(v, Len(u), "len", n)
        BY <1>1, <1>2, <2>1, WordAdded, ZenonT(40)
    <2> QED
        BY <1>1, <2>2
<1> HIDE DEF v
<1>4. /\ w \in Seq(Cells) /\ Len(w) = VectorData(End(m)) /\ Grown(v, w)
      /\ VectorData(End(m)) \in Nat
    BY <1>3, AlignedFacts DEF VectorData
<1>5. t = w \o s
    BY DEF WithVector, u, v
<1> HIDE DEF w
<1>6. /\ t \in Seq(Cells) /\ Len(t) = Len(w) + Len(s) /\ Grown(w, t)
      /\ BytesAt(t, Len(w), s)
    BY <1>4, <1>5, JoinFacts
<1>7. Grown(m, t) /\ Grown(v, t)
    BY <1>1, <1>3, <1>4, <1>6, GrownMore
<1>8. WordAt(t, End(m), "len", n)
    BY <1>3, <1>6, <1>7, WordKept
<1>9. BytesAt(t, VectorData(End(m)), s)
    BY <1>4, <1>6
<1> QED
    BY <1>6, <1>7, <1>8, <1>9 DEF VectorIs

\* The union at the end of a message, for alternative f, that refers to the struct at
\* Held, which has the ptr to t.
UnionIs(m, f, t) == /\ Len(m) >= UnionSize
                    /\ m[Root(m) + 1] = Byte("alternative", f)
                    /\ PtrIs(m, Root(m) + 2, Held(m))
                    /\ PtrIs(m, Held(m), t)

LEMMA TargetIs ==
    ASSUME NEW m, NEW p, NEW t \in Int, PtrIs(m, p, t)
    PROVE  Target(m, p) = t /\ p \in Nat
<1>1. p \in Nat /\ m[p + 1] = <<"ptr", p - t>>
    BY DEF PtrIs, WordAt, Byte
<1>2. m[p + 1][2] = p - t
    BY <1>1
<1> QED
    BY <1>1, <1>2 DEF Target

LEMMA AlternativeMade ==
    ASSUME NEW m \in Seq(Cells), NEW f \in Procs, NEW s \in Seq(Cells), Len(s) = 2,
           NEW t, t = WithUnion(m, f, s)
    PROVE  /\ t \in Seq(Cells) /\ Grown(m, t)
           /\ Len(t) = End(m) + 4 /\ Root(t) = End(m) /\ End(m) \in Nat
           /\ t[Root(t) + 1] = Byte("alternative", f)
           /\ BytesAt(t, End(m) + 2, s)
<1> DEFINE u == Aligned(m, 2)
           h == <<Byte("alternative", f), Pad>>
           v == u \o h
<1>1. /\ u \in Seq(Cells) /\ Len(u) = End(m) /\ Grown(m, u) /\ End(m) \in Nat
    BY AlignedFacts, EndFacts
<1>2. t = v \o s
    BY DEF WithUnion
<1> HIDE DEF u, v
<1>3. h \in Seq(Cells) /\ Len(h) = 2 /\ h[1] = Byte("alternative", f)
    <2>1. \A x, y \in Cells : /\ <<x, y>> \in Seq(Cells) /\ Len(<<x, y>>) = 2
                              /\ <<x, y>>[1] = x
        OBVIOUS
    <2> QED
        BY <2>1, CellsAre
<1>4. v = u \o h
    BY DEF v
<1> HIDE DEF h
<1>5. v \in Seq(Cells) /\ Len(v) = Len(u) + Len(h) /\ Grown(u, v) /\ BytesAt(v, Len(u), h)
    BY <1>1, <1>3, <1>4, JoinFacts
<1>6. t \in Seq(Cells) /\ Len(t) = Len(v) + Len(s) /\ Grown(v, t) /\ BytesAt(t, Len(v), s)
    BY <1>2, <1>5, JoinFacts
<1>7. BytesAt(t, Len(u), h)
    BY <1>3, <1>5, <1>6, BytesKept
<1>8. t[Len(u) + 1] = Byte("alternative", f)
    BY <1>3, <1>7 DEF BytesAt
<1>9. Grown(m, t)
    BY <1>1, <1>5, <1>6, GrownMore
<1>10. Len(t) = End(m) + 4
    BY <1>1, <1>3, <1>5, <1>6
<1>11. Root(t) = End(m)
    BY <1>1, <1>10 DEF Root, UnionSize
<1>12. Len(v) = End(m) + 2
    BY <1>1, <1>3, <1>5
<1> QED
    BY <1>1, <1>6, <1>8, <1>9, <1>10, <1>11, <1>12

LEMMA UnionMade ==
    ASSUME NEW m \in Seq(Cells), NEW f \in Procs, NEW to \in Int, NEW q \in Int,
           PtrIs(m, to, q), NEW t, t = PtrUnion(m, f, to)
    PROVE  t \in Seq(Cells) /\ Grown(m, t) /\ UnionIs(t, f, q)
<1> DEFINE n == End(m) + 2 - to
           s == Word("ptr", n)
<1>1. End(m) \in Nat /\ n \in Int
    BY EndFacts
<1> HIDE DEF n
<1>2. /\ s \in Seq(Cells) /\ Len(s) = 2
      /\ s[1] = Byte("ptr", n) /\ s[2] = Byte("high", n)
    BY <1>1, CellsAre, WordFacts
<1>3. t = WithUnion(m, f, s)
    BY DEF PtrUnion, n
<1> HIDE DEF s
<1>4. /\ t \in Seq(Cells) /\ Grown(m, t)
      /\ Len(t) = End(m) + 4 /\ Root(t) = End(m)
      /\ t[Root(t) + 1] = Byte("alternative", f)
      /\ BytesAt(t, End(m) + 2, s)
    BY <1>2, <1>3, AlternativeMade
<1>5. PtrIs(t, Root(t) + 2, to)
    <2>1. /\ End(m) + 2 + 1 = End(m) + 3 /\ End(m) + 2 + 2 = End(m) + 4
          /\ End(m) + 2 \in Nat
        BY <1>1
    <2>2. t[End(m) + 2 + 1] = s[1] /\ t[End(m) + 2 + 2] = s[2]
        BY <1>2, <1>4 DEF BytesAt
    <2>3. WordAt(t, End(m) + 2, "ptr", n)
        BY <1>2, <1>4, <2>1, <2>2 DEF WordAt
    <2>4. n = (End(m) + 2) - to
        BY <1>1 DEF n
    <2>5. Root(t) = End(m)
        BY <1>4
    <2>6. PtrIs(t, End(m) + 2, to)
        BY <2>3, <2>4 DEF PtrIs
    <2> QED
        BY <2>5, <2>6
<1>6. Held(t) = to
    BY <1>5, TargetIs DEF Held
<1>7. PtrIs(t, to, q)
    BY <1>4, PtrKept
<1>8. Len(t) >= 4
    BY <1>1, <1>4
<1> QED
    BY <1>4, <1>5, <1>6, <1>7, <1>8 DEF UnionIs, UnionSize

\* The message of a stub has the string it was called with.
LEMMA RequestMade ==
    ASSUME NEW f \in Procs, NEW a \in Nat, NEW t, t = Request(f, a)
    PROVE  t \in Seq(Cells) /\ UnionIs(t, f, 0) /\ StringIs(t, 0, Data(a, 1, 1))
<1> DEFINE none == <<>>
           d == Data(a, 1, 1)
           s == WithString(none, d)
           v == WithPtr(s, 0)
<1>1. none \in Seq(Cells) /\ Len(none) = 0 /\ d \in Seq(Cells)
    BY EmptySeq, DataOf
<1>2. End(none) = 0
    BY <1>1, SMTT(30) DEF End, AlignUp
<1> HIDE DEF none, d
<1>3. s \in Seq(Cells) /\ StringIs(s, 0, d)
    BY <1>1, <1>2, StringMade
<1>4. t = PtrUnion(v, f, End(s))
    BY DEF Request, none, d
<1> HIDE DEF s
<1>5. v \in Seq(Cells) /\ Grown(s, v) /\ PtrIs(v, End(s), 0) /\ End(s) \in Int
    BY <1>3, PtrMade, EndFacts
<1> HIDE DEF v
<1>6. t \in Seq(Cells) /\ Grown(v, t) /\ UnionIs(t, f, 0)
    BY <1>4, <1>5, UnionMade
<1>7. StringIs(t, 0, d)
    BY <1>1, <1>3, <1>5, <1>6, StringKept, GrownMore
<1> QED
    BY <1>6, <1>7 DEF d

\* union_caller's answer for a view has a string of its own.
LEMMA ViewMade ==
    ASSUME NEW m \in Seq(Cells), NEW f \in Procs, NEW said \in Seq(Cells),
           NEW s, s = WithString(m, said),
           NEW t, t = PtrUnion(WithPtr(s, End(m)), f, End(s))
    PROVE  t \in Seq(Cells) /\ UnionIs(t, f, End(m)) /\ StringIs(t, End(m), said)
<1> DEFINE v == WithPtr(s, End(m))
<1>1. s \in Seq(Cells) /\ StringIs(s, End(m), said) /\ End(m) \in Int
    BY StringMade, EndFacts
<1>2. v \in Seq(Cells) /\ Grown(s, v) /\ PtrIs(v, End(s), End(m)) /\ End(s) \in Int
    BY <1>1, PtrMade, EndFacts
<1>3. t = PtrUnion(v, f, End(s))
    OBVIOUS
<1> HIDE DEF v
<1>4. t \in Seq(Cells) /\ Grown(v, t) /\ UnionIs(t, f, End(m))
    BY <1>1, <1>2, <1>3, UnionMade
<1>5. StringIs(t, End(m), said)
    BY <1>1, <1>2, <1>4, StringKept, GrownMore
<1> QED
    BY <1>4, <1>5

\* The answer with a reference refers to what the implementation returned.
LEMMA ReferenceMade ==
    ASSUME NEW m \in Seq(Cells), NEW f \in Procs, NEW p \in Int,
           NEW t, t = PtrUnion(WithPtr(m, p), f, End(m))
    PROVE  t \in Seq(Cells) /\ Grown(m, t) /\ UnionIs(t, f, p)
<1> DEFINE v == WithPtr(m, p)
<1>1. v \in Seq(Cells) /\ Grown(m, v) /\ PtrIs(v, End(m), p) /\ End(m) \in Int
    BY PtrMade, EndFacts
<1>2. t = PtrUnion(v, f, End(m))
    OBVIOUS
<1> HIDE DEF v
<1>3. t \in Seq(Cells) /\ Grown(v, t) /\ UnionIs(t, f, p)
    BY <1>1, <1>2, UnionMade
<1> QED
    BY <1>1, <1>3, GrownMore

\* The answer with a value has it behind the number of the alternative.
LEMMA ValueMade ==
    ASSUME NEW m \in Seq(Cells), NEW f \in Procs, NEW said \in Seq(Cells), Len(said) = 1,
           NEW t, t = WithUnion(m, f, said \o <<Pad>>)
    PROVE  /\ t \in Seq(Cells) /\ Len(t) >= UnionSize /\ t[Root(t) + 3] = said[1]
<1> DEFINE pad == <<Pad>>
           s == said \o pad
<1>1. pad \in Seq(Cells) /\ Len(pad) = 1
    <2>1. \A x \in Cells : <<x>> \in Seq(Cells) /\ Len(<<x>>) = 1
        OBVIOUS
    <2> QED
        BY <2>1, CellsAre
<1> HIDE DEF pad
<1>2. s \in Seq(Cells) /\ Len(s) = Len(said) + Len(pad) /\ Grown(said, s)
    BY <1>1, JoinFacts
<1>3. t = WithUnion(m, f, s)
    BY DEF pad
<1> HIDE DEF s
<1>4. Len(s) = 2 /\ s[1] = said[1]
    BY <1>1, <1>2 DEF Grown
<1>5. /\ t \in Seq(Cells) /\ Len(t) = End(m) + 4 /\ Root(t) = End(m) /\ End(m) \in Nat
      /\ BytesAt(t, End(m) + 2, s)
    BY <1>2, <1>3, <1>4, AlternativeMade
<1>6. t[End(m) + 2 + 1] = s[1] /\ End(m) + 2 + 1 = End(m) + 3
    BY <1>4, <1>5 DEF BytesAt
<1> QED
    BY <1>4, <1>5, <1>6 DEF UnionSize

------------------------------------------------------------------------------
(* What the readers see.                                                   *)

LEMMA BytesRead ==
    ASSUME NEW m \in Seq(Cells), NEW s \in Seq(Cells), NEW p, BytesAt(m, p, s)
    PROVE  Slice(m, p, Len(s)) = s /\ p >= 0 /\ p + Len(s) <= Len(m)
<1>1. p \in Nat /\ Len(s) \in Nat /\ Len(m) \in Nat /\ p + Len(s) <= Len(m)
    BY LenProperties DEF BytesAt
<1> DEFINE u == SubSeq(m, p + 1, p + Len(s))
<1>2. \A k \in p + 1 .. p + Len(s) : k \in 1 .. Len(m) /\ m[k] \in Cells
    BY <1>1, ElementOfSeq
<1>3. /\ u \in Seq(Cells) /\ Len(u) = Len(s)
      /\ \A k \in 1 .. Len(s) : u[k] = m[p + k]
    <2>1. /\ p + 1 \in Int /\ p + Len(s) \in Int
          /\ p + Len(s) - (p + 1) + 1 = Len(s)
          /\ (p + 1 <= p + Len(s) \/ Len(s) = 0)
          /\ \A k \in 1 .. Len(s) : p + 1 + k - 1 = p + k
        BY <1>1
    <2> QED
        BY <1>1, <1>2, <2>1, SubSeqProperties
<1> HIDE DEF u
<1>4. \A k \in 1 .. Len(u) : u[k] = s[k]
    BY <1>1, <1>3 DEF BytesAt
<1>5. u = s
    BY <1>3, <1>4, SeqEqual
<1> QED
    BY <1>1, <1>5 DEF Slice, u

LEMMA WordRead ==
    ASSUME NEW m, NEW p, NEW what, NEW n, WordAt(m, p, what, n)
    PROVE  IsWord(m, p, what) /\ m[p + 1][2] = n /\ p \in Nat
BY DEF WordAt, IsWord, Byte

LEMMA StringRead ==
    ASSUME NEW m \in Seq(Cells), NEW s \in Seq(Cells), NEW p, StringIs(m, p, s)
    PROVE  StringAt(m, p) = s
<1>1. /\ IsWord(m, p, "len") /\ m[p + 1][2] = Len(s)
    BY WordRead DEF StringIs
<1>2. Slice(m, p + 2, Len(s)) = s
    BY BytesRead DEF StringIs
<1> QED
    BY <1>1, <1>2 DEF StringAt

LEMMA PtrRead ==
    ASSUME NEW m \in Seq(Cells), NEW s \in Seq(Cells), NEW p, NEW t \in Int,
           PtrIs(m, p, t), StringIs(m, t, s)
    PROVE  PointedAt(m, p) = s
<1>1. IsWord(m, p, "ptr") /\ Target(m, p) = t
    BY WordRead, TargetIs DEF PtrIs
<1>2. StringAt(m, t) = s
    BY StringRead
<1> QED
    BY <1>1, <1>2 DEF PointedAt

LEMMA ObjectRead ==
    ASSUME NEW m \in Seq(Cells), NEW p \in Int, NEW f \in References, NEW a \in Nat,
           ObjectIs(m, p, f, a)
    PROVE  Read(m, p, f) = Seen(f, a)
<1> DEFINE d1 == Data(a, 1, 1)
           dn == Data(a, Count, 1)
           d4 == Data(a, Count, 4)
<1>1. /\ d1 \in Seq(Cells) /\ dn \in Seq(Cells) /\ d4 \in Seq(Cells) /\ Len(d4) = 4 * Count
      /\ Count \in Nat \ {0}
    BY DataOf
<1>2. CASE f = "string"
    <2>1. StringIs(m, p, dn)
        BY <1>2 DEF ObjectIs
    <2>2. StringAt(m, p) = dn
        BY <1>1, <2>1, StringRead
    <2> QED
        BY <1>2, <2>2 DEF Read, Seen
<1>3. CASE f = "vector"
    <2>1. VectorIs(m, p, Count, d4)
        BY <1>3 DEF ObjectIs
    <2>2. IsWord(m, p, "len") /\ m[p + 1][2] = Count
        BY <2>1, WordRead DEF VectorIs
    <2>3. Slice(m, VectorData(p), Len(d4)) = d4
        BY <1>1, <2>1, BytesRead DEF VectorIs
    <2>4. VectorAt(m, p) = d4
        BY <1>1, <2>2, <2>3 DEF VectorAt
    <2> QED
        BY <1>3, <2>4 DEF Read, Seen
<1>4. CASE f = "struct"
    <2>1. PICK t \in 0 .. p : PtrIs(m, p, t) /\ StringIs(m, t, dn)
        BY <1>4 DEF ObjectIs
    <2>2. PointedAt(m, p) = dn
        BY <1>1, <2>1, PtrRead
    <2> QED
        BY <1>4, <2>2 DEF Read, Seen
<1>5. CASE f = "strings"
    <2>1. WordAt(m, p, "len", Count)
        BY <1>5 DEF ObjectIs
    <2>2. IsWord(m, p, "len") /\ m[p + 1][2] = Count
        BY <2>1, WordRead
    <2>3. ASSUME NEW i \in 1 .. Count
          PROVE  PointedAt(m, p + 2 * i) = d1
        <3>1. PICK t \in 0 .. Len(m) : PtrIs(m, p + 2 * i, t) /\ StringIs(m, t, d1)
            BY <1>5 DEF ObjectIs
        <3>2. t \in Int
            BY <3>1, LenProperties
        <3> QED
            BY <1>1, <3>1, <3>2, PtrRead
    <2>4. StringsAt(m, p) = [i \in 1 .. Count |-> d1]
        BY <2>2, <2>3 DEF StringsAt
    <2> QED
        BY <1>5, <2>4 DEF Read, Seen
<1> QED
    BY <1>2, <1>3, <1>4, <1>5 DEF References

\* The parameters and the answer of a view are found through the union.
LEMMA UnionRead ==
    ASSUME NEW m \in Seq(Cells), NEW f, NEW t \in Int, UnionIs(m, f, t)
    PROVE  /\ m[Root(m) + 1][2] = f
           /\ Target(m, Held(m)) = t
           /\ \A s \in Seq(Cells) : StringIs(m, t, s) => PointedAt(m, Held(m)) = s
<1>1. PtrIs(m, Held(m), t) /\ m[Root(m) + 1] = <<"alternative", f>>
    BY DEF UnionIs, Byte
<1>2. \A s \in Seq(Cells) : StringIs(m, t, s) => PointedAt(m, Held(m)) = s
    BY <1>1, PtrRead
<1> QED
    BY <1>1, <1>2, TargetIs

------------------------------------------------------------------------------
(* What the implementation returns, and what a stub copies.                *)

LEMMA StringsMade ==
    ASSUME NEW m \in Seq(Cells), NEW a \in Nat, NEW t, t = Strings(m, a)
    PROVE  t \in Seq(Cells) /\ ObjectIs(t, End(m) + 4 * Count, "strings", a)
<1> DEFINE each   == Word("len", 1) \o Data(a, 1, 1) \o <<Pad>>
           n      == 4 * Count
           to(i)  == Word("ptr", n + 2 * i - 4 * (i - 1))
           u      == Aligned(m, 2)
           parts  == [k \in 1 .. n |-> each[((k - 1) % 4) + 1]]
           v      == u \o parts
           w      == v \o Word("len", Count)
           refs   == [k \in 1 .. 2 * Count |-> to((k + 1) \div 2)[((k - 1) % 2) + 1]]
           d      == Data(a, 1, 1)
<1>1. /\ u \in Seq(Cells) /\ Len(u) = End(m) /\ End(m) \in Nat
      /\ d \in Seq(Cells) /\ Len(d) = 1 /\ d[1] \in Cells
      /\ Count \in Nat \ {0} /\ n \in Nat
    <2>1. d \in Seq(Cells) /\ Len(d) = 1 /\ Count \in Nat \ {0}
        BY DataOf
    <2> QED
        BY <2>1, AlignedFacts, EndFacts, ElementOfSeq
<1>2. t = w \o refs
    BY DEF Strings
<1>3. /\ each[1] = Byte("len", 1) /\ each[2] = Byte("high", 1)
      /\ each[3] = d[1] /\ each[4] = Pad
    <2>1. Word("len", 1) \in Seq(Cells) /\ Len(Word("len", 1)) = 2
          /\ Word("len", 1)[1] = Byte("len", 1) /\ Word("len", 1)[2] = Byte("high", 1)
        BY CellsAre, WordFacts
    <2> DEFINE b == Word("len", 1)
               c == b \o d
               pad == <<Pad>>
    <2> HIDE DEF b, d
    <2>2. c \in Seq(Cells) /\ Len(c) = Len(b) + Len(d) /\ Grown(b, c) /\ BytesAt(c, Len(b), d)
        BY <1>1, <2>1, JoinFacts DEF b
    <2>3. pad \in Seq(Cells) /\ Len(pad) = 1 /\ pad[1] = Pad
        <3>1. \A x \in Cells : <<x>> \in Seq(Cells) /\ Len(<<x>>) = 1 /\ <<x>>[1] = x
            OBVIOUS
        <3> QED
            BY <3>1, CellsAre
    <2>4. each = c \o pad
        BY DEF b, d
    <2> HIDE DEF c, pad, each
    <2>5. Len(each) = Len(c) + Len(pad) /\ Grown(c, each) /\ BytesAt(each, Len(c), pad)
        BY <2>2, <2>3, <2>4, JoinFacts
    <2>6. Len(b) = 2 /\ b[1] = Byte("len", 1) /\ b[2] = Byte("high", 1) /\ Len(c) = 3
        <3>1. Len(b) = 2 /\ b[1] = Byte("len", 1) /\ b[2] = Byte("high", 1)
            BY <2>1 DEF b
        <3> QED
            BY <1>1, <2>2, <3>1
    <2>7. c[1] = b[1] /\ c[2] = b[2] /\ c[2 + 1] = d[1]
        BY <1>1, <2>2, <2>6 DEF Grown, BytesAt
    <2>8. each[1] = c[1] /\ each[2] = c[2] /\ each[3] = c[3] /\ each[3 + 1] = pad[1]
        BY <2>3, <2>5, <2>6 DEF Grown, BytesAt
    <2> QED
        BY <2>3, <2>6, <2>7, <2>8
<1> HIDE DEF each, d, u
<1>4. \A k \in 1 .. n : ((k - 1) % 4) + 1 \in 1 .. 4
    BY <1>1, SMTT(30)
<1>5. parts \in Seq(Cells) /\ Len(parts) = n
    <2>1. \A j \in 1 .. 4 : each[j] \in Cells
        <3>1. \A j \in 1 .. 4 : j = 1 \/ j = 2 \/ j = 3 \/ j = 4
            OBVIOUS
        <3> QED
            BY <1>1, <1>3, <3>1, CellsAre
    <2>2. parts \in [1 .. n -> Cells]
        BY <1>4, <2>1
    <2> QED
        BY <1>1, <2>2, SeqDef
<1>6. \A i \in 1 .. Count : StringIs(parts, 4 * (i - 1), d)
    <2> TAKE i \in 1 .. Count
    <2> DEFINE p == 4 * (i - 1)
    <2>1. /\ p \in Nat /\ p + 4 <= n
          /\ p + 1 \in 1 .. n /\ p + 2 \in 1 .. n /\ p + 3 \in 1 .. n
          /\ p + 2 + 1 = p + 3
        BY <1>1
    <2>2. /\ ((p + 1 - 1) % 4) + 1 = 1 /\ ((p + 2 - 1) % 4) + 1 = 2
          /\ ((p + 3 - 1) % 4) + 1 = 3
        BY <1>1, SMTT(30)
    <2> HIDE DEF p
    <2>3. parts[p + 1] = each[1] /\ parts[p + 2] = each[2] /\ parts[p + 3] = each[3]
        BY <2>1, <2>2
    <2>4. WordAt(parts, p, "len", 1)
        <3>1. p + 2 <= Len(parts)
            BY <1>1, <1>5, <2>1
        <3>2. parts[p + 1] = Byte("len", 1) /\ parts[p + 2] = Byte("high", 1)
            BY <1>3, <2>3
        <3> QED
            BY <2>1, <3>1, <3>2 DEF WordAt
    <2>5. BytesAt(parts, p + 2, d)
        <3>1. \A k \in 1 .. Len(d) : k = 1
            BY <1>1
        <3> QED
            BY <1>1, <1>3, <1>5, <2>1, <2>3, <3>1 DEF BytesAt
    <2> QED
        BY <1>1, <2>4, <2>5 DEF StringIs, p
<1> HIDE DEF parts
<1>7. v \in Seq(Cells) /\ Len(v) = Len(u) + Len(parts) /\ BytesAt(v, Len(u), parts)
    BY <1>1, <1>5, JoinFacts
<1> HIDE DEF v
<1>8. Len(v) = End(m) + n
    BY <1>1, <1>5, <1>7
<1>9. w \in Seq(Cells) /\ Len(w) = Len(v) + 2 /\ Grown(v, w) /\ WordAt(w, Len(v), "len", Count)
    <2>1. Byte("len", Count) \in Cells /\ Count \in Int
        BY <1>1, CellsAre
    <2>2. w = v \o Word("len", Count)
        OBVIOUS
    <2> HIDE DEF w
    <2> QED
        BY <1>7, <2>1, <2>2, WordAdded
<1> HIDE DEF w
<1>10. ASSUME NEW k \in 1 .. 2 * Count
       PROVE  /\ (k + 1) \div 2 \in 1 .. Count /\ ((k - 1) % 2) + 1 \in 1 .. 2
    BY <1>1, SMTT(30)
<1>11. ASSUME NEW i \in 1 .. Count
       PROVE  /\ to(i) \in Seq(Cells) /\ Len(to(i)) = 2
              /\ to(i)[1] = Byte("ptr", n + 2 * i - 4 * (i - 1))
              /\ to(i)[2] = Byte("high", n + 2 * i - 4 * (i - 1))
    <2> DEFINE x == n + 2 * i - 4 * (i - 1)
    <2>1. x \in Int
        BY <1>1
    <2> HIDE DEF x
    <2>2. /\ Word("ptr", x) \in Seq(Cells) /\ Len(Word("ptr", x)) = 2
          /\ Word("ptr", x)[1] = Byte("ptr", x) /\ Word("ptr", x)[2] = Byte("high", x)
        BY <2>1, CellsAre, WordFacts
    <2> QED
        BY <2>2 DEF x
<1> HIDE DEF to
<1>12. refs \in Seq(Cells) /\ Len(refs) = 2 * Count
    <2>1. \A k \in 1 .. 2 * Count : to((k + 1) \div 2)[((k - 1) % 2) + 1] \in Cells
        BY <1>10, <1>11, ElementOfSeq
    <2> DEFINE c == 2 * Count
    <2>2. c \in Nat
        BY <1>1
    <2>3. refs \in [1 .. c -> Cells]
        BY <2>1
    <2> HIDE DEF c, refs
    <2>4. refs \in Seq(Cells) /\ Len(refs) = c
        BY <2>2, <2>3, SeqDef
    <2> QED
        BY <2>4 DEF c
<1>13. \A i \in 1 .. Count : /\ refs[2 * i - 1] = to(i)[1] /\ refs[2 * i] = to(i)[2]
                             /\ 2 * i - 1 \in 1 .. 2 * Count /\ 2 * i \in 1 .. 2 * Count
    <2> TAKE i \in 1 .. Count
    <2>1. 2 * i - 1 \in 1 .. 2 * Count /\ 2 * i \in 1 .. 2 * Count
        BY <1>1
    <2>2. /\ (2 * i - 1 + 1) \div 2 = i /\ ((2 * i - 1 - 1) % 2) + 1 = 1
          /\ (2 * i + 1) \div 2 = i /\ ((2 * i - 1) % 2) + 1 = 2
        BY <1>1, SMTT(30)
    <2> QED
        BY <2>1, <2>2
<1> HIDE DEF refs
<1>14. t \in Seq(Cells) /\ Len(t) = Len(w) + Len(refs) /\ Grown(w, t) /\ BytesAt(t, Len(w), refs)
    BY <1>2, <1>9, <1>12, JoinFacts
<1>15. WordAt(t, Len(v), "len", Count)
    BY <1>9, <1>14, WordKept
<1>16. BytesAt(t, Len(u), parts)
    BY <1>5, <1>7, <1>9, <1>14, BytesKept
<1>17. ASSUME NEW i \in 1 .. Count
       PROVE  \E q \in 0 .. Len(t) : PtrIs(t, Len(v) + 2 * i, q) /\ StringIs(t, q, d)
    <2> DEFINE j == 4 * (i - 1)
               q == End(m) + j
    <2>1. /\ j \in Nat /\ q \in Nat /\ j + 4 <= n /\ Len(w) = End(m) + n + 2
          /\ Len(t) = End(m) + n + 2 + 2 * Count
          /\ q \in 0 .. Len(t)
        <3>1. Len(w) = End(m) + n + 2
            BY <1>1, <1>8, <1>9
        <3>2. Len(t) = End(m) + n + 2 + 2 * Count
            BY <1>12, <1>14, <3>1
        <3>3. j \in Nat /\ j + 4 <= n
            BY <1>1
        <3> HIDE DEF n, j
        <3> QED
            BY <1>1, <3>1, <3>2, <3>3
    <2>2. StringIs(t, q, d)
        <3>1. StringIs(parts, j, d)
            BY <1>6
        <3> HIDE DEF j
        <3>2. /\ \A k \in 1 .. Len(parts) : t[End(m) + k] = parts[k]
              /\ End(m) + Len(parts) <= Len(t)
            BY <1>1, <1>16 DEF BytesAt
        <3>3. /\ q + 1 = End(m) + (j + 1) /\ q + 2 = End(m) + (j + 2)
              /\ q + 2 + 1 = End(m) + (j + 2 + 1)
              /\ j + 1 \in 1 .. Len(parts) /\ j + 2 \in 1 .. Len(parts)
              /\ j + 2 + 1 \in 1 .. Len(parts)
              /\ q + 2 <= Len(t) /\ q + 2 + 1 <= Len(t)
            <4> HIDE DEF n
            <4>1. /\ j \in Nat /\ End(m) \in Nat /\ n \in Nat /\ j + 4 <= n
                  /\ Len(parts) = n /\ End(m) + n <= Len(t) /\ Len(t) \in Nat
                BY <1>1, <1>5, <1>14, <2>1, LenProperties, SMTT(30)
            <4>2. /\ q + 1 = End(m) + (j + 1) /\ q + 2 = End(m) + (j + 2)
                  /\ q + 2 + 1 = End(m) + (j + 2 + 1)
                BY <4>1
            <4>3. /\ j + 1 \in 1 .. n /\ j + 2 \in 1 .. n /\ j + 2 + 1 \in 1 .. n
                BY <4>1
            <4>4. q + 2 <= Len(t) /\ q + 2 + 1 <= Len(t)
                BY <4>1
            <4> QED
                BY <4>1, <4>2, <4>3, <4>4
        <3>4. WordAt(t, q, "len", Len(d))
            BY <2>1, <3>1, <3>2, <3>3 DEF StringIs, WordAt
        <3>5. \A k \in 1 .. Len(d) : k = 1
            BY <1>1
        <3>6. BytesAt(t, q + 2, d)
            <4>1. parts[j + 2 + 1] = d[1]
                <5>1. BytesAt(parts, j + 2, d) /\ 1 \in 1 .. Len(d)
                    BY <1>1, <3>1 DEF StringIs
                <5> QED
                    BY <5>1 DEF BytesAt
            <4>2. t[q + 2 + 1] = d[1] /\ q + 2 \in Nat
                <5>1. t[End(m) + (j + 2 + 1)] = parts[j + 2 + 1]
                    BY <3>2, <3>3
                <5>2. q + 2 \in Nat
                    BY <2>1
                <5> QED
                    BY <3>3, <4>1, <5>1, <5>2
            <4> HIDE DEF q
            <4> QED
                BY <1>1, <3>3, <3>5, <4>2 DEF BytesAt
        <3> QED
            BY <3>4, <3>6 DEF StringIs
    <2>3. PtrIs(t, Len(v) + 2 * i, q)
        <3> DEFINE x == n + 2 * i - 4 * (i - 1)
                   p == Len(v) + 2 * i
        <3>1. t[Len(w) + (2 * i - 1)] = Byte("ptr", x) /\ t[Len(w) + 2 * i] = Byte("high", x)
            BY <1>11, <1>12, <1>13, <1>14 DEF BytesAt
        <3>2. /\ p \in Nat /\ p + 1 = Len(w) + (2 * i - 1) /\ p + 2 = Len(w) + 2 * i
              /\ p + 2 <= Len(t) /\ p - q = x
            <4>1. n \in Nat /\ End(m) \in Nat /\ Len(v) = End(m) + n /\ Count \in Nat
                BY <1>1, <1>8
            <4>2. Len(w) = End(m) + n + 2 /\ Len(t) = End(m) + n + 2 + 2 * Count
                BY <2>1
            <4>3. i \in Nat /\ i <= Count
                BY <4>1
            <4> HIDE DEF n
            <4>4. p \in Nat /\ p = End(m) + n + 2 * i /\ p - q = x
                BY <4>1, <4>3
            <4>5. 2 * i <= 2 * Count /\ 2 * i \in Nat /\ 2 * Count \in Nat
                BY <4>1, <4>3
            <4> HIDE DEF p, q, x
            <4>6. p + 1 = Len(w) + (2 * i - 1)
                BY <4>1, <4>2, <4>4, <4>5, SMTT(30)
            <4>7. p + 2 = Len(w) + 2 * i
                BY <4>1, <4>2, <4>4, <4>5, SMTT(30)
            <4>8. p + 2 <= Len(t)
                <5>1. Len(w) \in Nat /\ Len(t) = Len(w) + 2 * Count
                    BY <4>1, <4>2, <4>5
                <5>2. \A x1, x2, x3 \in Nat : x2 <= x3 => x1 + x2 <= x1 + x3
                    OBVIOUS
                <5> QED
                    BY <4>5, <4>7, <5>1, <5>2
            <4> QED
                BY <4>4, <4>6, <4>7, <4>8
        <3> HIDE DEF x, p
        <3>3. WordAt(t, p, "ptr", p - q)
            BY <3>1, <3>2 DEF WordAt
        <3> QED
            BY <3>3 DEF PtrIs, p
    <2> QED
        BY <2>1, <2>2, <2>3
<1> HIDE DEF n
<1>18. ObjectIs(t, Len(v), "strings", a)
    BY <1>15, <1>17 DEF ObjectIs, d
<1> QED
    BY <1>8, <1>14, <1>18 DEF n

LEMMA AnswerMade ==
    ASSUME NEW m \in Seq(Cells), NEW f \in References, NEW a \in Nat,
           NEW t, t = Answered(m, f, a), NEW p, p = Place(m, f)
    PROVE  t \in Seq(Cells) /\ p \in Nat /\ ObjectIs(t, p, f, a)
<1> DEFINE d == Data(a, Count, 1)
<1>1. /\ d \in Seq(Cells) /\ Len(d) = Count /\ Count \in Nat \ {0}
      /\ Data(0, Count, 1) \in Seq(Cells) /\ Len(Data(0, Count, 1)) = Count
      /\ Data(a, Count, 4) \in Seq(Cells)
      /\ End(m) \in Nat
    BY DataOf, EndFacts
<1>2. CASE f = "string"
    <2>1. t = WithString(m, d) /\ p = End(m)
        BY <1>2 DEF Answered, Place
    <2> HIDE DEF d
    <2>2. t \in Seq(Cells) /\ StringIs(t, End(m), d)
        BY <1>1, <2>1, StringMade
    <2> QED
        BY <1>1, <1>2, <2>1, <2>2 DEF ObjectIs, d
<1>3. CASE f = "vector"
    <2>1. t = WithVector(m, Count, Data(a, Count, 4)) /\ p = End(m)
        BY <1>3 DEF Answered, Place
    <2>2. t \in Seq(Cells) /\ VectorIs(t, End(m), Count, Data(a, Count, 4))
        BY <1>1, <2>1, VectorMade
    <2> QED
        BY <1>1, <1>3, <2>1, <2>2 DEF ObjectIs
<1>4. CASE f = "struct"
    <2> DEFINE s == WithString(m, d)
               z == WithString(m, Data(0, Count, 1))
    <2>1. t = WithPtr(s, End(m)) /\ p = End(z)
        BY <1>4 DEF Answered, Place
    <2> HIDE DEF d
    <2>2. s \in Seq(Cells) /\ Len(s) = End(m) + 2 + Len(d) /\ StringIs(s, End(m), d)
        BY <1>1, StringMade
    <2>3. Len(z) = End(m) + 2 + Count
        BY <1>1, StringMade
    <2> HIDE DEF s, z
    <2>4. End(z) = End(s)
        BY <1>1, <2>2, <2>3 DEF End
    <2>5. End(s) \in Nat /\ Len(s) <= End(s)
        BY <2>2, EndFacts
    <2>6. t \in Seq(Cells) /\ Grown(s, t) /\ PtrIs(t, p, End(m))
        BY <1>1, <2>1, <2>2, <2>4, PtrMade
    <2>7. StringIs(t, End(m), d)
        BY <1>1, <2>2, <2>6, StringKept
    <2>8. End(m) \in 0 .. p /\ End(m) + 2 + Count <= p
        BY <1>1, <2>1, <2>2, <2>4, <2>5
    <2> QED
        BY <1>4, <2>1, <2>4, <2>5, <2>6, <2>7, <2>8 DEF ObjectIs, d
<1>5. CASE f = "strings"
    <2>1. t = Strings(m, a) /\ p = End(m) + 4 * Count
        BY <1>5 DEF Answered, Place
    <2>2. p \in Nat
        BY <1>1, <2>1
    <2> QED
        BY <1>5, <2>1, <2>2, StringsMade
<1> QED
    BY <1>2, <1>3, <1>4, <1>5 DEF References

\* r is what m has from b to e.
Cut(m, b, e, r) == Len(r) = e - b /\ \A k \in 1 .. e - b : r[k] = m[b + k]

LEMMA CutFacts ==
    ASSUME NEW m \in Seq(Cells), NEW b \in Nat, NEW e \in Nat, b <= e, e <= Len(m),
           NEW r, r = SubSeq(m, b + 1, e)
    PROVE  r \in Seq(Cells) /\ Cut(m, b, e, r)
<1>1. Len(m) \in Nat
    BY LenProperties
<1>2. \A k \in b + 1 .. e : k \in 1 .. Len(m) /\ m[k] \in Cells
    BY <1>1, ElementOfSeq
<1>3. /\ b + 1 \in Int /\ e - (b + 1) + 1 = e - b
      /\ (b + 1 <= e \/ e - b = 0)
      /\ \A k \in 1 .. e - b : b + 1 + k - 1 = b + k
    BY <1>1
<1>4. /\ r \in Seq(Cells) /\ Len(r) = (IF b + 1 <= e THEN e - (b + 1) + 1 ELSE 0)
      /\ \A k \in 1 .. e - (b + 1) + 1 : r[k] = m[b + 1 + k - 1]
    BY <1>2, <1>3, SubSeqProperties
<1>5. Len(r) = e - b
    BY <1>3, <1>4
<1>6. \A k \in 1 .. e - b : r[k] = m[b + k]
    BY <1>3, <1>4
<1> QED
    BY <1>4, <1>5, <1>6 DEF Cut

LEMMA WordCut ==
    ASSUME NEW m, NEW b \in Nat, NEW e \in Nat, NEW r, Cut(m, b, e, r),
           NEW p, NEW what, NEW n, WordAt(m, p, what, n), b <= p, p + 2 <= e
    PROVE  WordAt(r, p - b, what, n)
<1>1. p \in Nat
    BY DEF WordAt
<1>2. /\ p - b \in Nat /\ p - b + 1 \in 1 .. e - b /\ p - b + 2 \in 1 .. e - b
      /\ b + (p - b + 1) = p + 1 /\ b + (p - b + 2) = p + 2
    BY <1>1
<1>3. r[p - b + 1] = m[p + 1] /\ r[p - b + 2] = m[p + 2] /\ p - b + 2 <= Len(r)
    <2>1. /\ r[p - b + 1] = m[b + (p - b + 1)] /\ r[p - b + 2] = m[b + (p - b + 2)]
          /\ Len(r) = e - b
        BY <1>2 DEF Cut
    <2> QED
        BY <1>2, <2>1
<1> QED
    BY <1>2, <1>3 DEF WordAt

LEMMA BytesCut ==
    ASSUME NEW m, NEW b \in Nat, NEW e \in Nat, NEW r, Cut(m, b, e, r),
           NEW p, NEW s \in Seq(Cells), BytesAt(m, p, s), b <= p, p + Len(s) <= e
    PROVE  BytesAt(r, p - b, s)
<1>1. p \in Nat /\ Len(s) \in Nat
    BY LenProperties DEF BytesAt
<1>2. p - b \in Nat /\ p - b + Len(s) <= e - b
    BY <1>1
<1>3. ASSUME NEW k \in 1 .. Len(s)
      PROVE  r[p - b + k] = s[k]
    <2>1. p - b + k \in 1 .. e - b /\ b + (p - b + k) = p + k
        BY <1>1
    <2>2. r[p - b + k] = m[b + (p - b + k)]
        BY <2>1 DEF Cut
    <2> QED
        BY <2>1, <2>2 DEF BytesAt
<1> QED
    BY <1>2, <1>3 DEF BytesAt, Cut

\* The extent of an object that is where it should be.
LEMMA ObjectFound ==
    ASSUME NEW m \in Seq(Cells), NEW p \in Int, NEW f \in References, NEW a \in Nat,
           ObjectIs(m, p, f, a), NEW e, e = Extent(m, p, f)
    PROVE  /\ Found(m, p, f)
           /\ e.begin \in Nat /\ e.end \in Nat /\ e.begin <= e.end /\ e.end <= Len(m)
           /\ f = "string" => e.begin = p /\ e.end = p + 2 + Count
           /\ f = "vector" => e.begin = p /\ e.end = VectorData(p) + 4 * Count
           /\ f = "struct" => e.begin = Target(m, p) /\ e.end = p + 2
<1> DEFINE dn == Data(a, Count, 1)
           d4 == Data(a, Count, 4)
<1>1. /\ Len(dn) = Count /\ Len(d4) = 4 * Count /\ Count \in Nat \ {0} /\ Len(m) \in Nat
    BY DataOf, LenProperties
<1> HIDE DEF dn, d4
<1>2. CASE f = "string"
    <2>1. WordAt(m, p, "len", Count) /\ BytesAt(m, p + 2, dn)
        BY <1>1, <1>2 DEF ObjectIs, StringIs, dn
    <2>2. IsWord(m, p, "len") /\ m[p + 1][2] = Count /\ p \in Nat
        BY <2>1, WordRead
    <2>3. e.begin = p /\ e.end = p + 2 + Count
        BY <1>2, <2>2 DEF Extent
    <2>4. p + 2 + Count <= Len(m)
        BY <1>1, <2>1, <2>2 DEF BytesAt
    <2> QED
        BY <1>1, <1>2, <2>2, <2>3, <2>4 DEF Found
<1>3. CASE f = "vector"
    <2>1. WordAt(m, p, "len", Count) /\ BytesAt(m, VectorData(p), d4)
        BY <1>3 DEF ObjectIs, VectorIs, d4
    <2>2. IsWord(m, p, "len") /\ m[p + 1][2] = Count /\ p \in Nat
        BY <2>1, WordRead
    <2>3. e.begin = p /\ e.end = VectorData(p) + 4 * Count
        BY <1>3, <2>2 DEF Extent
    <2>4. VectorData(p) \in Nat /\ p + 2 <= VectorData(p) /\ VectorData(p) + 4 * Count <= Len(m)
        <3>1. p + 2 \in Nat /\ 4 \in Aligns
            BY <2>2 DEF Aligns
        <3>2. VectorData(p) \in Nat /\ p + 2 <= VectorData(p)
            BY <3>1, AlignUpFacts DEF VectorData
        <3> QED
            BY <1>1, <2>1, <3>2 DEF BytesAt
    <2> HIDE DEF VectorData
    <2> QED
        BY <1>1, <1>3, <2>2, <2>3, <2>4 DEF Found
<1>4. CASE f = "struct"
    <2>1. PICK t \in 0 .. p : PtrIs(m, p, t)
        BY <1>4 DEF ObjectIs
    <2>2. IsWord(m, p, "ptr") /\ Target(m, p) = t /\ p \in Nat
        BY <2>1, WordRead, TargetIs DEF PtrIs
    <2>3. e.begin = t /\ e.end = p + 2
        BY <1>4, <2>2 DEF Extent
    <2>4. p + 2 <= Len(m)
        BY <2>1 DEF PtrIs, WordAt
    <2> QED
        BY <1>1, <1>4, <2>1, <2>2, <2>3, <2>4 DEF Found
<1>5. CASE f = "strings"
    <2>1. WordAt(m, p, "len", Count)
        BY <1>5 DEF ObjectIs
    <2>2. IsWord(m, p, "len") /\ m[p + 1][2] = Count /\ p \in Nat
        BY <2>1, WordRead
    <2>3. e.begin = p /\ e.end = p + 2 + 2 * Count
        BY <1>5, <2>2 DEF Extent
    <2>4. p + 2 * Count + 2 <= Len(m)
        <3>1. \E t \in 0 .. Len(m) : PtrIs(m, p + 2 * Count, t)
            BY <1>1, <1>5 DEF ObjectIs
        <3> QED
            BY <3>1 DEF PtrIs, WordAt
    <2> QED
        BY <1>1, <1>5, <2>2, <2>3, <2>4 DEF Found
<1> QED
    BY <1>2, <1>3, <1>4, <1>5 DEF References

\* find_extent_and_position is right in an empty builder, for an extent that begins
\* where the elements of a vector keep their distance.
LEMMA Relocates ==
    ASSUME NEW m \in Seq(Cells), NEW p \in Int, NEW f \in References, f # "strings",
           NEW a \in Nat, ObjectIs(m, p, f, a), NEW e, e = Extent(m, p, f),
           f = "vector" => e.begin % 4 = 0,
           NEW r, r = SubSeq(m, e.begin + 1, e.end)
    PROVE  ObjectIs(r, p - e.begin, f, a)
<1> DEFINE b  == e.begin
           n  == e.end
           dn == Data(a, Count, 1)
           d4 == Data(a, Count, 4)
<1>1. /\ dn \in Seq(Cells) /\ Len(dn) = Count /\ Count \in Nat \ {0}
      /\ d4 \in Seq(Cells) /\ Len(d4) = 4 * Count
    BY DataOf
<1>2. /\ b \in Nat /\ n \in Nat /\ b <= n /\ n <= Len(m)
      /\ f = "string" => b = p /\ n = p + 2 + Count
      /\ f = "vector" => b = p /\ n = VectorData(p) + 4 * Count
      /\ f = "struct" => b = Target(m, p) /\ n = p + 2
    BY ObjectFound
<1>3. r = SubSeq(m, b + 1, n) /\ (f = "vector" => b % 4 = 0)
    OBVIOUS
<1> HIDE DEF dn, d4, b, n
<1>4. Cut(m, b, n, r) /\ b \in Nat /\ n \in Nat
    BY <1>2, <1>3, CutFacts
<1>5. CASE f = "string"
    <2>1. WordAt(m, p, "len", Count) /\ BytesAt(m, p + 2, dn) /\ p \in Nat
        BY <1>1, <1>5 DEF ObjectIs, StringIs, dn, WordAt
    <2>2. b <= p /\ p + 2 <= n /\ b <= p + 2 /\ p + 2 + Len(dn) <= n
        BY <1>1, <1>2, <1>5, <2>1
    <2>3. WordAt(r, p - b, "len", Count) /\ BytesAt(r, (p + 2) - b, dn)
        BY <1>1, <1>4, <2>1, <2>2, WordCut, BytesCut
    <2>4. (p + 2) - b = (p - b) + 2
        BY <1>2, <2>1
    <2>5. StringIs(r, p - b, dn)
        BY <1>1, <2>3, <2>4 DEF StringIs
    <2> QED
        BY <1>5, <2>5 DEF ObjectIs, dn, b
<1>6. CASE f = "vector"
    <2>1. WordAt(m, p, "len", Count) /\ BytesAt(m, VectorData(p), d4) /\ p \in Nat
        BY <1>6 DEF ObjectIs, VectorIs, d4, WordAt
    <2>2. VectorData(p) = p + 4 /\ p - b = 0 /\ VectorData(0) = 4
        <3>1. p % 4 = 0 /\ b = p
            BY <1>2, <1>3, <1>6
        <3>2. VectorData(p) = p + 4
            BY <2>1, <3>1, SMTT(30) DEF VectorData, AlignUp
        <3>3. VectorData(0) = 4
            BY SMTT(30) DEF VectorData, AlignUp
        <3> QED
            BY <2>1, <3>1, <3>2, <3>3
    <2>3. /\ b <= p /\ p + 2 <= n /\ b <= VectorData(p) /\ VectorData(p) + Len(d4) <= n
          /\ VectorData(p) \in Nat
        BY <1>1, <1>2, <1>6, <2>1, <2>2
    <2>4. WordAt(r, p - b, "len", Count) /\ BytesAt(r, VectorData(p) - b, d4)
        BY <1>1, <1>4, <2>1, <2>3, WordCut, BytesCut
    <2>5. VectorData(p) - b = VectorData(p - b)
        BY <1>2, <1>6, <2>1, <2>2
    <2>6. VectorIs(r, p - b, Count, d4)
        BY <2>4, <2>5 DEF VectorIs
    <2> QED
        BY <1>6, <2>6 DEF ObjectIs, d4, b
<1>7. CASE f = "struct"
    <2>1. PICK t \in 0 .. p : PtrIs(m, p, t) /\ StringIs(m, t, dn) /\ t + 2 + Count <= p
        BY <1>7 DEF ObjectIs, dn
    <2>2. p \in Nat /\ b = t /\ n = p + 2
        BY <1>2, <1>7, <2>1, TargetIs
    <2>3. WordAt(m, p, "ptr", p - t) /\ WordAt(m, t, "len", Count) /\ BytesAt(m, t + 2, dn)
        BY <1>1, <2>1 DEF PtrIs, StringIs
    <2>4. /\ b <= p /\ p + 2 <= n /\ b <= t /\ t + 2 <= n /\ b <= t + 2
          /\ t + 2 + Len(dn) <= n
        BY <1>1, <2>1, <2>2
    <2>5. WordAt(r, p - b, "ptr", p - t)
        BY <1>4, <2>3, <2>4, WordCut
    <2>6. WordAt(r, t - b, "len", Count) /\ BytesAt(r, (t + 2) - b, dn)
        BY <1>1, <1>4, <2>3, <2>4, WordCut, BytesCut
    <2>7. /\ t - b = 0 /\ (t + 2) - b = 0 + 2 /\ p - t = (p - b) - 0
          /\ 0 + 2 + Count <= p - b /\ p - b \in Nat
        BY <1>1, <1>2, <2>1, <2>2
    <2>8. PtrIs(r, p - b, 0)
        BY <2>5, <2>7 DEF PtrIs
    <2>9. StringIs(r, 0, dn)
        BY <1>1, <2>6, <2>7 DEF StringIs
    <2>10. 0 \in 0 .. p - b
        BY <2>7
    <2> QED
        BY <1>7, <2>7, <2>8, <2>9, <2>10 DEF ObjectIs, dn, b
<1> QED
    BY <1>5, <1>6, <1>7 DEF References

------------------------------------------------------------------------------
(* The frames and the invariant.                                           *)

Frames == [via : {"user", "stub", "direct"}, proc : Procs \union {"none"}, arg : Nat,
           request : Seq(Cells), response : Seq(Cells)]

\* Of the first n frames, o is the last that was not called directly.
OwnedBy(fs, o, n) == /\ o \in 1 .. n /\ fs[o].via # "direct"
                     /\ \A j \in o + 1 .. n : fs[j].via = "direct"

\* The user's code is at the bottom.  Each frame has a builder of its own or uses that
\* of one below; what a call returns to is such a stack again.
Chain(fs) == /\ fs \in Seq(Frames)
             /\ Len(fs) \in 1 .. Depth
             /\ \A i \in 1 .. Len(fs) : /\ fs[i].via = "user" <=> i = 1
                                        /\ Len(fs[i].response) <= Capacity
             /\ \A n \in 1 .. Len(fs) : \E o \in 1 .. n : OwnedBy(fs, o, n)

\* The message m calls f with the string that stands for a.
Requested(m, f, a) == /\ UnionIs(m, f, Target(m, Held(m)))
                      /\ Target(m, Held(m)) \in Int
                      /\ StringIs(m, Target(m, Held(m)), Data(a, 1, 1))

\* Relays pass on what the user called: the frames up to n know it, and those that
\* a message made have it in their request.
Relayed(fs, n, f, a) ==
    \A i \in 2 .. Len(fs) : /\ i <= n => fs[i].proc = f /\ fs[i].arg = a
                            /\ fs[i].via = "stub" => Requested(fs[i].request, f, a)

\* What is returned to a caller whose builder is that of frame o: references are right
\* while no stub has displaced them.
ResultIs(fs, o, r, f, a, mv) ==
    \/ f = "value" /\ r = Value(Data(a, 1, 1))
    \/ f = "view" /\ r = Value(Data(a, 1, 1))
    \/ /\ f = "view" /\ r = View("request", o, r.pos, 1)
       /\ o # 1 /\ BytesAt(fs[o].request, r.pos, Data(a, 1, 1))
    \/ /\ f = "view" /\ r = View("response", o, r.pos, 1)
       /\ BytesAt(fs[o].response, r.pos, Data(a, 1, 1))
    \/ /\ f \in References /\ r = Reference(o, r.pos) /\ r.pos \in Int
       /\ mv = {} => ObjectIs(fs[o].response, r.pos, f, a)

\* What the message m says that answers a stub.
AnswerIs(m, f, a, mv) ==
    \/ f = "value" /\ Len(m) >= UnionSize /\ m[Root(m) + 3] = Data(a, 1, 1)[1]
    \/ /\ f = "view" /\ UnionIs(m, f, Target(m, Held(m)))
       /\ Target(m, Held(m)) \in Int /\ StringIs(m, Target(m, Held(m)), Data(a, 1, 1))
    \/ /\ f \in References /\ UnionIs(m, f, Target(m, Held(m)))
       /\ Target(m, Held(m)) \in Int
       /\ mv = {} => ObjectIs(m, Target(m, Held(m)), f, a)

Called == call.proc \in Procs /\ call.arg \in Args

\* Only the user and what it called can be about to return something.
IInv ==
    /\ pc \in {"user", "running", "sent", "returning", "responded", "overflow"}
    /\ moved \subseteq {"behind", "shifted", "torn"}
    /\ calls \in 0 .. MaxCalls
    /\ Chain(frames)
    /\ pc = "user" => Len(frames) = 1
    /\ pc \in {"running", "sent", "returning", "responded"} => Len(frames) > 1
    /\ Len(frames) > 1 \/ Returned => Called
    /\ Relayed(frames, IF pc = "sent" THEN Len(frames) - 1 ELSE Len(frames),
               call.proc, call.arg)
    /\ pc \in {"sent", "responded"} => frames[Len(frames)].via = "stub"
    /\ pc = "returning" \/ Returned =>
          ResultIs(frames, Owner(frames), result, call.proc, call.arg, moved)
    /\ pc = "responded" =>
          AnswerIs(frames[Len(frames)].response, call.proc, call.arg, moved)

LEMMA FrameFacts ==
    ASSUME NEW fs, Chain(fs)
    PROVE  /\ Len(fs) \in Nat \ {0} /\ Len(fs) <= Depth /\ fs[1].via = "user"
           /\ \A i \in 1 .. Len(fs) :
                 /\ fs[i] \in Frames
                 /\ fs[i].request \in Seq(Cells) /\ fs[i].response \in Seq(Cells)
                 /\ fs[i].via \in {"user", "stub", "direct"}
                 /\ fs[i].via = "user" <=> i = 1
                 /\ Len(fs[i].response) <= Capacity
<1>1. fs \in Seq(Frames) /\ Len(fs) \in 1 .. Depth /\ Depth \in Nat
    BY CallsAssumption DEF Chain
<1>2. \A i \in 1 .. Len(fs) : fs[i] \in Frames
    BY <1>1, ElementOfSeq
<1>3. \A i \in 1 .. Len(fs) : /\ fs[i].request \in Seq(Cells) /\ fs[i].response \in Seq(Cells)
                              /\ fs[i].via \in {"user", "stub", "direct"}
    BY <1>2 DEF Frames
<1>4. \A i \in 1 .. Len(fs) : (fs[i].via = "user" <=> i = 1) /\ Len(fs[i].response) <= Capacity
    BY DEF Chain
<1>5. Len(fs) \in Nat \ {0} /\ Len(fs) <= Depth /\ 1 \in 1 .. Len(fs)
    BY <1>1
<1> QED
    BY <1>2, <1>3, <1>4, <1>5

LEMMA OwnerUnique ==
    ASSUME NEW fs, NEW n \in Nat, NEW o, NEW q, OwnedBy(fs, o, n), OwnedBy(fs, q, n)
    PROVE  o = q
<1>1. o \in 1 .. n /\ q \in 1 .. n
    BY DEF OwnedBy
<1>2. ~(o < q) /\ ~(q < o)
    BY <1>1 DEF OwnedBy
<1> QED
    BY <1>1, <1>2

LEMMA OwnerFacts ==
    ASSUME NEW fs, Chain(fs), NEW o, o = Owner(fs)
    PROVE  /\ OwnedBy(fs, o, Len(fs)) /\ o \in 1 .. Len(fs) /\ fs[o].via # "direct"
           /\ fs[o].response \in Seq(Cells) /\ Builder(fs) = fs[o].response
<1>1. Len(fs) \in 1 .. Len(fs)
    BY FrameFacts
<1>2. \E i \in 1 .. Len(fs) : OwnedBy(fs, i, Len(fs))
    BY <1>1 DEF Chain
<1>3. o = CHOOSE i \in 1 .. Len(fs) : OwnedBy(fs, i, Len(fs))
    BY DEF Owner, OwnedBy
<1>4. OwnedBy(fs, o, Len(fs))
    BY <1>2, <1>3
<1> QED
    BY <1>4, FrameFacts DEF OwnedBy, Builder

LEMMA OwnerIs ==
    ASSUME NEW fs, Chain(fs), NEW o, OwnedBy(fs, o, Len(fs))
    PROVE  Owner(fs) = o
BY FrameFacts, OwnerFacts, OwnerUnique

\* What is stored in a builder changes nothing else of the frames.
SameCode(fs, gs) ==
    /\ Len(gs) = Len(fs)
    /\ \A i \in 1 .. Len(fs) : /\ gs[i].via = fs[i].via /\ gs[i].proc = fs[i].proc
                               /\ gs[i].arg = fs[i].arg /\ gs[i].request = fs[i].request

\* gs is fs with another frame at i.
Replaced(fs, i, g, gs) == /\ Len(gs) = Len(fs) /\ gs[i] = g
                          /\ \A j \in 1 .. Len(fs) : j # i => gs[j] = fs[j]

LEMMA ReplacedFacts ==
    ASSUME NEW fs, Chain(fs), NEW i \in 1 .. Len(fs), NEW g \in Frames,
           g.via = fs[i].via, Len(g.response) <= Capacity,
           NEW gs, gs = [fs EXCEPT ![i] = g]
    PROVE  Chain(gs) /\ Replaced(fs, i, g, gs) /\ Owner(gs) = Owner(fs)
<1>1. fs \in Seq(Frames) /\ Len(fs) \in 1 .. Depth /\ Len(fs) \in Nat
    BY FrameFacts DEF Chain
<1>2. /\ gs \in Seq(Frames) /\ Len(gs) = Len(fs)
      /\ \A j \in 1 .. Len(fs) : gs[j] = IF j = i THEN g ELSE fs[j]
    BY <1>1, ExceptSeq
<1>3. \A j \in 1 .. Len(fs) : /\ gs[j].via = fs[j].via
                              /\ Len(gs[j].response) <= Capacity
    BY <1>2 DEF Chain
<1>4. ASSUME NEW n \in 1 .. Len(fs), NEW q \in 1 .. n, OwnedBy(fs, q, n)
      PROVE  OwnedBy(gs, q, n)
    <2>1. /\ \A j \in 1 .. n : j \in 1 .. Len(fs)
          /\ \A j \in q + 1 .. n : j \in 1 .. n
        BY <1>1
    <2> QED
        BY <1>3, <1>4, <2>1 DEF OwnedBy
<1>5. \A n \in 1 .. Len(gs) : \E q \in 1 .. n : OwnedBy(gs, q, n)
    BY <1>2, <1>4 DEF Chain
<1>6. Chain(gs)
    BY <1>1, <1>2, <1>3, <1>5 DEF Chain
<1>7. Owner(gs) = Owner(fs)
    <2>1. OwnedBy(fs, Owner(fs), Len(fs)) /\ Owner(fs) \in 1 .. Len(fs)
        BY OwnerFacts
    <2>2. Len(fs) \in 1 .. Len(fs)
        BY <1>1
    <2>3. OwnedBy(gs, Owner(fs), Len(gs))
        BY <1>2, <1>4, <2>1, <2>2
    <2> QED
        BY <1>6, <2>3, OwnerIs
<1>8. Replaced(fs, i, g, gs)
    BY <1>2 DEF Replaced
<1> QED
    BY <1>6, <1>7, <1>8

LEMMA BuiltFacts ==
    ASSUME NEW fs, Chain(fs), NEW m \in Seq(Cells), Len(m) <= Capacity,
           NEW gs, gs = Built(fs, m)
    PROVE  /\ Chain(gs) /\ SameCode(fs, gs) /\ Owner(gs) = Owner(fs)
           /\ gs[Owner(fs)].response = m
<1> DEFINE o == Owner(fs)
           h == [fs[o] EXCEPT !.response = m]
<1>1. o \in 1 .. Len(fs) /\ fs[o] \in Frames
    BY OwnerFacts, FrameFacts
<1>2. gs = [fs EXCEPT ![o] = h]
    BY DEF Built
<1>3. h \in Frames /\ h.response = m /\ h.via = fs[o].via /\ h.proc = fs[o].proc
      /\ h.arg = fs[o].arg /\ h.request = fs[o].request
    BY <1>1 DEF Frames
<1> HIDE DEF h, o
<1>4. Len(h.response) <= Capacity
    BY <1>3
<1>5. Chain(gs) /\ Replaced(fs, o, h, gs) /\ Owner(gs) = Owner(fs)
    <2>1. \A x : x = [fs EXCEPT ![o] = h] =>
                    Chain(x) /\ Replaced(fs, o, h, x) /\ Owner(x) = Owner(fs)
        BY <1>1, <1>3, <1>4, ReplacedFacts
    <2> QED
        BY <1>2, <2>1
<1>6. SameCode(fs, gs) /\ gs[o].response = m
    BY <1>1, <1>3, <1>5 DEF SameCode, Replaced
<1> QED
    BY <1>5, <1>6 DEF o

LEMMA RelayedSame ==
    ASSUME NEW fs, NEW gs, SameCode(fs, gs), NEW n, NEW f, NEW a, Relayed(fs, n, f, a),
           Len(fs) \in Nat
    PROVE  Relayed(gs, n, f, a)
<1>1. \A i \in 2 .. Len(gs) : i \in 2 .. Len(fs) /\ i \in 1 .. Len(fs)
    BY DEF SameCode
<1> QED
    BY <1>1 DEF Relayed, SameCode

\* A call adds a frame.
Pushed(fs, g, gs) == /\ Len(gs) = Len(fs) + 1 /\ gs[Len(gs)] = g
                     /\ \A i \in 1 .. Len(fs) : gs[i] = fs[i]

LEMMA PushFacts ==
    ASSUME NEW fs, Chain(fs), Len(fs) < Depth, NEW g \in Frames,
           g.via \in {"stub", "direct"}, Len(g.response) <= Capacity,
           NEW gs, gs = Append(fs, g)
    PROVE  Chain(gs) /\ Pushed(fs, g, gs)
<1>1. /\ fs \in Seq(Frames) /\ Len(fs) \in Nat \ {0} /\ Depth \in Nat /\ Capacity \in Nat
      /\ Len(fs) < Depth
    BY FrameFacts, CallsAssumption DEF Chain
<1>2. /\ gs \in Seq(Frames) /\ Len(gs) = Len(fs) + 1
      /\ \A i \in 1 .. Len(fs) : gs[i] = fs[i]
      /\ gs[Len(fs) + 1] = g
    BY <1>1, AppendProperties
<1>3. Len(gs) \in 1 .. Depth
    BY <1>1, <1>2
<1>4. \A i \in 1 .. Len(gs) : (gs[i].via = "user" <=> i = 1) /\ Len(gs[i].response) <= Capacity
    <2> TAKE i \in 1 .. Len(gs)
    <2>1. CASE i \in 1 .. Len(fs)
        BY <1>2, <2>1 DEF Chain
    <2>2. CASE i = Len(fs) + 1
        <3>1. gs[i] = g /\ i # 1
            BY <1>1, <1>2, <2>2
        <3> QED
            BY <3>1
    <2> QED
        BY <1>1, <1>2, <2>1, <2>2
<1>5. \A n \in 1 .. Len(gs) : \E o \in 1 .. n : OwnedBy(gs, o, n)
    <2>1. ASSUME NEW n \in 1 .. Len(fs)
          PROVE  \E o \in 1 .. n : OwnedBy(gs, o, n)
        <3>1. PICK o \in 1 .. n : OwnedBy(fs, o, n)
            BY DEF Chain
        <3>2. \A j \in 1 .. n : j \in 1 .. Len(fs)
            BY <1>1
        <3>3. \A j \in o + 1 .. n : j \in 1 .. n
            OBVIOUS
        <3> QED
            BY <1>2, <3>1, <3>2, <3>3 DEF OwnedBy
    <2>2. \E o \in 1 .. Len(fs) + 1 : OwnedBy(gs, o, Len(fs) + 1)
        <3>1. CASE g.via = "stub"
            BY <1>1, <1>2, <3>1 DEF OwnedBy
        <3>2. CASE g.via = "direct"
            <4>1. PICK o \in 1 .. Len(fs) : OwnedBy(gs, o, Len(fs))
                BY <1>1, <2>1
            <4>2. \A j \in o + 1 .. Len(fs) + 1 : j \in o + 1 .. Len(fs) \/ j = Len(fs) + 1
                BY <1>1
            <4>3. o \in 1 .. Len(fs) + 1
                BY <1>1
            <4> QED
                BY <1>2, <3>2, <4>1, <4>2, <4>3 DEF OwnedBy
        <3> QED
            BY <3>1, <3>2
    <2>3. \A n \in 1 .. Len(gs) : n \in 1 .. Len(fs) \/ n = Len(fs) + 1
        BY <1>1, <1>2
    <2> QED
        BY <2>1, <2>2, <2>3
<1> QED
    BY <1>2, <1>3, <1>4, <1>5 DEF Chain, Pushed

\* The end of a call leaves what was there before.
LEMMA PopFacts ==
    ASSUME NEW fs, Chain(fs), Len(fs) > 1, NEW gs, gs = Pop(fs)
    PROVE  /\ Chain(gs) /\ Len(gs) = Len(fs) - 1
           /\ \A i \in 1 .. Len(gs) : gs[i] = fs[i]
<1> DEFINE l == Len(fs) - 1
<1>1. fs \in Seq(Frames) /\ Len(fs) \in Nat \ {0} /\ Len(fs) <= Depth /\ Depth \in Nat
    BY FrameFacts, CallsAssumption DEF Chain
<1>2. l \in Nat /\ 1 <= l /\ l < Len(fs)
    BY <1>1
<1>3. \A i \in 1 .. l : i \in 1 .. Len(fs) /\ fs[i] \in Frames
    BY <1>1, <1>2, FrameFacts
<1>4. gs = SubSeq(fs, 1, l)
    BY DEF Pop
<1> HIDE DEF l
<1>5. gs \in Seq(Frames) /\ Len(gs) = l /\ \A i \in 1 .. l : gs[i] = fs[i]
    <2>1. l - 1 + 1 = l /\ \A i \in 1 .. l : 1 + i - 1 = i
        BY <1>2
    <2> QED
        BY <1>2, <1>3, <1>4, <2>1, SubSeqProperties
<1>6. \A n \in 1 .. l : \E o \in 1 .. n : OwnedBy(gs, o, n)
    <2> TAKE n \in 1 .. l
    <2>1. PICK o \in 1 .. n : OwnedBy(fs, o, n)
        BY <1>3 DEF Chain
    <2>2. /\ \A j \in 1 .. n : j \in 1 .. l
          /\ \A j \in o + 1 .. n : j \in 1 .. n
        BY <1>2
    <2> QED
        BY <1>5, <2>1, <2>2 DEF OwnedBy
<1>7. \A i \in 1 .. l : (gs[i].via = "user" <=> i = 1) /\ Len(gs[i].response) <= Capacity
    BY <1>3, <1>5 DEF Chain
<1>8. l \in 1 .. Depth
    BY <1>1, <1>2
<1>9. Chain(gs)
    BY <1>5, <1>6, <1>7, <1>8 DEF Chain
<1> QED
    BY <1>5, <1>9 DEF l

LEMMA RelayedPopped ==
    ASSUME NEW fs, Chain(fs), Len(fs) > 1, NEW f, NEW a, Relayed(fs, Len(fs), f, a),
           NEW gs, gs = Pop(fs)
    PROVE  Relayed(gs, Len(gs), f, a)
<1>1. Len(gs) = Len(fs) - 1 /\ \A i \in 1 .. Len(gs) : gs[i] = fs[i]
    BY PopFacts
<1>2. Len(fs) \in Nat
    BY FrameFacts
<1>3. \A i \in 2 .. Len(gs) : i \in 1 .. Len(gs) /\ i \in 2 .. Len(fs) /\ i <= Len(fs)
    BY <1>1, <1>2
<1> QED
    BY <1>1, <1>3 DEF Relayed

LEMMA RelayedPushed ==
    ASSUME NEW fs, Chain(fs), Len(fs) < Depth, NEW g \in Frames,
           g.via \in {"stub", "direct"}, Len(g.response) <= Capacity,
           NEW gs, gs = Append(fs, g),
           NEW f, NEW a, Relayed(fs, Len(fs), f, a),
           g.via = "stub" => Requested(g.request, f, a),
           NEW n, n = Len(fs) \/ (n = Len(fs) + 1 /\ g.proc = f /\ g.arg = a)
    PROVE  Relayed(gs, n, f, a)
<1>1. /\ Len(gs) = Len(fs) + 1 /\ gs[Len(gs)] = g
      /\ \A i \in 1 .. Len(fs) : gs[i] = fs[i]
    BY PushFacts DEF Pushed
<1>2. Len(fs) \in Nat \ {0}
    BY FrameFacts
<1>3. ASSUME NEW i \in 2 .. Len(gs)
      PROVE  /\ i <= n => gs[i].proc = f /\ gs[i].arg = a
             /\ gs[i].via = "stub" => Requested(gs[i].request, f, a)
    <2>1. CASE i = Len(fs) + 1
        <3>1. gs[i] = g
            BY <1>1, <2>1
        <3>2. i <= n => g.proc = f /\ g.arg = a
            BY <1>2, <2>1
        <3> QED
            BY <3>1, <3>2
    <2>2. CASE i # Len(fs) + 1
        <3>1. i \in 2 .. Len(fs) /\ i \in 1 .. Len(fs) /\ i <= Len(fs)
            BY <1>1, <1>2, <2>2
        <3>2. gs[i] = fs[i]
            BY <1>1, <3>1
        <3> QED
            BY <3>1, <3>2 DEF Relayed
    <2> QED
        BY <2>1, <2>2
<1> QED
    BY <1>3 DEF Relayed

------------------------------------------------------------------------------
(* The steps.                                                              *)

LEMMA IInvInit == Init => IInv
<1> SUFFICES ASSUME Init
             PROVE  IInv
    OBVIOUS
<1> DEFINE none == <<>>
           top == Frame("user", "none", 0, none)
<1>1. none \in Seq(Cells) /\ Len(none) = 0
    BY EmptySeq
<1>2. /\ top \in Frames /\ top.via = "user" /\ top.response = none
    BY <1>1 DEF Frame, Frames
<1>3. frames = <<top>>
    BY DEF Init
<1> HIDE DEF top, none
<1>4. frames \in Seq(Frames) /\ Len(frames) = 1 /\ frames[1] = top
    BY <1>2, <1>3
<1>5. Depth \in Nat \ {0} /\ Capacity \in Nat /\ MaxCalls \in Nat
    BY CallsAssumption
<1>6. OwnedBy(frames, 1, 1)
    BY <1>2, <1>4 DEF OwnedBy
<1>7. Chain(frames)
    <2>1. \A i \in 1 .. Len(frames) : i = 1 /\ frames[i] = top
        BY <1>4
    <2>2. \A n \in 1 .. Len(frames) : n = 1
        BY <1>4
    <2> QED
        BY <1>1, <1>2, <1>4, <1>5, <1>6, <2>1, <2>2 DEF Chain
<1>8. Relayed(frames, Len(frames), call.proc, call.arg)
    BY <1>4 DEF Relayed
<1>9. /\ pc = "user" /\ moved = {} /\ calls = 0 /\ ~Returned
    BY DEF Init, Returned
<1> QED
    BY <1>4, <1>5, <1>7, <1>8, <1>9 DEF IInv

LEMMA OverflowKeeps ==
    ASSUME IInv, pc # "sent", pc' = "overflow", frames' = frames,
           moved' \subseteq {"behind", "shifted", "torn"}, calls' \in 0 .. MaxCalls,
           call' = call \/ Len(frames) = 1
    PROVE  IInv'
<1>1. Chain(frames')
    BY DEF IInv
<1>2. Len(frames') = Len(frames) /\ Len(frames) \in Nat \ {0}
    BY FrameFacts DEF IInv
<1>3. Relayed(frames', Len(frames'), call'.proc, call'.arg)
    <2>1. CASE call' = call
        BY <1>2, <2>1 DEF IInv
    <2>2. CASE Len(frames) = 1
        BY <2>2 DEF Relayed
    <2> QED
        BY <2>1, <2>2
<1>4. Len(frames') > 1 => Called'
    <2>1. Len(frames) > 1 => Called
        BY DEF IInv
    <2>2. call' = call \/ Len(frames) = 1
        OBVIOUS
    <2>3. CASE call' = call
        BY <1>2, <2>1, <2>3 DEF Called
    <2>4. CASE Len(frames) = 1
        BY <1>2, <2>4
    <2> QED
        BY <2>2, <2>3, <2>4
<1>5. ~Returned'
    BY DEF Returned
<1> QED
    BY <1>1, <1>3, <1>4, <1>5 DEF IInv

\* A client is called with what the user passed.
LEMMA CallKeeps ==
    ASSUME IInv, pc \in {"user", "running"}, NEW f \in Procs, NEW a \in Args,
           Relayed(frames, Len(frames), f, a), CallClient(f, a),
           call'.proc = f, call'.arg = a, call' = call \/ Len(frames) = 1,
           moved' \subseteq {"behind", "shifted", "torn"}, calls' \in 0 .. MaxCalls
    PROVE  IInv'
<1>1. Chain(frames) /\ Len(frames) < Depth /\ Len(frames) \in Nat \ {0} /\ a \in Nat
    BY FrameFacts, CallsAssumption DEF IInv, CallClient, Top
<1> DEFINE none == <<>>
<1>2. none \in Seq(Cells) /\ Len(none) <= Capacity
    BY EmptySeq, CallsAssumption
<1>3. ~(pc' = "user") /\ ~(pc' = "returning") /\ ~(pc' = "responded") =>
            /\ ~Returned'
            /\ pc' = "returning" \/ Returned' =>
                  ResultIs(frames', Owner(frames'), result', call'.proc, call'.arg, moved')
            /\ pc' = "responded" =>
                  AnswerIs(frames'[Len(frames')].response, call'.proc, call'.arg, moved')
    BY DEF Returned
<1>4. CASE CallStub(f, a)
    <2> DEFINE m == Request(f, a)
               top == Frame("stub", "none", 0, m)
    <2>1. m \in Seq(Cells) /\ UnionIs(m, f, 0) /\ StringIs(m, 0, Data(a, 1, 1))
        BY <1>1, RequestMade
    <2>2. Requested(m, f, a)
        <3> HIDE DEF m
        <3>1. Target(m, Held(m)) = 0
            BY <2>1, UnionRead
        <3> QED
            BY <2>1, <3>1 DEF Requested
    <2>3. CASE Len(m) <= Capacity
        <3>1. pc' = "sent" /\ frames' = Append(frames, top)
            BY <1>4, <2>3 DEF CallStub
        <3> HIDE DEF m
        <3>2. top \in Frames /\ top.via = "stub" /\ Len(top.response) <= Capacity /\ top.request = m
            BY <1>2, <2>1 DEF Frame, Frames
        <3> HIDE DEF top
        <3>3. Chain(frames') /\ Pushed(frames, top, frames')
            BY <1>1, <3>1, <3>2, PushFacts
        <3>4. Relayed(frames', Len(frames), f, a)
            <4>1. top.via \in {"stub", "direct"} /\ Requested(top.request, f, a)
                BY <2>2, <3>2
            <4> QED
                BY <1>1, <3>1, <3>2, <4>1, RelayedPushed
        <3>5. Len(frames') - 1 = Len(frames)
            BY <1>1, <3>3 DEF Pushed
        <3>6. frames'[Len(frames')] = top
            BY <3>3 DEF Pushed
        <3> QED
            BY <1>1, <1>3, <3>1, <3>2, <3>3, <3>4, <3>5, <3>6 DEF IInv, Called
    <2>4. CASE ~(Len(m) <= Capacity)
        <3>1. pc' = "overflow" /\ frames' = frames
            BY <1>4, <2>4 DEF CallStub
        <3> QED
            BY <3>1, OverflowKeeps
    <2> QED
        BY <2>3, <2>4
<1>5. CASE CallDirect(f, a)
    <2> DEFINE top == Frame("direct", f, a, none)
    <2>1. pc' = "running" /\ frames' = Append(frames, top)
        BY <1>5 DEF CallDirect
    <2>2. /\ top \in Frames /\ top.via = "direct" /\ Len(top.response) <= Capacity
          /\ top.proc = f /\ top.arg = a
        BY <1>1, <1>2 DEF Frame, Frames
    <2> HIDE DEF top
    <2>3. Chain(frames') /\ Pushed(frames, top, frames')
        BY <1>1, <2>1, <2>2, PushFacts
    <2>5. Len(frames') = Len(frames) + 1
        BY <2>3 DEF Pushed
    <2>4. Relayed(frames', Len(frames'), f, a)
        BY <1>1, <2>1, <2>2, <2>5, RelayedPushed
    <2> QED
        BY <1>1, <1>3, <2>1, <2>3, <2>4, <2>5 DEF IInv, Called
<1> QED
    BY <1>4, <1>5 DEF CallClient

LEMMA UserCallsKeeps ==
    ASSUME IInv, NEW f \in Procs, NEW a \in Args, UserCalls(f, a)
    PROVE  IInv'
<1>1. /\ pc = "user" /\ CallClient(f, a) /\ moved' = {} /\ calls' = calls + 1
      /\ call'.proc = f /\ call'.arg = a
    BY DEF UserCalls
<1>2. Len(frames) = 1
    BY <1>1 DEF IInv
<1>3. Relayed(frames, Len(frames), f, a)
    BY <1>2 DEF Relayed
<1>4. calls' \in 0 .. MaxCalls
    BY CallsAssumption DEF UserCalls, IInv
<1> QED
    BY <1>1, <1>2, <1>3, <1>4, CallKeeps

LEMMA RelayKeeps ==
    ASSUME IInv, Relay
    PROVE  IInv'
<1>1. /\ pc = "running" /\ CallClient(frames[Len(frames)].proc, frames[Len(frames)].arg)
      /\ call' = call /\ moved' = moved /\ calls' = calls
    BY DEF Relay, Top
<1>2. Len(frames) > 1 /\ Len(frames) \in Nat
    BY <1>1, FrameFacts DEF IInv
<1>3. Relayed(frames, Len(frames), call.proc, call.arg) /\ Called
    BY <1>1, <1>2 DEF IInv
<1>4. Len(frames) \in 2 .. Len(frames) /\ Len(frames) <= Len(frames)
    BY <1>2
<1>5. frames[Len(frames)].proc = call.proc /\ frames[Len(frames)].arg = call.arg
    BY <1>3, <1>4 DEF Relayed
<1>6. CallClient(call.proc, call.arg)
    BY <1>1, <1>5
<1>7. /\ call.proc \in Procs /\ call.arg \in Args
      /\ moved' \subseteq {"behind", "shifted", "torn"} /\ calls' \in 0 .. MaxCalls
    BY <1>1, <1>3 DEF IInv, Called
<1> QED
    BY <1>1, <1>3, <1>6, <1>7, CallKeeps

LEMMA ObjectNotEmpty ==
    ASSUME NEW m, NEW p, NEW f \in References, NEW a, ObjectIs(m, p, f, a)
    PROVE  ~(Len(m) = 0)
<1>1. \A what, n : WordAt(m, p, what, n) => ~(Len(m) = 0)
    BY DEF WordAt
<1>2. CASE f = "string"
    BY <1>1, <1>2 DEF ObjectIs, StringIs
<1>3. CASE f = "vector"
    BY <1>1, <1>3 DEF ObjectIs, VectorIs
<1>4. CASE f = "struct"
    BY <1>1, <1>4 DEF ObjectIs, PtrIs
<1>5. CASE f = "strings"
    BY <1>1, <1>5 DEF ObjectIs
<1> QED
    BY <1>2, <1>3, <1>4, <1>5 DEF References

\* What an empty builder has is not referred to.
LEMMA ResultElsewhere ==
    ASSUME NEW fs, Len(fs[1].response) = 0, NEW gs, NEW r, NEW f, NEW a \in Nat, NEW mv,
           ResultIs(fs, 1, r, f, a, mv)
    PROVE  ResultIs(gs, 1, r, f, a, mv)
<1>1. \A p : ~BytesAt(fs[1].response, p, Data(a, 1, 1))
    <2>1. Len(Data(a, 1, 1)) = 1
        BY DataOf
    <2> QED
        BY <2>1 DEF BytesAt
<1>2. \A p : f \in References => ~ObjectIs(fs[1].response, p, f, a)
    BY ObjectNotEmpty
<1> QED
    BY <1>1, <1>2 DEF ResultIs

LEMMA PrepareKeeps ==
    ASSUME IInv, NEW n \in Junk, Prepare(n)
    PROVE  IInv'
<1> DEFINE none == <<>>
           j == [i \in 1 .. n |-> Byte("junk", i)]
           m == WithString(none, j)
<1>1. none \in Seq(Cells) /\ Len(none) = 0
    BY EmptySeq
<1>2. /\ pc \in {"user", "running"} /\ Builder(frames) = none /\ Store(frames, m, pc)
      /\ call' = call /\ result' = result /\ moved' = moved /\ calls' = calls
    BY DEF Prepare
<1>3. Chain(frames) /\ Len(frames) \in Nat \ {0}
    BY FrameFacts DEF IInv
<1>4. j \in Seq(Cells)
    <2>1. n \in Nat
        BY CallsAssumption
    <2>2. j \in [1 .. n -> Cells]
        BY <2>1, CellsAre
    <2> QED
        BY <2>1, <2>2, SeqDef
<1> HIDE DEF none, j
<1>5. m \in Seq(Cells)
    BY <1>1, <1>4, StringMade
<1> HIDE DEF m
<1>6. CASE Len(m) <= Capacity
    <2>1. pc' = pc /\ frames' = Built(frames, m)
        BY <1>2, <1>6 DEF Store
    <2>2. Chain(frames') /\ SameCode(frames, frames') /\ Owner(frames') = Owner(frames)
        BY <1>3, <1>5, <1>6, <2>1, BuiltFacts
    <2>3. Len(frames') = Len(frames)
        BY <2>2 DEF SameCode
    <2>4. Relayed(frames', Len(frames'), call'.proc, call'.arg)
        <3>1. Relayed(frames, Len(frames), call.proc, call.arg)
            BY <1>2 DEF IInv
        <3> QED
            BY <1>2, <1>3, <2>2, <2>3, <3>1, RelayedSame
    <2>5. Returned' => Returned /\ pc = "user"
        BY <1>2, <2>1 DEF Returned
    <2>6. Len(frames') > 1 \/ Returned' => Called'
        <3>1. Len(frames) > 1 \/ Returned => Called
            BY DEF IInv
        <3> QED
            BY <1>2, <2>3, <2>5, <3>1 DEF Called
    <2>7. Returned' => ResultIs(frames', Owner(frames'), result', call'.proc, call'.arg, moved')
        <3> SUFFICES ASSUME Returned'
                     PROVE  ResultIs(frames', Owner(frames), result, call.proc, call.arg, moved)
            BY <1>2, <2>2
        <3>1. Returned /\ pc = "user" /\ Len(frames) = 1
            BY <2>5 DEF IInv
        <3>2. Owner(frames) = 1 /\ Builder(frames) = frames[1].response
            BY <1>3, <3>1, OwnerFacts
        <3>3. Len(frames[1].response) = 0
            BY <1>1, <1>2, <3>2
        <3>4. ResultIs(frames, 1, result, call.proc, call.arg, moved) /\ call.arg \in Nat
            BY <3>1, <3>2, CallsAssumption DEF IInv, Called
        <3> QED
            BY <3>2, <3>3, <3>4, ResultElsewhere
    <2> QED
        BY <1>2, <2>1, <2>2, <2>3, <2>4, <2>6, <2>7 DEF IInv
<1>7. CASE ~(Len(m) <= Capacity)
    <2>1. pc' = "overflow" /\ frames' = frames
        BY <1>2, <1>7 DEF Store
    <2>2. moved' \subseteq {"behind", "shifted", "torn"} /\ calls' \in 0 .. MaxCalls
        BY <1>2 DEF IInv
    <2> QED
        BY <1>2, <2>1, <2>2, OverflowKeeps
<1> QED
    BY <1>6, <1>7

LEMMA RenewKeeps ==
    ASSUME IInv, Renew
    PROVE  IInv'
<1> DEFINE none == <<>>
<1>1. none \in Seq(Cells) /\ Len(none) <= Capacity
    BY EmptySeq, CallsAssumption
<1>2. /\ pc = "user" /\ frames' = Built(frames, none) /\ pc' = pc
      /\ call' = call /\ result' = Nothing /\ moved' = moved /\ calls' = calls
    BY DEF Renew
<1> HIDE DEF none
<1>3. Chain(frames) /\ Len(frames) = 1
    BY <1>2 DEF IInv
<1>4. Chain(frames') /\ SameCode(frames, frames')
    BY <1>1, <1>2, <1>3, BuiltFacts
<1>5. Len(frames') = 1
    BY <1>3, <1>4 DEF SameCode
<1>6. Relayed(frames', Len(frames'), call'.proc, call'.arg)
    BY <1>5 DEF Relayed
<1>7. ~Returned'
    BY <1>2 DEF Returned
<1> QED
    BY <1>2, <1>4, <1>5, <1>6, <1>7 DEF IInv

\* The server calls the implementation of what was called.
LEMMA ServeKeeps ==
    ASSUME IInv, Serve
    PROVE  IInv'
<1> DEFINE l == Len(frames)
           m == frames[l].request
           s == PointedAt(m, Held(m))
           f == call.proc
           a == call.arg
           d == Data(a, 1, 1)
           h == [frames[l] EXCEPT !.proc = f, !.arg = a]
<1>1. /\ pc = "sent" /\ pc' = "running"
      /\ frames' = [frames EXCEPT ![l].proc = m[Root(m) + 1][2], ![l].arg = s[1][2][1]]
      /\ call' = call /\ result' = result /\ moved' = moved /\ calls' = calls
    BY DEF Serve, Top
<1>2. /\ Chain(frames) /\ l \in Nat \ {0} /\ l > 1 /\ frames[l] \in Frames
      /\ frames[l].via = "stub" /\ Called /\ Relayed(frames, l - 1, f, a)
      /\ Len(frames[l].response) <= Capacity
    BY <1>1, FrameFacts DEF IInv
<1>3. f \in Procs /\ a \in Nat
    BY <1>2, CallsAssumption DEF Called
<1>4. Requested(m, f, a)
    <2>1. l \in 2 .. Len(frames)
        BY <1>2
    <2> QED
        BY <1>2, <2>1 DEF Relayed
<1>5. d \in Seq(Cells) /\ d[1][2][1] = a
    <2>1. 1 \in 1 .. 1 * 1
        OBVIOUS
    <2>2. d[1] = <<"data", <<a, 1>>>>
        BY <2>1 DEF Data, Byte
    <2>3. <<"data", <<a, 1>>>>[2] = <<a, 1>> /\ <<a, 1>>[1] = a
        OBVIOUS
    <2> QED
        BY <1>3, <2>2, <2>3, DataOf
<1>6. m[Root(m) + 1][2] = f /\ s = d
    <2> HIDE DEF m, d
    <2>1. Target(m, Held(m)) \in Int /\ UnionIs(m, f, Target(m, Held(m)))
        BY <1>4 DEF Requested, d
    <2>2. StringIs(m, Target(m, Held(m)), d)
        BY <1>4 DEF Requested, d
    <2>3. m \in Seq(Cells)
        BY <1>2, FrameFacts DEF m
    <2> QED
        BY <1>5, <2>1, <2>2, <2>3, UnionRead
<1>7. frames' = [frames EXCEPT ![l] = h]
    <2> HIDE DEF m, s, d, l, f, a
    <2>1. frames' = [frames EXCEPT ![l].proc = f, ![l].arg = a]
        BY <1>1, <1>5, <1>6 DEF l, m, s, f, a
    <2> QED
        BY <1>2, <2>1 DEF l, Chain
<1>8. /\ h \in Frames /\ h.via = frames[l].via /\ h.response = frames[l].response
      /\ h.proc = f /\ h.arg = a /\ h.request = m
    BY <1>2, <1>3 DEF Frames
<1> HIDE DEF h
<1>9. Chain(frames') /\ Replaced(frames, l, h, frames')
    <2>1. l \in 1 .. Len(frames) /\ Len(h.response) <= Capacity
        BY <1>2, <1>8
    <2> QED
        BY <1>2, <1>7, <1>8, <2>1, ReplacedFacts
<1>10. Len(frames') = l
    BY <1>9 DEF Replaced
<1>11. Relayed(frames', Len(frames'), f, a)
    <2>1. ASSUME NEW i \in 2 .. Len(frames')
          PROVE  /\ i <= Len(frames') => frames'[i].proc = f /\ frames'[i].arg = a
                 /\ frames'[i].via = "stub" => Requested(frames'[i].request, f, a)
        <3>1. CASE i = l
            BY <1>4, <1>8, <1>9, <3>1 DEF Replaced
        <3>2. CASE i # l
            <4>1. i \in 2 .. Len(frames) /\ i \in 1 .. Len(frames) /\ i <= l - 1
                BY <1>2, <1>10, <3>2
            <4>2. frames'[i] = frames[i]
                BY <1>9, <3>2, <4>1 DEF Replaced
            <4> QED
                BY <1>2, <4>1, <4>2 DEF Relayed
        <3> QED
            BY <3>1, <3>2
    <2> QED
        BY <2>1 DEF Relayed
<1>12. ~Returned'
    BY <1>1 DEF Returned
<1> QED
    BY <1>1, <1>2, <1>9, <1>10, <1>11, <1>12 DEF IInv, Called

\* What a frame on top knows.
LEMMA TopFacts ==
    ASSUME IInv, pc \in {"running", "returning", "responded"}
    PROVE  /\ Chain(frames) /\ Len(frames) \in Nat /\ Len(frames) > 1
           /\ frames[Len(frames)].proc = call.proc /\ frames[Len(frames)].arg = call.arg
           /\ Called /\ call.proc \in Procs /\ call.arg \in Nat
           /\ Relayed(frames, Len(frames), call.proc, call.arg)
<1>1. Chain(frames) /\ Len(frames) > 1
    BY DEF IInv
<1>2. Len(frames) \in Nat
    BY <1>1, FrameFacts
<1>3. Called /\ call.proc \in Procs /\ call.arg \in Nat
    BY <1>1, CallsAssumption DEF IInv, Called
<1>4. Relayed(frames, Len(frames), call.proc, call.arg)
    BY <1>1 DEF IInv
<1>5. Len(frames) \in 2 .. Len(frames) /\ Len(frames) <= Len(frames)
    BY <1>1, <1>2
<1> QED
    BY <1>1, <1>2, <1>3, <1>4, <1>5 DEF Relayed

\* A step that returns to a frame that is still there.
LEMMA ReturnKeeps ==
    ASSUME IInv, Called, Chain(frames'),
           Relayed(frames', Len(frames'), call.proc, call.arg),
           call' = call, calls' = calls, moved' \subseteq {"behind", "shifted", "torn"},
           (pc' = "user" /\ Len(frames') = 1) \/ (pc' = "returning" /\ Len(frames') > 1),
           ResultIs(frames', Owner(frames'), result', call.proc, call.arg, moved')
    PROVE  IInv'
<1>1. pc' \in {"user", "returning"} /\ (pc' = "user" => Len(frames') = 1)
      /\ (pc' = "returning" => Len(frames') > 1)
    OBVIOUS
<1>2. Called' /\ calls' \in 0 .. MaxCalls
    BY DEF Called, IInv
<1>3. ResultIs(frames', Owner(frames'), result', call'.proc, call'.arg, moved')
    OBVIOUS
<1>4. Relayed(frames', Len(frames'), call'.proc, call'.arg)
    OBVIOUS
<1> QED
    BY <1>1, <1>2, <1>3, <1>4 DEF IInv

\* A result depends on the frame that has it.
LEMMA ResultSame ==
    ASSUME NEW fs, NEW gs, NEW o, gs[o].request = fs[o].request,
           gs[o].response = fs[o].response,
           NEW r, NEW f, NEW a, NEW mv, ResultIs(fs, o, r, f, a, mv)
    PROVE  ResultIs(gs, o, r, f, a, mv)
BY DEF ResultIs

LEMMA ImplementKeeps ==
    ASSUME IInv, Implement
    PROVE  IInv'
<1> DEFINE l == Len(frames)
           f == call.proc
           a == call.arg
           m == Builder(frames)
           o == Owner(frames)
           t == Answered(m, f, a)
           p == Place(m, f)
<1>1. pc = "running" /\ call' = call /\ moved' = moved /\ calls' = calls
    BY DEF Implement
<1>2. /\ Chain(frames) /\ l \in Nat /\ l > 1 /\ Called /\ f \in Procs /\ a \in Nat
      /\ frames[l].proc = f /\ frames[l].arg = a /\ Relayed(frames, l, f, a)
    BY <1>1, TopFacts
<1>3. /\ f = "value" => result' = Value(Data(a, 1, 1)) /\ pc' = "returning" /\ frames' = frames
      /\ f = "view" => result' = Argument /\ pc' = "returning" /\ frames' = frames
      /\ f \in References => result' = Reference(o, p) /\ Store(frames, t, "returning")
    <2> HIDE DEF t, p
    <2>1. ~("value" \in References) /\ ~("view" \in References)
        BY DEF References
    <2> QED
        BY <1>2, <2>1 DEF Implement, Top, t, p
<1>4. o \in 1 .. l /\ frames[o].via # "direct" /\ m \in Seq(Cells)
    BY <1>2, OwnerFacts
<1>5. moved' \subseteq {"behind", "shifted", "torn"} /\ calls' \in 0 .. MaxCalls
    BY <1>1 DEF IInv
<1>6. CASE f = "value"
    <2>1. ResultIs(frames', o, result', f, a, moved')
        BY <1>3, <1>6 DEF ResultIs
    <2> QED
        BY <1>1, <1>2, <1>3, <1>5, <1>6, <2>1, ReturnKeeps
<1>7. CASE f = "view"
    <2>1. CASE o = 1
        <3>1. result' = Value(Data(a, 1, 1))
            BY <1>3, <1>7, <2>1 DEF Argument
        <3>2. ResultIs(frames', o, result', f, a, moved')
            BY <1>7, <3>1 DEF ResultIs
        <3> QED
            BY <1>1, <1>2, <1>3, <1>5, <1>7, <3>2, ReturnKeeps
    <2>2. CASE o # 1
        <3> DEFINE q == frames[o].request
                   place == Target(q, Held(q))
        <3>1. result' = View("request", o, place + 2, 1)
            BY <1>3, <1>7, <2>2 DEF Argument
        <3>2. o \in 2 .. l /\ frames[o].via = "stub"
            BY <1>2, <1>4, <2>2, FrameFacts
        <3>3. Requested(q, f, a)
            BY <1>2, <3>2 DEF Relayed
        <3>4. BytesAt(q, place + 2, Data(a, 1, 1))
            BY <3>3 DEF Requested, StringIs
        <3> HIDE DEF place
        <3>5. result'.pos = place + 2
            BY <3>1 DEF View
        <3>6. ResultIs(frames, o, result', f, a, moved')
            BY <1>7, <2>2, <3>1, <3>4, <3>5 DEF ResultIs
        <3> QED
            BY <1>1, <1>2, <1>3, <1>5, <1>7, <3>6, ReturnKeeps
    <2> QED
        BY <2>1, <2>2
<1>8. CASE f \in References
    <2>1. t \in Seq(Cells) /\ p \in Nat /\ ObjectIs(t, p, f, a)
        BY <1>2, <1>4, <1>8, AnswerMade
    <2> HIDE DEF t, p
    <2>2. CASE Len(t) <= Capacity
        <3>1. pc' = "returning" /\ frames' = Built(frames, t)
            BY <1>3, <1>8, <2>2 DEF Store
        <3>2. /\ Chain(frames') /\ SameCode(frames, frames') /\ Owner(frames') = o
              /\ frames'[o].response = t
            BY <1>2, <2>1, <2>2, <3>1, BuiltFacts
        <3>3. Len(frames') = l
            BY <3>2 DEF SameCode
        <3>4. Relayed(frames', Len(frames'), f, a)
            BY <1>2, <3>2, <3>3, RelayedSame
        <3>5. result' = Reference(o, p) /\ result'.pos = p
            BY <1>3, <1>8 DEF Reference
        <3>6. ResultIs(frames', o, result', f, a, moved')
            BY <1>8, <2>1, <3>2, <3>5 DEF ResultIs
        <3> QED
            BY <1>1, <1>2, <1>5, <3>1, <3>2, <3>3, <3>4, <3>6, ReturnKeeps
    <2>3. CASE ~(Len(t) <= Capacity)
        <3>1. pc' = "overflow" /\ frames' = frames
            BY <1>3, <1>8, <2>3 DEF Store
        <3> QED
            BY <1>1, <1>5, <3>1, OverflowKeeps
    <2> QED
        BY <2>2, <2>3
<1> QED
    BY <1>2, <1>6, <1>7, <1>8, CallsAssumption DEF Returns

\* What is said to the one who gets a result.
LEMMA SaysSeen ==
    ASSUME NEW fs, Chain(fs), NEW o \in 1 .. Len(fs), NEW r, NEW f, NEW a \in Nat, NEW mv,
           ResultIs(fs, o, r, f, a, mv), f \in References => mv = {}
    PROVE  Says(fs, r, f) = Seen(f, a)
<1> DEFINE d == Data(a, 1, 1)
<1>1. d \in Seq(Cells) /\ Len(d) = 1
    BY DataOf
<1>2. fs[o].request \in Seq(Cells) /\ fs[o].response \in Seq(Cells) /\ o <= Len(fs)
      /\ ~(o > Len(fs)) /\ o \in Int
    BY FrameFacts
<1>3. f \in {"value", "view"} => Seen(f, a) = d
    BY DEF Seen
<1> HIDE DEF d
<1>4. CASE f = "value" /\ r = Value(d)
    BY <1>3, <1>4 DEF Says, Value
<1>5. CASE f = "view" /\ r = Value(d)
    BY <1>3, <1>5 DEF Says, Value
<1>6. CASE f = "view" /\ r = View("request", o, r.pos, 1) /\ BytesAt(fs[o].request, r.pos, d)
    <2>1. Slice(fs[o].request, r.pos, 1) = d
        BY <1>1, <1>2, <1>6, BytesRead
    <2>2. r.at = "request" /\ r.frame = o /\ r.len = 1
        BY <1>6 DEF View
    <2> QED
        BY <1>2, <1>3, <1>6, <2>1, <2>2 DEF Says
<1>7. CASE f = "view" /\ r = View("response", o, r.pos, 1) /\ BytesAt(fs[o].response, r.pos, d)
    <2>1. Slice(fs[o].response, r.pos, 1) = d
        BY <1>1, <1>2, <1>7, BytesRead
    <2>2. r.at = "response" /\ r.frame = o /\ r.len = 1
        BY <1>7 DEF View
    <2> QED
        BY <1>2, <1>3, <1>7, <2>1, <2>2 DEF Says
<1>8. CASE f \in References /\ r = Reference(o, r.pos) /\ r.pos \in Int
           /\ (mv = {} => ObjectIs(fs[o].response, r.pos, f, a))
    <2>1. Read(fs[o].response, r.pos, f) = Seen(f, a)
        BY <1>2, <1>8, ObjectRead
    <2>2. r.at = "object" /\ r.frame = o
        BY <1>8 DEF Reference
    <2> QED
        BY <1>2, <2>1, <2>2 DEF Says
<1> QED
    BY <1>4, <1>5, <1>6, <1>7, <1>8 DEF ResultIs, d

LEMMA ResponseMade ==
    ASSUME NEW fs, Chain(fs), NEW o \in 1 .. Len(fs), NEW r, NEW f \in Procs, NEW a \in Nat,
           NEW mv, ResultIs(fs, o, r, f, a, mv),
           NEW t, t = Response(fs[o].response, f, r, Says(fs, r, f))
    PROVE  t \in Seq(Cells) /\ AnswerIs(t, f, a, mv)
<1> DEFINE d == Data(a, 1, 1)
           m == fs[o].response
           said == Says(fs, r, f)
<1>1. d \in Seq(Cells) /\ Len(d) = 1
    BY DataOf
<1>2. m \in Seq(Cells)
    BY FrameFacts
<1>3. f \in {"value", "view"} => said = d
    <2>1. ~("value" \in References) /\ ~("view" \in References)
        BY DEF References
    <2>2. f \in {"value", "view"} => said = Seen(f, a)
        BY <2>1, SaysSeen
    <2> QED
        BY <2>2 DEF Seen
<1>4. /\ f = "value" => t = WithUnion(m, f, said \o <<Pad>>)
      /\ f = "view" => t = PtrUnion(WithPtr(WithString(m, said), End(m)), f,
                                    End(WithString(m, said)))
      /\ f \in References => t = PtrUnion(WithPtr(m, r.pos), f, End(m))
    <2> HIDE DEF m, said
    <2>1. t = Response(m, f, r, said)
        BY DEF m, said
    <2>2. ~("value" \in References) /\ ~("view" \in References)
        BY DEF References
    <2> QED
        BY <2>1, <2>2 DEF Response
<1> HIDE DEF m, said, d
<1>5. CASE f = "value"
    <2>1. t = WithUnion(m, f, d \o <<Pad>>)
        BY <1>3, <1>4, <1>5
    <2>2. \A x : x = WithUnion(m, f, d \o <<Pad>>) =>
                    x \in Seq(Cells) /\ Len(x) >= UnionSize /\ x[Root(x) + 3] = d[1]
        BY <1>1, <1>2, ValueMade
    <2> QED
        BY <1>5, <2>1, <2>2 DEF AnswerIs, d
<1>6. CASE f = "view"
    <2> DEFINE s == WithString(m, d)
    <2>1. t = PtrUnion(WithPtr(s, End(m)), f, End(s))
        BY <1>3, <1>4, <1>6
    <2>2. \A x : x = PtrUnion(WithPtr(s, End(m)), f, End(s)) =>
                    x \in Seq(Cells) /\ UnionIs(x, f, End(m)) /\ StringIs(x, End(m), d)
        BY <1>1, <1>2, ViewMade
    <2> HIDE DEF s
    <2>3. t \in Seq(Cells) /\ UnionIs(t, f, End(m)) /\ StringIs(t, End(m), d) /\ End(m) \in Int
        BY <1>2, <2>1, <2>2, EndFacts
    <2>4. Target(t, Held(t)) = End(m)
        BY <2>3, UnionRead
    <2> QED
        BY <1>6, <2>3, <2>4 DEF AnswerIs, d
<1>7. CASE f \in References
    <2> DEFINE p == r.pos
    <2>1. p \in Int /\ (mv = {} => ObjectIs(m, p, f, a))
        <3>1. f # "value" /\ f # "view"
            BY <1>7 DEF References
        <3> QED
            BY <3>1 DEF ResultIs, m
    <2>2. t = PtrUnion(WithPtr(m, p), f, End(m))
        BY <1>4, <1>7
    <2> HIDE DEF p
    <2>3. \A x : x = PtrUnion(WithPtr(m, p), f, End(m)) =>
                    x \in Seq(Cells) /\ Grown(m, x) /\ UnionIs(x, f, p)
        BY <1>2, <2>1, ReferenceMade
    <2>4. t \in Seq(Cells) /\ Grown(m, t) /\ UnionIs(t, f, p)
        BY <2>2, <2>3
    <2>5. Target(t, Held(t)) = p
        BY <2>1, <2>4, UnionRead
    <2>6. mv = {} => ObjectIs(t, p, f, a)
        BY <1>2, <1>7, <2>1, <2>4, ObjectKept
    <2> QED
        BY <1>7, <2>1, <2>4, <2>5, <2>6 DEF AnswerIs
<1> QED
    BY <1>5, <1>6, <1>7, CallsAssumption DEF Returns

\* The builder that a stub's server answers in is its own.
LEMMA StubOwns ==
    ASSUME NEW fs, Chain(fs), fs[Len(fs)].via = "stub"
    PROVE  Owner(fs) = Len(fs)
<1>1. Len(fs) \in Nat \ {0}
    BY FrameFacts
<1>2. OwnedBy(fs, Len(fs), Len(fs))
    BY <1>1 DEF OwnedBy
<1> QED
    BY <1>2, OwnerIs

LEMMA RespondKeeps ==
    ASSUME IInv, Respond
    PROVE  IInv'
<1> DEFINE l == Len(frames)
           f == call.proc
           a == call.arg
           m == frames[l].response
           t == Response(m, f, result, Says(frames, result, f))
<1>1. /\ pc = "returning" /\ frames[l].via = "stub"
      /\ call' = call /\ result' = result /\ moved' = moved /\ calls' = calls
    BY DEF Respond, Top
<1>2. /\ Chain(frames) /\ l \in Nat /\ l > 1 /\ Called /\ f \in Procs /\ a \in Nat
      /\ frames[l].proc = f /\ Relayed(frames, l, f, a)
    BY <1>1, TopFacts
<1>3. Owner(frames) = l /\ Builder(frames) = m
    BY <1>1, <1>2, StubOwns, OwnerFacts
<1>4. Store(frames, t, "responded")
    <2>1. Store(frames, Response(Builder(frames), frames[l].proc, result,
                                 Says(frames, result, frames[l].proc)), "responded")
        BY DEF Respond, Top
    <2> QED
        BY <1>2, <1>3, <2>1
<1>5. t \in Seq(Cells) /\ AnswerIs(t, f, a, moved)
    <2>1. ResultIs(frames, l, result, f, a, moved)
        BY <1>1, <1>3 DEF IInv
    <2>2. l \in 1 .. Len(frames)
        BY <1>2
    <2> QED
        BY <1>2, <2>1, <2>2, ResponseMade
<1> HIDE DEF t
<1>6. moved' \subseteq {"behind", "shifted", "torn"} /\ calls' \in 0 .. MaxCalls
    BY <1>1 DEF IInv
<1>7. CASE Len(t) <= Capacity
    <2>1. pc' = "responded" /\ frames' = Built(frames, t)
        BY <1>4, <1>7 DEF Store
    <2>2. Chain(frames') /\ SameCode(frames, frames') /\ frames'[l].response = t
        BY <1>2, <1>3, <1>5, <1>7, <2>1, BuiltFacts
    <2>3. Len(frames') = l /\ frames'[l].via = "stub"
        <3>1. l \in 1 .. Len(frames)
            BY <1>2
        <3> QED
            BY <1>1, <2>2, <3>1 DEF SameCode
    <2>4. Relayed(frames', Len(frames'), f, a)
        BY <1>2, <2>2, <2>3, RelayedSame
    <2>5. AnswerIs(frames'[Len(frames')].response, f, a, moved')
        BY <1>1, <1>5, <2>2, <2>3
    <2>6. ~Returned'
        BY <2>1 DEF Returned
    <2> QED
        BY <1>1, <1>2, <1>6, <2>1, <2>2, <2>3, <2>4, <2>5, <2>6 DEF IInv, Called
<1>8. CASE ~(Len(t) <= Capacity)
    <2>1. pc' = "overflow" /\ frames' = frames
        BY <1>4, <1>8 DEF Store
    <2> QED
        BY <1>1, <1>6, <2>1, OverflowKeeps
<1> QED
    BY <1>7, <1>8

LEMMA ReturnDirectKeeps ==
    ASSUME IInv, ReturnDirect
    PROVE  IInv'
<1> DEFINE l == Len(frames)
           f == call.proc
           a == call.arg
           o == Owner(frames)
<1>1. /\ pc = "returning" /\ frames[l].via = "direct" /\ frames' = Pop(frames)
      /\ pc' = After(frames')
      /\ call' = call /\ result' = result /\ moved' = moved /\ calls' = calls
    BY DEF ReturnDirect, Top
<1>2. /\ Chain(frames) /\ l \in Nat /\ l > 1 /\ Called
      /\ Relayed(frames, l, f, a)
    BY <1>1, TopFacts
<1>3. /\ Chain(frames') /\ Len(frames') = l - 1
      /\ \A i \in 1 .. Len(frames') : frames'[i] = frames[i]
    BY <1>1, <1>2, PopFacts
<1>4. Relayed(frames', Len(frames'), f, a)
    BY <1>1, <1>2, RelayedPopped
<1>5. OwnedBy(frames, o, l) /\ o \in 1 .. l
    BY <1>2, OwnerFacts
<1>6. o \in 1 .. l - 1
    BY <1>1, <1>2, <1>5 DEF OwnedBy
<1>7. OwnedBy(frames', o, l - 1)
    <2>1. \A j \in o + 1 .. l - 1 : j \in 1 .. l - 1 /\ j \in o + 1 .. l
        BY <1>2, <1>6
    <2> QED
        BY <1>3, <1>5, <1>6, <2>1 DEF OwnedBy
<1>8. Owner(frames') = o
    BY <1>3, <1>7, OwnerIs
<1>9. ResultIs(frames', o, result', f, a, moved')
    <2>1. ResultIs(frames, o, result, f, a, moved)
        BY <1>1 DEF IInv
    <2>2. frames'[o] = frames[o]
        BY <1>3, <1>6
    <2> QED
        BY <1>1, <2>1, <2>2, ResultSame
<1>10. (pc' = "user" /\ Len(frames') = 1) \/ (pc' = "returning" /\ Len(frames') > 1)
    <2>1. Len(frames') = 1 \/ Len(frames') > 1
        BY <1>2, <1>3
    <2> QED
        BY <1>1, <2>1 DEF After
<1>11. moved' \subseteq {"behind", "shifted", "torn"}
    BY <1>1 DEF IInv
<1> QED
    BY <1>1, <1>2, <1>3, <1>4, <1>8, <1>9, <1>10, <1>11, ReturnKeeps

\* An extent that is found is one of the buffer.
LEMMA ExtentIs ==
    ASSUME NEW m \in Seq(Cells), NEW p \in Int, NEW f \in References, Found(m, p, f),
           NEW e, e = Extent(m, p, f)
    PROVE  /\ e.begin \in Nat /\ e.end \in Nat /\ e.begin <= e.end /\ e.end <= Len(m)
<1> DEFINE c == m[p + 1]
<1>1. /\ p >= 0 /\ p + 2 <= Len(m) /\ c[1] = (IF f = "struct" THEN "ptr" ELSE "len")
      /\ 0 <= e.begin /\ e.begin <= e.end /\ e.end <= Len(m)
    BY DEF Found, IsWord
<1>2. Len(m) \in Nat /\ p \in Nat
    BY <1>1, LenProperties
<1>3. c \in Cells
    <2>1. p + 1 \in 1 .. Len(m)
        BY <1>1, <1>2
    <2> QED
        BY <2>1, ElementOfSeq
<1> HIDE DEF c
<1>4. VectorData(p) \in Nat
    <2>1. p + 2 \in Nat /\ 4 \in Aligns
        BY <1>2 DEF Aligns
    <2> QED
        BY <2>1, AlignUpFacts DEF VectorData
<1>5. e.begin \in Int /\ e.end \in Int
    <2>1. CASE f = "string"
        <3>1. c[2] \in Nat
            BY <1>1, <1>3, <2>1, WordTypes
        <3>2. e.begin = p /\ e.end = p + 2 + c[2]
            BY <2>1 DEF Extent, c
        <3> QED
            BY <1>2, <3>1, <3>2
    <2>2. CASE f = "vector"
        <3>1. c[2] \in Nat
            BY <1>1, <1>3, <2>2, WordTypes
        <3>2. e.begin = p /\ e.end = VectorData(p) + 4 * c[2]
            BY <2>2 DEF Extent, c
        <3> QED
            BY <1>2, <1>4, <3>1, <3>2
    <2>3. CASE f = "strings"
        <3>1. c[2] \in Nat
            BY <1>1, <1>3, <2>3, WordTypes
        <3>2. e.begin = p /\ e.end = p + 2 + 2 * c[2]
            BY <2>3 DEF Extent, c
        <3> QED
            BY <1>2, <3>1, <3>2
    <2>4. CASE f = "struct"
        <3>1. c[2] \in Int
            BY <1>1, <1>3, <2>4, WordTypes
        <3>2. e.begin = p - c[2] /\ e.end = p + 2
            BY <2>4 DEF Extent, Target, c
        <3> QED
            BY <1>2, <3>1, <3>2
    <2> QED
        BY <2>1, <2>2, <2>3, <2>4 DEF References
<1> QED
    BY <1>1, <1>2, <1>5

\* The answer is stored in the builder of the caller.
LEMMA StoreReturns ==
    ASSUME IInv, pc = "responded", NEW m \in Seq(Cells),
           Store(Pop(frames), m, After(Pop(frames))),
           call' = call, calls' = calls, moved' \subseteq {"behind", "shifted", "torn"},
           \A gs : gs[Owner(Pop(frames))].response = m =>
                ResultIs(gs, Owner(Pop(frames)), result', call.proc, call.arg, moved')
    PROVE  IInv'
<1> DEFINE fs == Pop(frames)
           f == call.proc
           a == call.arg
<1>1. /\ Chain(frames) /\ Len(frames) \in Nat /\ Len(frames) > 1 /\ Called
      /\ Relayed(frames, Len(frames), f, a)
    BY TopFacts
<1>2. Chain(fs) /\ Len(fs) = Len(frames) - 1
    BY <1>1, PopFacts
<1>3. Relayed(fs, Len(fs), f, a)
    BY <1>1, RelayedPopped
<1>4. CASE Len(m) <= Capacity
    <2>1. pc' = After(fs) /\ frames' = Built(fs, m)
        BY <1>4 DEF Store
    <2> HIDE DEF fs
    <2>2. /\ Chain(frames') /\ SameCode(fs, frames') /\ Owner(frames') = Owner(fs)
          /\ frames'[Owner(fs)].response = m
        BY <1>2, <1>4, <2>1, BuiltFacts
    <2>3. Len(frames') = Len(fs) /\ Len(fs) \in Nat
        BY <1>1, <1>2, <2>2 DEF SameCode
    <2>4. Relayed(frames', Len(frames'), f, a)
        BY <1>3, <2>2, <2>3, RelayedSame
    <2>5. (pc' = "user" /\ Len(frames') = 1) \/ (pc' = "returning" /\ Len(frames') > 1)
        <3>1. Len(fs) = 1 \/ Len(fs) > 1
            BY <1>1, <1>2
        <3> QED
            BY <2>1, <2>3, <3>1 DEF After
    <2>6. ResultIs(frames', Owner(frames'), result', f, a, moved')
        BY <2>2 DEF fs
    <2> QED
        BY <1>1, <2>2, <2>4, <2>5, <2>6, ReturnKeeps
<1>5. CASE ~(Len(m) <= Capacity)
    <2>1. pc' = "overflow" /\ frames' = frames
        BY <1>5 DEF Store
    <2>2. calls' \in 0 .. MaxCalls
        BY DEF IInv
    <2> QED
        BY <2>1, <2>2, OverflowKeeps
<1> QED
    BY <1>4, <1>5

LEMMA ReturnStubKeeps ==
    ASSUME IInv, ReturnStub
    PROVE  IInv'
<1> DEFINE l == Len(frames)
           f == call.proc
           a == call.arg
           m == frames[l].response
           fs == Pop(frames)
           o == Owner(fs)
           held == Builder(fs)
           obj == Target(m, Held(m))
           copied == PointedAt(m, Held(m))
           e == Extent(m, obj, f)
           d == Data(a, 1, 1)
<1>1. pc = "responded" /\ call' = call /\ calls' = calls
    BY DEF ReturnStub
<1>2. /\ Chain(frames) /\ l \in Nat /\ l > 1 /\ Called /\ f \in Procs /\ a \in Nat
      /\ frames[l].proc = f /\ Relayed(frames, l, f, a)
    BY <1>1, TopFacts
<1>3. AnswerIs(m, f, a, moved) /\ moved \subseteq {"behind", "shifted", "torn"}
    BY <1>1 DEF IInv
<1>4. m \in Seq(Cells)
    BY <1>2, FrameFacts
<1>5. /\ Chain(fs) /\ Len(fs) = l - 1 /\ held \in Seq(Cells)
      /\ held = fs[o].response
    BY <1>2, PopFacts, OwnerFacts
<1>6. d \in Seq(Cells) /\ Len(d) = 1
    BY <1>2, DataOf
<1>7. \/ /\ f = "value" /\ result' = Value(<<m[Root(m) + 3]>>)
         /\ pc' = After(fs) /\ frames' = fs /\ moved' = moved
      \/ /\ f = "view"
         /\ result' = View("response", o, End(held) + 2, Len(copied))
         /\ Store(fs, WithString(held, copied), After(fs)) /\ moved' = moved
      \/ /\ f \in References /\ Found(m, obj, f)
         /\ result' = Reference(o, PositionOf(obj, e))
         /\ Store(fs, Relocated(held, e, m), After(fs))
         /\ moved' = moved \union Displaced(f, held, e)
      \/ /\ f \in References /\ ~Found(m, obj, f) /\ result' = Reference(o, 0)
         /\ \/ pc' = "overflow" /\ frames' = frames
            \/ Store(fs, held \o Garbage, After(fs))
         /\ moved' = moved
    <2> HIDE DEF f
    <2> QED
        BY <1>2 DEF ReturnStub, Top
<1>8. /\ f = "value" => m[Root(m) + 3] = d[1]
      /\ f = "view" => UnionIs(m, f, obj) /\ obj \in Int /\ StringIs(m, obj, d)
      /\ f \in References => obj \in Int /\ (moved = {} => ObjectIs(m, obj, f, a))
    <2>1. ~("value" \in References) /\ ~("view" \in References)
        BY DEF References
    <2> QED
        BY <1>3, <2>1 DEF AnswerIs
<1> HIDE DEF m, fs, o, held, obj, copied, e, d, f, a, l
<1>9. CASE /\ f = "value" /\ result' = Value(<<m[Root(m) + 3]>>)
           /\ pc' = After(fs) /\ frames' = fs /\ moved' = moved
    <2>1. <<d[1]>> = d
        <3>1. \A x \in Cells : /\ <<x>> \in Seq(Cells) /\ Len(<<x>>) = 1
                               /\ \A i \in 1 .. 1 : <<x>>[i] = x
            OBVIOUS
        <3>2. d[1] \in Cells
            BY <1>6, ElementOfSeq
        <3>3. \A i \in 1 .. Len(d) : <<d[1]>>[i] = d[i]
            BY <1>6, <3>1, <3>2
        <3> QED
            BY <1>6, <3>1, <3>2, <3>3, SeqEqual
    <2>2. ResultIs(frames', Owner(frames'), result', f, a, moved')
        BY <1>8, <1>9, <2>1 DEF ResultIs, d
    <2>3. Relayed(fs, Len(fs), f, a)
        BY <1>2, RelayedPopped DEF fs, l
    <2>4. (pc' = "user" /\ Len(frames') = 1) \/ (pc' = "returning" /\ Len(frames') > 1)
        <3>1. Len(fs) = 1 \/ Len(fs) > 1
            BY <1>2, <1>5
        <3> QED
            BY <1>9, <3>1 DEF After
    <2> QED
        BY <1>1, <1>2, <1>3, <1>5, <1>9, <2>2, <2>3, <2>4, ReturnKeeps DEF f, a
<1>10. CASE /\ f = "view" /\ result' = View("response", o, End(held) + 2, Len(copied))
            /\ Store(fs, WithString(held, copied), After(fs)) /\ moved' = moved
    <2> DEFINE t == WithString(held, copied)
    <2>1. copied = d
        BY <1>4, <1>6, <1>8, <1>10, UnionRead DEF copied
    <2>2. t \in Seq(Cells) /\ StringIs(t, End(held), d)
        BY <1>5, <1>6, <2>1, StringMade
    <2>3. BytesAt(t, End(held) + 2, d)
        BY <2>2 DEF StringIs
    <2> HIDE DEF t
    <2>4. result' = View("response", o, result'.pos, 1) /\ result'.pos = End(held) + 2
        BY <1>6, <1>10, <2>1 DEF View
    <2>5. \A gs : gs[o].response = t => ResultIs(gs, o, result', f, a, moved')
        BY <1>10, <2>3, <2>4 DEF ResultIs, d
    <2>6. Store(fs, t, After(fs))
        BY <1>10 DEF t
    <2> QED
        BY <1>1, <1>3, <1>10, <2>2, <2>5, <2>6, StoreReturns DEF fs, o, f, a
<1>11. CASE /\ f \in References /\ Found(m, obj, f)
            /\ result' = Reference(o, PositionOf(obj, e))
            /\ Store(fs, Relocated(held, e, m), After(fs))
            /\ moved' = moved \union Displaced(f, held, e)
    <2> DEFINE t == Relocated(held, e, m)
               r == SubSeq(m, e.begin + 1, e.end)
               p == obj - e.begin
    <2>1. obj \in Int
        BY <1>8, <1>11
    <2>2. e.begin \in Nat /\ e.end \in Nat /\ e.begin <= e.end /\ e.end <= Len(m)
        BY <1>4, <1>11, <2>1, ExtentIs DEF e
    <2>3. r \in Seq(Cells)
        BY <1>4, <2>2, CutFacts
    <2>4. t = held \o r
        BY DEF Relocated
    <2>5. result' = Reference(o, result'.pos) /\ result'.pos = p /\ p \in Int
        BY <1>11, <2>1, <2>2 DEF Reference, PositionOf
    <2>6. Store(fs, t, After(fs))
        BY <1>11
    <2>7. moved' = {} => ObjectIs(t, p, f, a)
        <3> SUFFICES ASSUME moved' = {}
                     PROVE  ObjectIs(t, p, f, a)
            OBVIOUS
        <3>1. /\ moved = {} /\ ~("behind" \in Displaced(f, held, e))
              /\ ~("shifted" \in Displaced(f, held, e)) /\ ~("torn" \in Displaced(f, held, e))
            BY <1>11
        <3>2. ~(Len(held) > 0) /\ (f = "vector" => e.begin % 4 = 0) /\ f # "strings"
            BY <3>1 DEF Displaced
        <3>3. ObjectIs(m, obj, f, a)
            BY <1>8, <1>11, <3>1
        <3>4. ObjectIs(r, p, f, a)
            BY <1>2, <1>4, <1>11, <2>1, <3>2, <3>3, Relocates DEF e
        <3>5. held = <<>>
            BY <1>5, <3>2, EmptySeq, LenProperties
        <3>6. t = r
            BY <2>3, <2>4, <3>5, ConcatEmptySeq
        <3> QED
            BY <3>4, <3>6
    <2>8. t \in Seq(Cells)
        <3> HIDE DEF t, r
        <3> QED
            BY <1>5, <2>3, <2>4, JoinFacts
    <2>9. moved' \subseteq {"behind", "shifted", "torn"}
        BY <1>3, <1>11 DEF Displaced
    <2> HIDE DEF t, r, p
    <2>10. \A gs : gs[o].response = t => ResultIs(gs, o, result', f, a, moved')
        BY <1>11, <2>5, <2>7 DEF ResultIs
    <2> QED
        BY <1>1, <2>6, <2>8, <2>9, <2>10, StoreReturns DEF fs, o, f, a
<1>12. CASE /\ f \in References /\ ~Found(m, obj, f) /\ result' = Reference(o, 0)
            /\ \/ pc' = "overflow" /\ frames' = frames
               \/ Store(fs, held \o Garbage, After(fs))
            /\ moved' = moved
    <2>1. moved # {}
        <3> SUFFICES ASSUME moved = {}
                     PROVE  FALSE
            OBVIOUS
        <3>1. ObjectIs(m, obj, f, a) /\ obj \in Int
            BY <1>8, <1>12
        <3> QED
            BY <1>2, <1>4, <1>12, <3>1, ObjectFound
    <2>2. CASE pc' = "overflow" /\ frames' = frames
        <3>1. moved' \subseteq {"behind", "shifted", "torn"} /\ calls' \in 0 .. MaxCalls
            BY <1>1, <1>3, <1>12 DEF IInv
        <3> QED
            BY <1>1, <2>2, <3>1, OverflowKeeps
    <2>3. CASE Store(fs, held \o Garbage, After(fs))
        <3> DEFINE t == held \o Garbage
        <3>1. Garbage \in Seq(Cells)
            <4>1. \A x \in Cells : <<x>> \in Seq(Cells)
                OBVIOUS
            <4> QED
                BY <4>1, CellsAre DEF Garbage
        <3>2. t \in Seq(Cells)
            BY <1>5, <3>1, JoinFacts
        <3>3. Store(fs, t, After(fs))
            BY <2>3
        <3> HIDE DEF t
        <3>4. result' = Reference(o, result'.pos) /\ result'.pos \in Int
            BY <1>12 DEF Reference
        <3>5. \A gs : gs[o].response = t => ResultIs(gs, o, result', f, a, moved')
            BY <1>12, <2>1, <3>4 DEF ResultIs
        <3> QED
            BY <1>1, <1>3, <1>12, <3>2, <3>3, <3>5, StoreReturns DEF fs, o, f, a
    <2> QED
        BY <1>12, <2>2, <2>3
<1> QED
    BY <1>7, <1>9, <1>10, <1>11, <1>12

LEMMA IInvNext == IInv /\ [Next]_vars => IInv'
<1> SUFFICES ASSUME IInv, [Next]_vars
             PROVE  IInv'
    OBVIOUS
<1>1. ASSUME NEW n \in Junk, Prepare(n) PROVE IInv'
    BY <1>1, PrepareKeeps
<1>2. CASE Renew
    BY <1>2, RenewKeeps
<1>3. ASSUME NEW f \in Procs, NEW a \in Args, UserCalls(f, a) PROVE IInv'
    BY <1>3, UserCallsKeeps
<1>4. CASE Relay
    BY <1>4, RelayKeeps
<1>5. CASE Serve
    BY <1>5, ServeKeeps
<1>6. CASE Implement
    BY <1>6, ImplementKeeps
<1>7. CASE Respond
    BY <1>7, RespondKeeps
<1>8. CASE ReturnStub
    BY <1>8, ReturnStubKeeps
<1>9. CASE ReturnDirect
    BY <1>9, ReturnDirectKeeps
<1>10. CASE UNCHANGED vars
    BY <1>10 DEF vars, IInv, Called, Returned
<1> QED
    BY <1>1, <1>2, <1>3, <1>4, <1>5, <1>6, <1>7, <1>8, <1>9, <1>10 DEF Next, Advance

LEMMA IInvAlways == Spec => []IInv
<1>1. Init => IInv
    BY IInvInit
<1>2. IInv /\ [Next]_vars => IInv'
    BY IInvNext
<1> QED
    BY <1>1, <1>2, PTL DEF Spec

\* The frames are a stack with the user's code at its bottom and only there, no deeper
\* than services relay, and nothing was written behind a buffer (allocate, union_caller).
THEOREM CallsTypeOK == Spec => []TypeOK
<1>1. IInv => TypeOK
    <2> SUFFICES ASSUME IInv
                 PROVE  TypeOK
        OBVIOUS
    <2>1. Chain(frames) /\ Len(frames) \in 1 .. Depth
        BY DEF IInv, Chain
    <2>2. \A i \in 1 .. Len(frames) : /\ frames[i].via = "user" <=> i = 1
                                      /\ frames[i].proc \in Procs \union {"none"}
                                      /\ Len(frames[i].response) <= Capacity
        BY <2>1, FrameFacts DEF Frames
    <2> QED
        BY <2>1, <2>2 DEF TypeOK, IInv
<1> QED
    BY <1>1, IInvAlways, PTL

\* Whatever relays a call, through stubs and zero-copy clients in any order, values and
\* views reach the user as the implementation returned them, and so does everything a
\* returned reference refers to, unless a stub displaced it (copy_and_return,
\* find_extent, union_caller).
THEOREM AnswersOfCallsArrive == Spec => []ResultsArrive
<1>1. IInv => ResultsArrive
    <2> SUFFICES ASSUME IInv, Returned, call.proc \in References => moved = {}
                 PROVE  Says(frames, result, call.proc) = Expected
        BY DEF ResultsArrive
    <2>1. Chain(frames) /\ Called
        BY DEF IInv
    <2>2. call.arg \in Nat
        BY <2>1, CallsAssumption DEF Called
    <2>3. Owner(frames) \in 1 .. Len(frames)
        BY <2>1, OwnerFacts
    <2>4. ResultIs(frames, Owner(frames), result, call.proc, call.arg, moved)
        BY DEF IInv
    <2>5. Says(frames, result, call.proc) = Seen(call.proc, call.arg)
        BY <2>1, <2>2, <2>3, <2>4, SaysSeen
    <2>6. Seen(call.proc, call.arg) = Expected
        BY DEF Seen, Expected
    <2> QED
        BY <2>5, <2>6
<1> QED
    BY <1>1, IInvAlways, PTL
================================================================================
