------------------------------- MODULE RunTimes -------------------------------
(***************************************************************************)
(* How the run times of C++, JavaScript and Python lay out what they write *)
(* and what they take the bytes of a message for.                          *)
(***************************************************************************)
EXTENDS BinaryTools

\* t and every type it is made of.
RECURSIVE Parts(_)
Parts(t) ==
    {t} \cup CASE t.kind \in {"vector", "array", "ptr"} -> Parts(t.of)
               [] t.kind \in {"struct", "union"} ->
                     UNION {Parts(t.members[i]) : i \in DOMAIN t.members}
               [] OTHER -> {}

\* Generated JavaScript names the type of a member as it is written, the other
\* languages the type it has on the wire.
Seen(l, t) == IF l = "js" THEN t ELSE WireType(t)

\* layout() of JavaScript's VectorClass has the alignment of the element.
RECURSIVE JsAlign(_)
JsAlign(t) == IF t.kind = "vector" THEN JsAlign(t.of) ELSE AlignOf(t)

\* Where the elements of a vector at p are, after its length: aligned in the
\* message, in the vector, or by how far the vector itself is from alignment.
CppVectorData(t, p) == AlignUp(p + 2, AlignOf(WireType(t)))
JsVectorData(t, p)  == p + AlignUp(2, JsAlign(t))
PyVectorData(t, p)  == 2 + AlignUp(p, SizeOf(WireType(t)))

\* Mutant of VectorData: the elements follow the length.
VectorDataUnaligned(l, t, p) == p + 2

VectorData(l, t, p) ==
    CASE l = "cpp" -> CppVectorData(t, p)
      [] l = "js"  -> JsVectorData(t, p)
      [] l = "py"  -> PyVectorData(t, p)

\* Where a pointer at p points to.
Deref(m, p) == p - Int16At(m, p)

------------------------------------------------------------------------------
\* The bytes from p to p + n that there are: a slice of a memoryview.
Clipped(m, p, n) == SubSeq(m, p + 1, Min({p + n, Len(m)}))

\* n bytes of m at p as each language reads them: Python unpacks those that there are,
\* JavaScript has a view of room bytes.
PyRaw(m, p, n) == Got(Clipped(m, p, n))

JsRaw(m, p, n, room) ==
    IF n > room THEN Fails("RangeError")
    ELSE IF ~Within(m, p, n) THEN Fails("outside") ELSE Got(BytesAt(m, p, n))

Raw(l, m, p, n, room) ==
    CASE l = "py" -> PyRaw(m, p, n)
      [] l = "js" -> JsRaw(m, p, n, room)
      [] OTHER    -> IF Within(m, p, n) THEN Got(BytesAt(m, p, n)) ELSE Fails("outside")

\* A string is as many bytes as its length says.
StringBytes(l, m, p) == Raw(l, m, p + 2, Int16At(m, p), Int16At(m, p))

\* The objects of which what is at p consists: their types, places and how many bytes
\* JavaScript's view of each has.
Object(type, at, room) == [type |-> type, at |-> at, room |-> room]
InPlace(l, type, at) == Object(Seen(l, type), at, SizeOf(Seen(l, type)))

Target(t, m, p) == <<Object(t.of, Deref(m, p), SizeOf(t.of))>>

Elements(l, t, n, p) ==
    [i \in 1 .. n |-> InPlace(l, t.of, p + (i - 1) * SizeOf(Seen(l, t.of)))]

ArrayElements(l, t, p) == Elements(l, t, t.len, p)

Members(l, t, p) ==
    [i \in DOMAIN t.members |-> InPlace(l, t.members[i], p + OffsetOf(t, i))]

\* Vector.at: there are two bytes for each element, whatever its size.
JsElements(t, m, p) ==
    LET data   == JsVectorData(t.of, p)
        Room   == 2 * Int16At(m, p)
        End(i) == Min({i * SizeOf(t.of), Room})
    IN [i \in 1 .. Int16At(m, p) |-> Object(t.of, data + End(i - 1), End(i) - End(i - 1))]

VectorElements(l, t, m, p) ==
    IF l = "js" THEN JsElements(t, m, p)
    ELSE Elements(l, t, Int16At(m, p), VectorData(l, t.of, p))

\* All that an object of type t is made of.
Consists(l, t, m, p) ==
    CASE t.kind = "ptr"    -> Target(t, m, p)
      [] t.kind = "array"  -> ArrayElements(l, t, p)
      [] t.kind = "struct" -> Members(l, t, p)
      [] t.kind = "vector" -> VectorElements(l, t, m, p)

\* The object of type t at byte p of the message m, in a buffer of room bytes.
\* JavaScript's unions have no property that tells which alternative they hold.
RECURSIVE Read(_, _, _, _, _)
Read(l, t, m, p, room) ==
    LET Part(o)        == Read(l, o.type, m, o.at, o.room)
        Alternative    == m[p + 1] + 1
    IN CASE ~Within(m, p, Fixed(t)) -> Fails("outside")
         [] t.kind \in {"number", "enum"} -> Raw(l, m, p, SizeOf(t), room)
         [] t.kind = "bool"   -> Got(m[p + 1] # 0)
         [] t.kind = "string" -> StringBytes(l, m, p)
         [] t.kind = "union"  ->
               IF l = "js" \/ Alternative \notin DOMAIN t.members THEN Fails("alternative")
               ELSE LET r == Part(InPlace(l, t.members[Alternative], p + ValueOffset(t)))
                    IN IF r.ok THEN Got(<<Alternative, r.value>>) ELSE r
         [] t.kind = "vector" /\ l = "js" /\ ~Within(m, JsVectorData(t.of, p), 2 * Int16At(m, p)) ->
               Fails("RangeError")
         [] OTHER ->
               LET parts == Consists(l, t, m, p)
                   got   == AllOf([i \in DOMAIN parts |-> Part(parts[i])])
               IN IF t.kind = "ptr" THEN Part(parts[1]) ELSE got

------------------------------------------------------------------------------
\* bs with the bytes cs from byte p on.
Patch(bs, p, cs) ==
    [k \in DOMAIN bs |-> IF k - p \in DOMAIN cs THEN cs[k - p] ELSE bs[k]]

\* The bytes an object of the wire type t has at p for the value v, where
\* places[o] is the place of the object o that a pointer points to: its offset
\* is from the pointer back to the object.  The padding is what it was.
RECURSIVE Encode(_, _, _, _)
Encode(places, t, v, bs) ==
    LET p == bs.from
        Sub(u, q, w, out) == Encode(places, WireType(u), w, [out EXCEPT !.from = q])
    IN CASE t.kind \in {"number", "enum"} -> [bs EXCEPT !.mem = Patch(@, p, v)]
         [] t.kind = "bool"   -> [bs EXCEPT !.mem = Patch(@, p, <<IF v THEN 1 ELSE 0>>)]
         [] t.kind = "ptr"    -> [bs EXCEPT !.mem = Patch(@, p, Int16Bytes(p - places[v]))]
         [] t.kind = "array"  ->
               FoldLeft(LAMBDA out, i : Sub(t.of, p + (i - 1) * SizeOf(WireType(t.of)), v[i], out),
                        bs, [i \in 1 .. t.len |-> i])
         [] t.kind = "struct" ->
               FoldLeft(LAMBDA out, i : Sub(t.members[i], p + OffsetOf(t, i), v[i], out),
                        bs, [i \in DOMAIN t.members |-> i])
         [] t.kind = "union"  ->
               Sub(t.members[v[1]], p + ValueOffset(t), v[2],
                   [bs EXCEPT !.mem = Patch(@, p, <<v[1] - 1>>)])

\* The memory mem with the value v of type t at p.
Written(mem, places, t, p, v) == Encode(places, t, v, [mem |-> mem, from |-> p]).mem
=============================================================================
