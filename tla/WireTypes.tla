------------------------------- MODULE WireTypes -------------------------------
(***************************************************************************)
(* The types of messages: their categories, wire types and layouts.        *)
(*                                                                         *)
(* A type is a record: its kind, what it is made of, whether its category  *)
(* is reference, and its wire_layout.  Members have no names, they are     *)
(* known by their place.  Numbers stand for the integers and the floats:   *)
(* a value of one is the sequence of its bytes, as is that of an           *)
(* enumeration.  A union and an enumeration know how many alternatives or  *)
(* enumerators their base has.                                             *)
(***************************************************************************)
EXTENDS Bytes, Sequences, FiniteSets, FiniteSetsExt, SequencesExt

Plain(n, a) == [size |-> n, alignment |-> a]

Number(n)   == [kind |-> "number", ref |-> FALSE, layout |-> Plain(n, n)]
\* Of an enumeration the underlying type is i8; own is how many enumerators it adds.
Enum(inherited, own) ==
    [kind |-> "enum", inherited |-> inherited, own |-> own, ref |-> FALSE,
     layout |-> Plain(1, 1)]

Bool        == [kind |-> "bool", ref |-> FALSE, layout |-> Plain(1, 1)]
String      == [kind |-> "string", ref |-> TRUE, layout |-> Plain(2, 2)]
Vector(t)   == [kind |-> "vector", of |-> t, ref |-> TRUE, layout |-> Plain(2, 2)]
Ptr(t)      == [kind |-> "ptr", of |-> t, ref |-> TRUE, layout |-> Plain(2, 2)]

\* An array of references is one, and has the size of one.
Array(t, n) ==
    [kind |-> "array", of |-> t, len |-> n, ref |-> t.ref,
     layout |-> IF t.ref THEN Plain(2, 2) ELSE Plain(t.layout.size * n, t.layout.alignment)]

\* get_wire_type: a reference is on the wire as a pointer to it, an array as the
\* array of what its elements are there.
WireType(t) == IF t.ref /\ t.kind \notin {"ptr", "array"} THEN Ptr(t) ELSE t

\* compound_layout::add_member over a sequence of layouts.
Compound(layouts) ==
    LET Add(c, l) == [end       |-> AlignUp(c.end, l.alignment) + l.size,
                      alignment |-> Max({c.alignment, l.alignment}),
                      offsets   |-> Append(c.offsets, AlignUp(c.end, l.alignment))]
        c == FoldLeft(Add, [end |-> 0, alignment |-> 1, offsets |-> <<>>], layouts)
    IN [size      |-> AlignUp(c.end, c.alignment),
        alignment |-> c.alignment,
        offsets   |-> c.offsets]

\* union_layout_computer over a set of layouts.
Widest(layouts) == [size      |-> Max({l.size : l \in layouts}),
                    alignment |-> Max({l.alignment : l \in layouts})]

MemberLayouts(ms) == [i \in DOMAIN ms |-> WireType(ms[i]).layout]
AnyReference(ms)  == \E i \in DOMAIN ms : ms[i].ref

Struct(ms) == [kind |-> "struct", members |-> ms, ref |-> AnyReference(ms),
               layout |-> Compound(MemberLayouts(ms))]

\* The "discriminator" of a union is of type i8.
UnionOf(ms) == [kind |-> "union", members |-> ms, inherited |-> 0, ref |-> AnyReference(ms),
                layout |-> Compound(<<Plain(1, 1), Widest(Range(MemberLayouts(ms)))>>)]

Extending(u, n) == [u EXCEPT !.inherited = n]

IsReference(t) == t.ref
SizeOf(t)      == t.layout.size
AlignOf(t)     == t.layout.alignment
OffsetOf(t, i) == t.layout.offsets[i]

\* The place of the value in a union.
ValueOffset(t) == OffsetOf(t, 2)

------------------------------------------------------------------------------
\* A 16-bit number, little endian, and back (read as an int16_t).
Int16Bytes(n) == <<Uint16(n) % 256, Uint16(n) \div 256>>
AsInt16(bs)   == Int16(bs[1] + 256 * bs[2])

\* What came of reading an object: its value, or what went wrong.
Got(v)     == [ok |-> TRUE, value |-> v]
Fails(why) == [ok |-> FALSE, why |-> why]

\* The values of a sequence of results, or the failure of one of them.
AllOf(results) ==
    IF \A i \in DOMAIN results : results[i].ok
    THEN Got([i \in DOMAIN results |-> results[i].value])
    ELSE CHOOSE r \in Range(results) : ~r.ok

\* n bytes at p of the memory m, a sequence of bytes.
Within(m, p, n)  == p >= 0 /\ n >= 0 /\ p + n <= Len(m)
BytesAt(m, p, n) == SubSeq(m, p + 1, p + n)
Int16At(m, p)    == AsInt16(BytesAt(m, p, 2))
=============================================================================
