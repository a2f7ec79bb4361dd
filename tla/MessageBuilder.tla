---------------------------- MODULE MessageBuilder ----------------------------
(***************************************************************************)
(* lidl::message_builder and the objects built with it: raw emplacement,   *)
(* strings, vectors, relative pointers and the root.                       *)
(*                                                                         *)
(* Positions are offsets from m_buffer.data().  The builder aligns in      *)
(* these offsets, while vector::data() aligns the absolute address, Base + *)
(* offset, so both appear here.  Bytes are not modelled: an object is the  *)
(* region allocated for it, and a pointer is the 16-bit offset it stores.  *)
(***************************************************************************)
EXTENDS Bytes, FiniteSets

CONSTANTS
    Base,       \* address of the first byte of the buffer
    Capacity,   \* m_buffer.size()
    Types,      \* fixed-size types: [size, align, ptrs], ptrs = offsets of ptr<T> members
    Elems,      \* element types of vectors: [size, align]
    Lens,       \* lengths of the strings and of the vectors of such elements
    RefLens,    \* lengths of the vectors of references
    MaxObjects  \* bound on the objects of a message (the code has none)

\* nullptr, as an offset in the buffer.
None == -1

\* sizeof is a positive multiple of alignof; a ptr member is 2 bytes, 2-aligned;
\* the headers, 2-aligned in the buffer, are so in memory as well.
ASSUME BuilderAssumption ==
    /\ Base \in Nat /\ Base % 2 = 0
    /\ Capacity \in Nat
    /\ Lens \subseteq Nat
    /\ RefLens \subseteq Nat
    /\ MaxObjects \in Nat
    /\ Elems \subseteq [size : Nat \ {0}, align : Aligns]
    /\ \A T \in Types :
          /\ T.size \in Nat \ {0} /\ T.align \in Aligns /\ T.size % T.align = 0
          /\ T.ptrs \subseteq Nat
          /\ \A p \in T.ptrs : p % 2 = 0 /\ p + 2 <= T.size
          /\ T.ptrs # {} => T.align # 1

VARIABLES
    m_cur_ptr,  \* m_cur_ptr - m_buffer.data()
    objs,       \* objects returned by emplace_raw: [pos, size, align]
    views,      \* strings and vectors: [pos, esize, ealign, len, m_len, body]
    m_offset,   \* position of a ptr |-> the int16_t it stores
    spinning    \* emplace_raw's while (true) was reached

vars == <<m_cur_ptr, objs, views, m_offset, spinning>>

------------------------------------------------------------------------------
size == Uint16(m_cur_ptr)

\* Where allocate places sz bytes when the cursor is at cur; None is nullptr.
Place(cur, sz, a) ==
    IF AlignUp(cur, a) + sz > Capacity THEN None ELSE AlignUp(cur, a)

\* Mutants of Bump: the padding is not consumed; the end is rounded up to 8.
BumpUnpadded(cur, sz, a) == IF Place(cur, sz, a) = None THEN cur ELSE cur + sz
BumpRounded(cur, sz, a) ==
    IF Place(cur, sz, a) = None THEN cur ELSE AlignUp(Place(cur, sz, a) + sz, 8)

\* The cursor after that call: nullptr leaves it alone.
Bump(cur, sz, a) ==
    IF Place(cur, sz, a) = None THEN cur ELSE Place(cur, sz, a) + sz

\* Mutant of Encode: an 8-bit offset.
EncodeByte(self, to) == Int16((self - to) % 256)

\* ptr(const T&) and operator= store self - to; unsafe().get() subtracts it.
Encode(self, to)  == Int16(self - to)
Decode(self, off) == self - off

\* Mutant of Data: the body is looked for right behind the length.
DataUnaligned(v) == v.pos + 2

\* vector::data() and string::data() as offsets in the buffer.
Data(v) == AlignUp(Base + v.pos + 2, v.ealign) - Base

\* What a reference can be taken of.
Positions == {o.pos : o \in objs}

\* The places of the ptrs of an object, and of a vector of ptrs.
ObjectSlots(o) == {o.pos + p : p \in o.ptrs}
VectorSlots(v) == {Data(v) + 2 * i : i \in 0 .. v.len - 1}

\* The ptrs stored inside what was allocated for them.
Slots == UNION ({ObjectSlots(o) : o \in objs}
           \union {VectorSlots(v) : v \in {w \in views : w.refs /\ w.body # None}})

------------------------------------------------------------------------------
Init == /\ m_cur_ptr = 0
        /\ objs = {}
        /\ views = {}
        /\ m_offset = [s \in {} |-> 0]
        /\ spinning = FALSE

Ready == ~spinning /\ Cardinality(objs) < MaxObjects

\* emplace_raw finds no room for the object and never returns.
Spin(sz, a) == /\ ~spinning
               /\ Place(m_cur_ptr, sz, a) = None
               /\ spinning' = TRUE
               /\ UNCHANGED <<m_cur_ptr, objs, views, m_offset>>

\* emplace_raw<T>(builder, args...): every ptr member is constructed, in place,
\* from the object its argument refers to.
Emplace(T, to) ==
    LET pos == Place(m_cur_ptr, T.size, T.align)
        o   == [pos |-> pos, size |-> T.size, align |-> T.align, ptrs |-> T.ptrs]
    IN /\ Ready
       /\ pos # None
       /\ m_cur_ptr' = Bump(m_cur_ptr, T.size, T.align)
       /\ objs' = objs \union {o}
       /\ m_offset' = [s \in DOMAIN m_offset \union ObjectSlots(o) |->
                          IF s \in ObjectSlots(o) THEN Encode(s, to[s - pos])
                                                  ELSE m_offset[s]]
       /\ UNCHANGED <<views, spinning>>

\* finish(builder, t) appends a ptr to t, which get_root<ptr<T>> then finds.
PtrType   == [size |-> 2, align |-> 2, ptrs |-> {0}]
finish(t) == Emplace(PtrType, [p \in {0} |-> t])

\* A string or vector is a 2-byte header and then, by a second allocate whose
\* result nobody looks at, the body.
Header == [pos |-> Place(m_cur_ptr, 2, 2), size |-> 2, align |-> 2, ptrs |-> {}]
View(esize, ealign, len, isRefs) ==
    [pos |-> Header.pos, esize |-> esize, ealign |-> ealign, refs |-> isRefs,
     len |-> len, m_len |-> Int16(len),
     body |-> Place(Bump(m_cur_ptr, 2, 2), len * esize, ealign)]

CreateView(v) ==
    /\ Ready
    /\ Header.pos # None
    /\ objs' = objs \union {Header}
    /\ views' = views \union {v}
    /\ m_cur_ptr' = Bump(Bump(m_cur_ptr, 2, 2), v.len * v.esize, v.ealign)
    /\ UNCHANGED spinning

create_string(len) ==
    CreateView(View(1, 1, len, FALSE)) /\ UNCHANGED m_offset
create_vector(E, len) ==
    CreateView(View(E.size, E.align, len, FALSE)) /\ UNCHANGED m_offset

\* Mutant of create_vector_refs: offsets are taken from the header of the vector.
RefsFromHeader(len, to) ==
    LET v == View(2, 2, len, TRUE)
    IN /\ CreateView(v)
       /\ m_offset' = [s \in DOMAIN m_offset \union VectorSlots(v) |->
                          IF s \in VectorSlots(v)
                          THEN Encode(v.pos, to[(s - Data(v)) \div 2])
                          ELSE m_offset[s]]

\* create_vector of references assigns each ptr through span(), wherever data()
\* puts it, whether or not there was room for the body.
create_vector_refs(len, to) ==
    LET v == View(2, 2, len, TRUE)
    IN /\ CreateView(v)
       /\ m_offset' = [s \in DOMAIN m_offset \union VectorSlots(v) |->
                          IF s \in VectorSlots(v)
                          THEN Encode(s, to[(s - Data(v)) \div 2])
                          ELSE m_offset[s]]

\* ptr::operator=(const T&), on a ptr that was built before.
assign(s, t) == /\ ~spinning
                /\ m_offset' = [m_offset EXCEPT ![s] = Encode(s, t)]
                /\ UNCHANGED <<m_cur_ptr, objs, views, spinning>>

Next == \/ \E T \in Types : \E to \in [T.ptrs -> Positions] : Emplace(T, to)
        \/ \E t \in Positions : finish(t)
        \/ \E n \in Lens : create_string(n)
        \/ \E E \in Elems, n \in Lens : create_vector(E, n)
        \/ \E n \in RefLens : \E to \in [0 .. n - 1 -> Positions] :
               create_vector_refs(n, to)
        \/ \E s \in DOMAIN m_offset, t \in Positions : assign(s, t)
        \/ \E T \in Types : Spin(T.size, T.align)
        \/ Spin(2, 2)

Spec == Init /\ [][Next]_vars

------------------------------------------------------------------------------
\* get_buffer() ends at size(); get_root<T> looks sizeof(T) before that end.
get_root(sz) == size - sz

Regions == {[pos |-> o.pos, size |-> o.size] : o \in objs} \union
           {[pos |-> v.body, size |-> v.len * v.esize] :
                v \in {w \in views : w.body # None}}

ObjectType == [pos : Nat, size : Nat \ {0}, align : Aligns, ptrs : SUBSET Nat]
ViewType   == [pos : Nat, esize : Nat \ {0}, ealign : Aligns, refs : BOOLEAN,
               len : Nat, m_len : Int16s, body : Nat \union {None}]

\* The types of the variables; the cursor never leaves the buffer.
TypeOK == /\ m_cur_ptr \in 0 .. Capacity
          /\ objs \subseteq ObjectType
          /\ views \subseteq ViewType
          /\ m_offset \in [DOMAIN m_offset -> Int16s] /\ DOMAIN m_offset \subseteq Nat
          /\ spinning \in BOOLEAN

\* Everything allocate ever returned lies inside the buffer, aligned, and no two
\* such regions share a byte, however objects and bodies are interleaved.
Separate ==
    /\ m_cur_ptr <= Capacity
    /\ \A r \in Regions : r.pos >= 0 /\ r.pos + r.size <= m_cur_ptr
    /\ \A o \in objs : o.pos % o.align = 0
    /\ \A r, s \in Regions :
          r # s => ~Overlap(r.pos, r.size, s.pos, s.size)

\* In a buffer that is aligned for the elements, a string or vector whose body
\* got room reads exactly its own body: data(), which skips padding from the
\* absolute address, agrees with allocate, which skipped it from the offset.
BodyIsData ==
    \A v \in views :
        v.body # None /\ Base % v.ealign = 0 => Data(v) = v.body

\* In a buffer of at most 32 KiB 16 bits are enough: a length that is read back is the
\* length that was asked for, if the body fits, and every ptr reads as an object that
\* exists, whatever self - to loses by the conversion to int16_t.
Int16sSuffice ==
    Capacity <= 32768 =>
        /\ \A v \in views : v.body # None => v.m_len = v.len
        /\ \A s \in Slots : Decode(s, m_offset[s]) \in Positions

\* get_root on the finished part of the buffer finds the object created last.
RootIsLast ==
    [][Capacity < 65536 =>
         \A o \in objs' \ objs : views' = views => get_root(o.size)' = o.pos]_vars

\* Each ptr reads as the object it was last made to refer to, and no other call
\* changes that.
Store == INSTANCE ObjectStore WITH
            objects <- Positions,
            refs    <- [s \in Slots |-> Decode(s, m_offset[s])]
StoreSpec == Store!Spec
=============================================================================
