--------------------------------- MODULE Layout ---------------------------------
(***************************************************************************)
(* The layouts that the compiler computes for wire types (layout.hpp,      *)
(* structure, union_type and array_type ::wire_layout), next to those that *)
(* the C++ compiler gives to the code it emits for the same types.  The    *)
(* binary converters use the former, the emitted program the latter.       *)
(*                                                                         *)
(* Types are declared one after the other and may be used by later ones.   *)
(***************************************************************************)
EXTENDS Bytes, FiniteSets

CONSTANTS
    Names,      \* names of members
    Lengths,    \* lengths of arrays
    Elements,   \* categories of the types that arrays are made of
    Extending,  \* whether unions may extend unions
    MaxTypes,   \* bound: distinct types
    MaxSize     \* bound: bytes of a type

ASSUME LayoutAssumption ==
    /\ Lengths \subseteq Nat \ {0}
    /\ Elements \subseteq {"value", "reference"}
    /\ Extending \in BOOLEAN
    /\ MaxTypes \in Nat
    /\ MaxSize \in Nat /\ 8 <= MaxSize /\ MaxSize < 32768

VARIABLES
    types,         \* the types declared so far
    open,          \* what is being declared: "nothing", "struct", "union"; or what
                   \* was thrown: "bad_struct", "bad_union", "member_exists"
    computer,      \* the compound_layout of the struct
    alternatives,  \* the layout in the union_layout_computer of the union
    members,       \* the categories of the members so far
    cxx            \* what the C++ compiler makes of the members so far

layout_vars == <<types, open, computer, alternatives, members, cxx>>

------------------------------------------------------------------------------
\* raw_layout(size, alignment); size() and alignment() are narrowed to 16 bits.
RawLayout(sz, al) == [size |-> Int16(sz), alignment |-> Int16(al)]

\* raw_layout's constructor throws.
BadAlignment(sz, al) == sz % al # 0

\* std::lcm of two powers of two.
Lcm(a, b) == IF a >= b THEN a ELSE b

\* A type: its wire_layout, what the compiler makes of it, whether it is a value or
\* a reference, whether it is a member itself or its ptr is, and for a union what
\* the compiler makes of its alternatives.
Type(l, abi, cat, inl, alts) ==
    [layout |-> l, abi |-> abi, category |-> cat, is_inline |-> inl, alternatives |-> alts]

NoLayout == RawLayout(0, 1)
Basic    == {Type(RawLayout(n, n), RawLayout(n, n), "value", TRUE, NoLayout) : n \in Aligns}
Ptr      == Type(RawLayout(2, 2), RawLayout(2, 2), "reference", TRUE, NoLayout)

\* get_wire_type(t): ptr<t> for a struct or union that is a reference.
WireType(t) == IF t.is_inline THEN t ELSE Ptr

Category(cats) == IF "reference" \in cats THEN "reference" ELSE "value"

\* What a struct is for the C++ compiler: members in order, each at the next place
\* that is aligned for it, and no type has size 0.
NoMembers        == [end |-> 0, alignment |-> 1, offsets |-> [n \in {} |-> 0]]
CxxAdd(c, n, l)  ==
    LET at == AlignUp(c.end, l.alignment) IN
    [end |-> at + l.size, alignment |-> Lcm(c.alignment, l.alignment),
     offsets |-> [x \in DOMAIN c.offsets \union {n} |-> IF x = n THEN at ELSE c.offsets[x]]]
CxxStruct(c)     == [size |-> IF c.end = 0 THEN 1 ELSE AlignUp(c.end, c.alignment),
                     alignment |-> c.alignment]

\* ... and a union: the alternatives overlap, and the end is padded.
CxxAlternative(l, k) ==
    LET al == Lcm(l.alignment, k.alignment)
        sz == IF l.size >= k.size THEN l.size ELSE k.size
    IN  [size |-> AlignUp(sz, al), alignment |-> al]

------------------------------------------------------------------------------
NewComputer == [size |-> 1, alignment |-> 1, padding |-> 1, offsets |-> [n \in {} |-> 0]]

\* Padding from a place to the next one that is aligned.
PadTo(current, needed) == AlignUp(current, needed) - current

\* Mutant of add_member: the padding behind the last member stays.
AddBehindPadding(c, n, l) ==
    LET align_to == Lcm(c.alignment, l.alignment)
        offset   == c.size + PadTo(c.size, l.alignment)
        padding  == PadTo(offset + l.size, align_to)
    IN  [size |-> offset + l.size + padding, alignment |-> align_to, padding |-> padding,
         offsets |-> [x \in DOMAIN c.offsets \union {n} |->
                         IF x = n THEN offset ELSE c.offsets[x]]]

\* compound_layout::add_member: the padding that was at the end is taken back.
add_member(c, n, l) ==
    LET align_to == Lcm(c.alignment, l.alignment)
        begin    == c.size - c.padding
        offset   == begin + PadTo(begin, l.alignment)
        padding  == PadTo(offset + l.size, align_to)
    IN  [size |-> offset + l.size + padding, alignment |-> align_to, padding |-> padding,
         offsets |-> [x \in DOMAIN c.offsets \union {n} |->
                         IF x = n THEN offset ELSE c.offsets[x]]]

\* Mutant of union_add: the size of the last alternative.
UnionLast(l, k) == [size |-> k.size, alignment |-> Lcm(l.alignment, k.alignment)]

\* union_layout_computer::add, before raw_layout's check.
union_add(l, k) == [size |-> IF l.size >= k.size THEN l.size ELSE k.size,
                    alignment |-> Lcm(l.alignment, k.alignment)]

------------------------------------------------------------------------------
LayoutInit == /\ types = Basic \union {Ptr}
              /\ open = "nothing"
              /\ computer = NewComputer
              /\ alternatives = NoLayout
              /\ members = {}
              /\ cxx = NoMembers

\* Bound: one more type.
MoreTypes == Cardinality(types) < MaxTypes

BeginStruct ==
    /\ open = "nothing" /\ MoreTypes
    /\ open' = "struct"
    /\ computer' = NewComputer
    /\ members' = {}
    /\ cxx' = NoMembers
    /\ UNCHANGED <<types, alternatives>>

\* structure::layout adds the wire type of each member; raw_layout may throw.
AddMember(n, t) ==
    /\ open = "struct"
    /\ n \notin DOMAIN computer.offsets
    /\ LET l == WireType(t).layout
           c == add_member(computer, n, l)
       IN  /\ c.size <= MaxSize
           /\ open' = IF BadAlignment(c.size, c.alignment) THEN "bad_struct" ELSE "struct"
           /\ computer' = c
    /\ cxx' = CxxAdd(cxx, n, WireType(t).abi)
    /\ members' = members \union {WireType(t).category}
    /\ UNCHANGED <<types, alternatives>>

\* add_member throws when there is such a member.
AddTwice(n) ==
    /\ open = "struct"
    /\ n \in DOMAIN computer.offsets
    /\ open' = "member_exists"
    /\ UNCHANGED <<types, computer, alternatives, members, cxx>>

EndStruct ==
    /\ open = "struct"
    /\ LET cat == Category(members) IN
       types' = types \union {Type(RawLayout(computer.size, computer.alignment),
                                   CxxStruct(cxx), cat, cat = "value", NoLayout)}
    /\ open' = "nothing"
    /\ UNCHANGED <<computer, alternatives, members, cxx>>

\* A union, or one that extends the union b: wire_layout counts the members of the
\* union itself, the emitted class has all_members.
BeginUnion ==
    /\ open = "nothing" /\ MoreTypes
    /\ open' = "union"
    /\ alternatives' = NoLayout
    /\ members' = {}
    /\ \E b \in {NoLayout} \union {t.alternatives : t \in IF Extending THEN types ELSE {}} :
          cxx' = b
    /\ UNCHANGED <<types, computer>>

AddAlternative(t) ==
    /\ open = "union"
    /\ LET u == union_add(alternatives, WireType(t).layout) IN
       /\ open' = IF BadAlignment(u.size, u.alignment) THEN "bad_union" ELSE "union"
       /\ alternatives' = u
    /\ cxx' = CxxAlternative(cxx, WireType(t).abi)
    /\ members' = members \union {WireType(t).category}
    /\ UNCHANGED <<types, computer>>

\* union_type::layout: a discriminator of type i8, unless raw, and then the value.
\* (A union without an alternative has no C++ counterpart.)
EndUnion(raw) ==
    /\ open = "union"
    /\ members # {}
    /\ LET i8   == RawLayout(1, 1)
           head == IF raw THEN NewComputer ELSE add_member(NewComputer, "discriminator", i8)
           all  == add_member(head, "val", alternatives)
           cxxh == IF raw THEN NoMembers ELSE CxxAdd(NoMembers, "discriminator", i8)
           cat  == Category(members)
       IN  /\ all.size <= MaxSize
           /\ types' = types \union {Type(RawLayout(all.size, all.alignment),
                                          CxxStruct(CxxAdd(cxxh, "val", cxx)),
                                          cat, cat = "value", cxx)}
    /\ open' = "nothing"
    /\ UNCHANGED <<computer, alternatives, members, cxx>>

\* array_type::wire_layout; an array of references has the layout of one pointer.
Instantiate(t, len) ==
    /\ open = "nothing" /\ MoreTypes
    /\ LET e == WireType(t) IN
       /\ e.category \in Elements
       /\ e.layout.size * len <= MaxSize
       /\ types' = types \union
             {Type(IF e.category = "reference" THEN RawLayout(2, 2)
                   ELSE RawLayout(e.layout.size * len, e.layout.alignment),
                   [size |-> e.abi.size * len, alignment |-> e.abi.alignment],
                   e.category, TRUE, NoLayout)}
    /\ UNCHANGED <<open, computer, alternatives, members, cxx>>

LayoutNext == \/ BeginStruct
              \/ \E n \in Names, t \in types : AddMember(n, t)
              \/ \E n \in Names : AddTwice(n)
              \/ EndStruct
              \/ BeginUnion
              \/ \E t \in types : AddAlternative(t)
              \/ \E raw \in BOOLEAN : EndUnion(raw)
              \/ \E t \in types, len \in Lengths : Instantiate(t, len)

LayoutSpec == LayoutInit /\ [][LayoutNext]_layout_vars

------------------------------------------------------------------------------
\* A layout as layout.hpp has them: the size is a multiple of the alignment.
Layouts == {l \in [size : 0 .. MaxSize, alignment : Aligns] : l.size % l.alignment = 0}

LayoutTypeOK == /\ \A t \in types : /\ t.layout \in Layouts
                                    /\ t.category \in {"value", "reference"}
                                    /\ t.is_inline \in BOOLEAN
                /\ open \in {"nothing", "struct", "union", "bad_struct", "bad_union", "member_exists"}
                /\ open = "struct" =>
                      /\ [size |-> computer.size, alignment |-> computer.alignment] \in Layouts
                      /\ computer.padding \in 0 .. 8
                      /\ DOMAIN computer.offsets \subseteq Names
                /\ open = "union" => alternatives \in Layouts
                /\ members \subseteq {"value", "reference"}

\* The layout keeps track of the offsets of the members (structure.cpp:42): they
\* are where the C++ compiler puts the members of the emitted struct.
OffsetsAgree == open = "struct" => computer.offsets = cxx.offsets

\* The sizes and alignments that binaries are converted with are those of the
\* emitted code, through structs, unions, arrays and their nesting; and the check in
\* raw_layout's constructor never stops a struct, and of the unions only those that the
\* C++ compiler pads.
TypesAgree ==
    /\ \A t \in types : t.layout = t.abi
    /\ open # "bad_struct"
    /\ open = "bad_union" => cxx.size # alternatives.size
===============================================================================
