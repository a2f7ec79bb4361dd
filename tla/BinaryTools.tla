------------------------------ MODULE BinaryTools ------------------------------
(***************************************************************************)
(* yaml2lidl and bin2yaml: the writers and the readers of the compiler's   *)
(* own types.  A YAML node is a value: bytes for a scalar, a sequence for  *)
(* a list or a map, <<i, v>> for a union whose i-th alternative is v.      *)
(***************************************************************************)
EXTENDS WireTypes

(***************************************************************************)
(* The writer: what is written so far, the position of the object written  *)
(* last, and "" or what stopped it.                                        *)
(***************************************************************************)
Empty == [out |-> <<>>, pos |-> 0, error |-> ""]

tell(w)      == Len(w.out)
Put(w, bs)   == IF w.error = "" THEN [w EXCEPT !.out = @ \o bs] ELSE w
Stop(w, why) == IF w.error = "" THEN [w EXCEPT !.error = why] ELSE w
At(w, p)     == IF w.error = "" THEN [w EXCEPT !.pos = p] ELSE w

\* ibinary_writer::align: bytes of zero.
align(w, a) == Put(w, [i \in 1 .. AlignUp(tell(w), a) - tell(w) |-> 0])

\* An object of n bytes that is aligned and remembered as the last one.
Place(w, a, bs) == LET al == align(w, a) IN At(Put(al, bs), tell(al))

\* node.as<int>(): only a scalar of digits converts, here of one digit.
IsDigit(v) == Len(v) = 1 /\ v[1] \in 48 .. 57
AsInt(v)   == v[1] - 48

\* pointer_type::yaml2bin: the node is the position of the pointee.
PutPointer(w, pointee) ==
    LET al == align(w, 2) IN At(Put(al, Int16Bytes(tell(al) - pointee)), tell(al))

\* deref_ptr
Pointee(t) == IF t.kind = "ptr" THEN t.of ELSE t

RECURSIVE yaml2bin(_, _, _)

\* The members, each where compound_layout has it: that is asserted.
WriteMembers(t, v, w) ==
    LET begin == tell(w)
        Write(u, i) ==
            LET m  == WireType(t.members[i])
                al == align(u, AlignOf(m))
            IN IF tell(al) - begin # OffsetOf(t, i) THEN Stop(al, "assertion")
               ELSE IF IsReference(m) THEN PutPointer(al, v[i])
               ELSE yaml2bin(m, v[i], al)
    IN FoldLeft(Write, w, [i \in DOMAIN t.members |-> i])

\* What a reference refers to is written with its wire type: when that is a
\* pointer again, its data is taken for the position of its pointee.
WriteReferred(t, v, w) == yaml2bin(WireType(t), v, w)

\* The references of a struct come before it; their positions replace them.
WriteReferences(t, v, w) ==
    LET Write(acc, i) ==
            IF ~IsReference(t.members[i]) THEN acc
            ELSE LET u == WriteReferred(Pointee(t.members[i]), v[i], acc.w)
                 IN [w |-> u, v |-> [acc.v EXCEPT ![i] = u.pos]]
    IN FoldLeft(Write, [w |-> w, v |-> v], [i \in DOMAIN t.members |-> i])

\* Mutant of yaml2bin_struct: no trailing padding.
yaml2bin_struct_unpadded(t, v, w) ==
    LET refs   == WriteReferences(t, v, w)
        struct == align(refs.w, AlignOf(t))
    IN At(WriteMembers(t, refs.v, struct), tell(struct))

\* structure::yaml2bin
yaml2bin_struct(t, v, w) ==
    LET refs   == WriteReferences(t, v, w)
        struct == align(refs.w, AlignOf(t))
    IN At(align(WriteMembers(t, refs.v, struct), AlignOf(t)), tell(struct))

\* union_type::yaml2bin: the number of the alternative counts those of the base,
\* the deque it indexes has the union's own.
yaml2bin_union(t, v, w) ==
    LET number == t.inherited + v[1]
    IN IF number \notin DOMAIN t.members THEN Stop(w, "undefined")
       ELSE LET m    == t.members[number]
                refs == IF ~IsReference(m) THEN w
                        ELSE IF m.kind # "ptr" THEN Stop(w, "undefined")
                        ELSE WriteReferred(m.of, v[2], align(w, AlignOf(WireType(m.of))))
                tag  == Place(align(refs, AlignOf(t)), 1, <<number - 1>>)
                body == IF IsReference(m) THEN PutPointer(tag, refs.pos)
                                          ELSE yaml2bin(m, v[2], align(tag, AlignOf(m)))
            IN At(body, tag.pos)

\* vector_type::yaml2bin: what the elements refer to comes first.
yaml2bin_vector(t, v, w) ==
    LET m == WireType(t.of)
        Referred(acc, e) ==
            LET u == WriteReferred(Pointee(t.of), e, align(acc.w, AlignOf(WireType(Pointee(t.of)))))
            IN [w |-> u, v |-> Append(acc.v, u.pos)]
        Element(u, e) == IF IsReference(m) THEN PutPointer(u, e)
                                           ELSE yaml2bin(m, e, align(u, AlignOf(m)))
        refs == IF IsReference(m) THEN FoldLeft(Referred, [w |-> w, v |-> <<>>], v)
                                  ELSE [w |-> w, v |-> v]
        body == FoldLeft(Element, Put(align(refs.w, 2), Int16Bytes(Len(v))), refs.v)
    IN IF IsReference(m) /\ t.of.kind # "ptr" THEN Stop(w, "undefined")
                                              ELSE At(body, tell(refs.w))

\* array_type::yaml2bin
yaml2bin_array(t, v, w) ==
    LET al == align(w, AlignOf(t))
    IN At(FoldLeft(LAMBDA u, e : yaml2bin(WireType(t.of), e, u), al, v), tell(al))

\* enumeration::yaml2bin: the node is the number, as its underlying type.
yaml2bin_enum(t, v, w) == Place(w, AlignOf(t), v)

\* type::yaml2bin of the type t for the node v.
yaml2bin(t, v, w) ==
    CASE w.error # ""      -> w
      [] t.kind = "number" -> Place(w, SizeOf(t), v)
      [] t.kind = "enum"   -> yaml2bin_enum(t, v, w)
      [] t.kind = "bool"   -> At(w, 0)
      [] t.kind = "string" -> Place(w, 2, Int16Bytes(Len(v)) \o v)
      [] t.kind = "ptr"    -> IF t.of.kind = "string" /\ IsDigit(v)
                              THEN PutPointer(w, AsInt(v)) ELSE Stop(w, "bad conversion")
      [] t.kind = "vector" -> yaml2bin_vector(t, v, w)
      [] t.kind = "array"  -> yaml2bin_array(t, v, w)
      [] t.kind = "struct" -> yaml2bin_struct(t, v, w)
      [] t.kind = "union"  -> yaml2bin_union(t, v, w)

------------------------------------------------------------------------------
(***************************************************************************)
(* The reader, at byte p of the file m.                                    *)
(***************************************************************************)
\* What is read of an object before its parts are.
Fixed(t) == CASE t.kind = "union" -> 1
              [] t.kind \in {"struct", "array"} -> 0
              [] OTHER -> SizeOf(t)

RECURSIVE bin2yaml(_, _, _)

\* vector_type::bin2yaml
bin2yaml_vector(t, m, p) ==
    LET e     == WireType(t.of)
        begin == AlignUp(p + 2, AlignOf(e))
    IN AllOf([i \in 1 .. Int16At(m, p) |-> bin2yaml(e, m, begin + (i - 1) * SizeOf(e))])

\* structure::bin2yaml
bin2yaml_struct(t, m, p) ==
    AllOf([i \in DOMAIN t.members |-> bin2yaml(WireType(t.members[i]), m, p + OffsetOf(t, i))])

\* union_type::bin2yaml: the enumeration knows the union's own alternatives only,
\* and what it finds is aligned as that alternative is, not as the union's value.
bin2yaml_union(t, m, p) ==
    LET number == m[p + 1] + 1
        e      == WireType(t.members[number])
        r      == bin2yaml(e, m, AlignUp(p + 1, AlignOf(e)))
    IN CASE number - t.inherited \notin DOMAIN t.members -> Fails("unknown value")
         [] number \notin DOMAIN t.members -> Fails("undefined")
         [] OTHER -> IF r.ok THEN Got(<<number - t.inherited, r.value>>) ELSE r

\* enumeration::bin2yaml looks for the number among the enumeration's own enumerators;
\* the name it gives stands for its number here.
bin2yaml_enum(t, m, p) ==
    IF m[p + 1] \in t.inherited .. t.inherited + t.own - 1 THEN Got(<<m[p + 1]>>)
    ELSE Fails("unknown enum value")

\* type::bin2yaml.  pointer_type asks get_wire_type for the type of its pointee,
\* which is itself when that is a reference: it follows what it takes for
\* offsets and never returns.
bin2yaml(t, m, p) ==
    CASE ~Within(m, p, Fixed(t)) -> Fails("outside")
      [] t.kind = "number" -> Got(BytesAt(m, p, SizeOf(t)))
      [] t.kind = "enum"   -> bin2yaml_enum(t, m, p)
      [] t.kind = "bool"   -> Got(m[p + 1] # 0)
      [] t.kind = "string" -> IF Within(m, p + 2, Int16At(m, p))
                              THEN Got(BytesAt(m, p + 2, Int16At(m, p))) ELSE Fails("outside")
      [] t.kind = "ptr"    -> IF IsReference(t.of) THEN Fails("endless")
                                                   ELSE bin2yaml(t.of, m, p - Int16At(m, p))
      [] t.kind = "vector" -> bin2yaml_vector(t, m, p)
      [] t.kind = "array"  -> Fails("not implemented")
      [] t.kind = "struct" -> bin2yaml_struct(t, m, p)
      [] t.kind = "union"  -> bin2yaml_union(t, m, p)

\* The main of bin2yaml: the root, as a wire type, is what the file ends with.
ReadRoot(t, m) == bin2yaml(WireType(t), m, Len(m) - SizeOf(WireType(t)))
=============================================================================
