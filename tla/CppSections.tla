------------------------------ MODULE CppSections ------------------------------
(***************************************************************************)
(* The sections that the C++ generators emit for the declarations of an    *)
(* interface: which keys each carries and on which keys it depends, and    *)
(* which instantiations of generics are looked up on the way.  The text of *)
(* a section is left out.                                                  *)
(*                                                                         *)
(* A name is the sequence of its symbols from the outside in: vector<S> is *)
(* <<"vector", "S">>.  A section key is <<section_type, symbol>>; a symbol *)
(* is a sequence too: <<"S">>, or an instance <<"g", "S">>, or what the    *)
(* generators make of one: <<"throwaway", "g", "S">> for the structure it  *)
(* stands for, <<"alternatives", "U">> for the enumeration of a union.     *)
(***************************************************************************)
EXTENDS Naturals, Sequences, SequencesExt

CONSTANT MaxDepth   \* how many types hold one another, at most

VARIABLE iface   \* decl: symbol |-> declaration, and the orders of the module's lists

Intrinsics == {"u8", "string", "string_view", "ptr", "vector"}

\* What the generators put before the symbols of a declaration, and no declaration's name.
Made == {"throwaway", "alternatives", "call_union", "return_union"}

Kind(b) == IF b \in Intrinsics THEN "intrinsic" ELSE iface.decl[b].kind

Compounds == {"structure", "union", "raw_union", "params_struct", "generic_structure",
              "generic_union"}
Generics  == {"generic_structure", "generic_union"}

Symbols == Intrinsics \union DOMAIN iface.decl
Name    == Seq(Symbols)

IsCompound(nm) == Kind(Head(nm)) \in Compounds

\* A name and its arguments, the arguments' arguments, ...
NestedNames(nm) == [n \in 1 .. Len(nm) |-> SubSeq(nm, n, Len(nm))]

------------------------------------------------------------------------------
\* The types that a compound's members are declared with, parameters substituted.
Types(nm) ==
    LET decl == iface.decl[Head(nm)] IN
    [n \in DOMAIN decl.members |->
        IF decl.kind \in Generics /\ decl.members[n] = <<"T">> THEN Tail(nm)
        ELSE decl.members[n]]

\* The names of references; a compound is one if a member is.
references[n \in 0 .. MaxDepth] ==
    IF n = 0 THEN {}
    ELSE {nm \in Name : \/ Head(nm) \in Intrinsics \ {"u8"}
                        \/ /\ IsCompound(nm)
                           /\ \E k \in DOMAIN Types(nm) : Types(nm)[k] \in references[n - 1]}

is_reference_type(nm) == nm \in references[MaxDepth]

\* A vector is a pointer to a vector of what its elements are on the wire.
get_wire_type_name(nm) ==
    LET others == {k \in DOMAIN nm : nm[k] # "vector"}
        rest   == SubSeq(nm, Min(others), Len(nm))
    IN  FlattenSeq([k \in 1 .. Min(others) - 1 |-> <<"ptr", "vector">>])
        \o CASE Head(rest) = "ptr" -> rest
             [] Head(rest) = "string_view" -> <<"ptr", "string">>
             [] OTHER -> IF is_reference_type(rest) THEN <<"ptr">> \o rest ELSE rest

\* The types of a compound's members; those of the structure made of a procedure's
\* parameters or results are wire types.
Members(nm) ==
    IF Kind(Head(nm)) = "params_struct"
    THEN [n \in DOMAIN Types(nm) |-> get_wire_type_name(Types(nm)[n])]
    ELSE Types(nm)

\* Mutant of UpToReference: the reference is not looked at.
BeforeReference(mem) ==
    FlattenSeq([n \in DOMAIN mem |->
        IF \A k \in 1 .. n : ~is_reference_type(mem[k]) THEN <<mem[n]>> ELSE <<>>])

\* The members that category looks at: up to the first that is a reference.
UpToReference(mem) ==
    FlattenSeq([n \in DOMAIN mem |->
        IF \A k \in 1 .. n - 1 : ~is_reference_type(mem[k]) THEN <<mem[n]>> ELSE <<>>])

\* The names that a name's wire type is looked up after.
Visited(nm) ==
    IF Head(nm) = "vector" THEN <<Tail(nm)>>
    ELSE IF IsCompound(nm) THEN UpToReference(Members(nm)) ELSE <<>>

\* The instances looked up by get_wire_type_name, in order.
Pointer(nm) == IF get_wire_type_name(nm) # nm THEN <<get_wire_type_name(nm)>> ELSE <<>>
Resolved(nm) == IF Len(nm) > 1 THEN <<nm>> ELSE <<>>

wired[n \in 0 .. MaxDepth] ==
    [nm \in Name |->
        IF n = 0 THEN <<>>
        ELSE Resolved(nm)
             \o FlattenSeq([k \in DOMAIN Visited(nm) |-> wired[n - 1][Visited(nm)[k]]])
             \o Pointer(nm)]

wire_calls(nm) == wired[MaxDepth][nm]

\* Those of is_reference_type.
category_calls(nm) ==
    IF IsCompound(nm)
    THEN FlattenSeq([k \in DOMAIN Visited(nm) |-> wire_calls(Visited(nm)[k])])
    ELSE <<>>

\* No type holds itself by value, or as the elements of a vector: there the functions
\* above would not end.
ends[n \in 0 .. MaxDepth] ==
    IF n = 0 THEN {} ELSE {nm \in Name : Range(Visited(nm)) \subseteq ends[n - 1]}

\* The names that the declarations use, and what they declare.
Names ==
    {<<s>> : s \in {t \in DOMAIN iface.decl : Kind(t) \notin Generics}}
    \union UNION {Range(NestedNames(nm)) :
                    nm \in (UNION {Range(iface.decl[s].members) : s \in DOMAIN iface.decl})
                           \ {<<"T">>}}
------------------------------------------------------------------------------
\* Mutant of def_keys_from_name: the instance itself is not waited for.
DefKeysOfGeneric(nm) ==
    UNION {{<<IF Len(s) = 1 THEN "definition" ELSE "generic_declaration", <<Head(s)>>>>}
           \union (IF Len(s) = 1 /\ Kind(s[1]) \in Compounds /\ is_reference_type(s)
                   THEN {<<"lidl_traits", s>>} ELSE {}) : s \in Range(NestedNames(nm))}

\* The keys that the use of a name depends on.
def_keys_from_name(nm) ==
    UNION {{<<IF Len(s) = 1 THEN "definition" ELSE "generic_declaration", <<Head(s)>>>>}
           \union (IF Len(s) = 1 /\ Kind(s[1]) \in Compounds /\ is_reference_type(s)
                   THEN {<<"lidl_traits", s>>} ELSE {})
           \union (IF Len(s) > 1 /\ Kind(Head(s)) \in Generics
                   THEN {<<"definition", s>>} ELSE {}) : s \in Range(NestedNames(nm))}

def_keys_calls(nm) ==
    FlattenSeq([n \in DOMAIN nm |->
        LET s == NestedNames(nm)[n] IN Resolved(s) \o category_calls(s)])

\* What a generator looks up for a list of members.
types_calls(mem)  == FlattenSeq([n \in DOMAIN mem |-> wire_calls(mem[n])])
member_calls(mem) == types_calls(mem) \o
                     FlattenSeq([n \in DOMAIN mem |-> def_keys_calls(mem[n])])

member_keys(mem) == UNION {def_keys_from_name(mem[n]) : n \in DOMAIN mem}

compute_namespace_for_section(key) ==
    CASE key[1] \in {"lidl_traits", "service_descriptor", "validator"} -> "lidl"
      [] key[1] = "std_traits" -> "std"
      [] OTHER -> "module"

Section(keys, deps) ==
    [keys |-> Range(keys), depends_on |-> deps,
     name_space |-> compute_namespace_for_section(keys[1])]

AddDependency(sects, key) ==
    [n \in DOMAIN sects |-> [sects[n] EXCEPT !.depends_on = @ \union {key}]]

------------------------------------------------------------------------------
enum_gen(sym) == << Section(<<<<"lidl_traits", sym>>>>, {<<"definition", sym>>}),
                    Section(<<<<"definition", sym>>>>, {}) >>

\* operator== calls those of the members.
Comparison(sym, mem) ==
    IF mem = <<>> THEN <<>>
    ELSE << Section(<<<<"eq_operator", sym>>>>, {<<"definition", sym>>}) >>

\* A structure; serv: the service whose parameters it holds, or none.
struct_gen(sym, mem, serv) ==
    LET def == <<"definition", sym>> IN
    << Section(<<<<"lidl_traits", sym>>>>, {def}), Section(<<<<"std_traits", sym>>>>, {def}) >>
    \o [s \in 1 .. Len(serv) |->
           Section(<<<<"lidl_traits", sym>>>>,
                   {def, <<"sync_server", <<serv[s]>>>>, <<"async_server", <<serv[s]>>>>})]
    \o << Section(<<<<"validator", sym>>>>, {def}), Section(<<def>>, member_keys(mem)) >>
    \o Comparison(sym, mem)

union_traits(sym) == Section(<<<<"lidl_traits", sym>>>>, {<<"definition", sym>>})

\* The definition of a union holds that of its enumeration.
union_gen(sym, mem) ==
    LET def == <<"definition", sym>>
        alternatives == <<"alternatives">> \o sym
    IN << union_traits(sym),
          Section(<<def, <<"definition", alternatives>>>>, member_keys(mem)),
          enum_gen(alternatives)[1] >>
       \o Comparison(sym, mem)

raw_union_gen(sym, mem) ==
    << union_traits(sym), Section(<<<<"definition", sym>>>>, member_keys(mem)) >>

\* Mutant of generic_gen: the structure does not define the instance.
BodyOnly(ins) ==
    LET sym  == <<"throwaway">> \o ins
        decl == <<"generic_declaration", <<Head(ins)>>>>
        body == IF Kind(Head(ins)) = "generic_structure"
                THEN struct_gen(sym, Members(ins), <<>>) ELSE union_gen(sym, Members(ins))
    IN IF Kind(Head(ins)) \notin Generics THEN <<>>
       ELSE << Section(<<decl>>, {}) >> \o AddDependency(body, decl)

\* Of an instance: the declaration of its generic, once more, and the structure or
\* union it stands for; the definition of that defines the instance.
generic_gen(ins) ==
    LET sym  == <<"throwaway">> \o ins
        decl == <<"generic_declaration", <<Head(ins)>>>>
        body == IF Kind(Head(ins)) = "generic_structure"
                THEN struct_gen(sym, Members(ins), <<>>) ELSE union_gen(sym, Members(ins))
    IN IF Kind(Head(ins)) \notin Generics THEN <<>>
       ELSE << Section(<<decl>>, {}) >> \o
            [n \in DOMAIN body |->
                IF <<"definition", sym>> \in body[n].keys
                THEN [body[n] EXCEPT !.keys = @ \union {<<"definition", ins>>},
                                     !.depends_on = @ \union {decl}]
                ELSE body[n]]

------------------------------------------------------------------------------
\* Services.  A procedure is [params_struct, results_struct]: the symbols of the
\* structures made for it, whose declared members are the types of its parameters
\* and its result.
all_procedures(serv) ==
    LET from[n \in 0 .. MaxDepth] ==
          IF n = 0 THEN <<serv>>
          ELSE LET some == from[n - 1] IN iface.decl[Head(some)].extends \o some
        all == from[MaxDepth]
    IN  FlattenSeq([n \in DOMAIN all |-> iface.decl[all[n]].procedures])

OwnTypes(serv) ==
    LET procs == iface.decl[serv].procedures IN
    FlattenSeq([n \in DOMAIN procs |-> iface.decl[procs[n].params_struct].members \o
                                       iface.decl[procs[n].results_struct].members])

\* What generate_unions_if_dirty looks up: the structures of all procedures.
union_calls(serv) ==
    LET procs == all_procedures(serv) IN
    FlattenSeq([n \in DOMAIN procs |->
        types_calls(iface.decl[procs[n].params_struct].members) \o
        types_calls(iface.decl[procs[n].results_struct].members)])

Unions(serv) == << <<"call_union", serv>>, <<"return_union", serv>> >>

generate_wire_types(serv) ==
    LET procs == iface.decl[serv].procedures
        all   == all_procedures(serv)
        key   == <<"wire_types", <<serv>>>>
        own   == FlattenSeq([n \in DOMAIN procs |->
                    struct_gen(<<procs[n].params_struct>>, Members(<<procs[n].params_struct>>),
                               <<serv>>) \o
                    struct_gen(<<procs[n].results_struct>>,
                               Members(<<procs[n].results_struct>>), <<>>)])
        call  == union_gen(Unions(serv)[1], [n \in DOMAIN all |-> <<all[n].params_struct>>])
        ret   == union_gen(Unions(serv)[2], [n \in DOMAIN all |-> <<all[n].results_struct>>])
    IN Append(AddDependency(own \o call \o ret, key),
              Section(<<key>>, {<<"definition", <<serv>>>>}))

\* generate_sync_server and generate_async_server: what the signatures need.
generate_server(serv, type) ==
    << Section(<<<<type, <<serv>>>>>>,
               member_keys(OwnTypes(serv)) \union {<<"definition", <<serv>>>>}) >>

generate_service_descriptor(serv) ==
    << Section(<<<<"service_descriptor", <<serv>>>>>>,
               {<<"definition", s>> : s \in Range(Unions(serv)) \union {<<serv>>}}) >>

\* Clients that pass calls on in memory wait for the server class only.
generate_zerocopy_stubs(serv) ==
    << Section(<<<<"zerocopy_stub", <<serv>>>>>>, {<<"sync_server", <<serv>>>>}),
       Section(<<<<"async_zerocopy_stub", <<serv>>>>>>, {<<"async_server", <<serv>>>>}) >>

\* Clients that serialise calls use the wire types.
generate_stubs(serv) ==
    LET wire == {<<"wire_types", <<serv>>>>} \union
                {<<"definition", u>> : u \in Range(Unions(serv))}
    IN << Section(<<<<"stub", <<serv>>>>>>, {<<"sync_server", <<serv>>>>} \union wire),
          Section(<<<<"async_stub", <<serv>>>>>>, {<<"async_server", <<serv>>>>} \union wire) >>

service_gen(serv) ==
    << Section(<<<<"definition", <<serv>>>>>>, {}) >>
    \o generate_wire_types(serv)
    \o generate_server(serv, "sync_server") \o generate_server(serv, "async_server")
    \o generate_service_descriptor(serv)
    \o generate_zerocopy_stubs(serv) \o generate_stubs(serv)

service_calls(serv) ==
    LET procs == iface.decl[serv].procedures IN
    FlattenSeq([n \in DOMAIN procs |->
        member_calls(Members(<<procs[n].params_struct>>)) \o
        member_calls(Members(<<procs[n].results_struct>>))])
    \o member_calls(OwnTypes(serv))
=============================================================================
