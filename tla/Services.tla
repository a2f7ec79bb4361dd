------------------------------ MODULE Services ------------------------------
(***************************************************************************)
(* Services and what is made of them on demand (src/include/lidl/          *)
(* service.hpp, union.hpp, src/src/service.cpp, union.cpp), with the       *)
(* scopes it is put in (src/include/lidl/scope.hpp, src/src/scope.cpp).    *)
(*                                                                         *)
(* Services are loaded first.  Then the back ends ask for the unions of a  *)
(* service, in an order that nothing fixes: that makes the structures of   *)
(* its procedures, those it inherits included, and defines each in the     *)
(* scope of the service that has the procedure.  A scope is the sequence   *)
(* of its slots; a handle is a scope and a number in it.                   *)
(***************************************************************************)
EXTENDS Integers, Sequences, FiniteSets

CONSTANTS Services,
          ProcNames,  \* the names procedures may have
          NameOf,     \* for each union the names of the structures it is made of
          MaxProcs    \* bound: procedures in all

Unions == {"call_union", "return_union"}

\* A name with "_params" or "_results" behind it: never the same for two names, nor that
\* of a union.
ASSUME ServicesAssumption ==
    /\ ProcNames \subseteq STRING
    /\ NameOf \in [Unions -> [ProcNames -> STRING \ Unions]]
    /\ \A v, w \in Unions : \A p, q \in ProcNames :
          NameOf[v][p] = NameOf[w][q] => v = w /\ p = q
    /\ MaxProcs \in Nat

VARIABLES
    inheritance_list, \* service -> its bases from the last one on, and itself
    procedures,       \* service -> the names of its own procedures
    table,            \* service -> the slots of its scope
    structs,          \* procedure -> the number of its structure for each union
    unions,           \* service -> its unions, from when they are begun
    enums,            \* <<service, union>> -> the enumerators of its alternatives
    made,             \* the services without unions_dirty
    current,          \* <<s>> while the unions of s are made
    status
vars == <<inheritance_list, procedures, table, structs, unions, enums, made, current,
          status>>
loaded == <<inheritance_list, procedures>>

----------------------------------------------------------------------------
\* Scopes.

\* A symbol is its kind and what tells it from others of the kind.
forward_decl == <<"forward", <<>>>>
Procedure(r) == <<"procedure", r>>
Struct(r, w) == <<w, r>>
Union(s, w) == <<"union", <<s, w>>>>
Member(i) == <<"member", i>>
Alternatives == <<"alternatives", <<>>>>

Symbols == ({"forward", "alternatives"} \X {<<>>})
           \cup (({"procedure"} \cup Unions) \X (Services \X Nat))
           \cup ({"union"} \X (Services \X Unions))
           \cup ({"member"} \X Nat)

\* The slots of a name: at most one.
name_lookup(scope, name) == {i \in DOMAIN scope : scope[i].name = name}

is_defined(scope, i) == scope[i].def # forward_decl

\* Where a symbol is defined first.
definition_lookup(scope, def) ==
    {i \in DOMAIN scope : /\ scope[i].def = def
                          /\ \A j \in 1 .. i - 1 : scope[j].def # def}

declare(scope, name) == Append(scope, [name |-> name, def |-> forward_decl])

\* Mutant of Redefines: a name that is only declared counts as defined.
RedefinesDeclared(scope, name) == name_lookup(scope, name) # {}

\* define throws for a name that is defined.
Redefines(scope, name) == \E i \in name_lookup(scope, name) : is_defined(scope, i)

\* Mutants of define: the slot of a declared name is left as it was, or taken out and put
\* behind the others.
defineNewOnly(scope, name, def) ==
    IF name_lookup(scope, name) = {} THEN Append(scope, [name |-> name, def |-> def])
    ELSE scope
defineMoved(scope, name, def) ==
    LET Other(slot) == slot.name # name IN
    Append(SelectSeq(scope, Other), [name |-> name, def |-> def])

define(scope, name, def) ==
    IF name_lookup(scope, name) = {} THEN Append(scope, [name |-> name, def |-> def])
    ELSE [i \in DOMAIN scope |->
            IF scope[i].name = name THEN [name |-> name, def |-> def] ELSE scope[i]]

----------------------------------------------------------------------------
\* Elements.

NewService == declare(declare(<<>>, "call_union"), "return_union")

NewUnion == [scope |-> declare(<<>>, "alternatives"), members |-> <<>>]

\* union_type::add_member: a member is its name, the handle of its type and what it is
\* made for.
add_member(union, name, type, src_info) ==
    [scope |-> define(union.scope, name, Member(Len(union.members) + 1)),
     members |-> Append(union.members,
                        [name |-> name, type |-> type, src_info |-> src_info])]

\* A procedure is its service and its place among the service's own.
ProcName(r) == procedures[r[1]][r[2]]

Position(s, t) == CHOOSE i \in DOMAIN inheritance_list[s] : inheritance_list[s][i] = t

all_procedures(s) ==
    UNION {{<<t, k>> : k \in DOMAIN procedures[t]} :
             t \in {inheritance_list[s][i] : i \in DOMAIN inheritance_list[s]}}

\* Mutant of Before: the list is not reversed, the service comes before its bases.
BeforeBases(s, q, r) ==
    \/ Position(s, q[1]) > Position(s, r[1])
    \/ q[1] = r[1] /\ q[2] < r[2]

\* The order they come in.
Before(s, q, r) ==
    \/ Position(s, q[1]) < Position(s, r[1])
    \/ q[1] = r[1] /\ q[2] < r[2]

\* Those that the unions being made of s have no member for yet, and the next one.
Left(s) ==
    LET members == unions[s]["call_union"].members IN
    all_procedures(s) \ {members[i].src_info : i \in DOMAIN members}

IsNext(s, r) == r \in Left(s) /\ \A q \in Left(s) \ {r} : Before(s, r, q)

----------------------------------------------------------------------------
Init ==
    /\ inheritance_list = [s \in Services |-> <<s>>]
    /\ procedures = [s \in Services |-> <<>>]
    /\ table = [s \in Services |-> NewService]
    /\ structs = <<>>
    /\ unions = <<>>
    /\ enums = <<>>
    /\ made = {}
    /\ current = <<>>
    /\ status = "loading"

\* f, and x where f has no value for k.
With(f, k, x) == [j \in DOMAIN f \cup {k} |-> IF j = k THEN x ELSE f[j]]

----------------------------------------------------------------------------
\* Loading.

\* service::set_base.  A base that leads back is never found the last of: see the README.
SetBase(s, b) ==
    /\ status = "loading"
    /\ inheritance_list[s] = <<s>> /\ procedures[s] = <<>>
    /\ \A i \in DOMAIN inheritance_list[b] : inheritance_list[b][i] # s
    /\ inheritance_list' =
          [t \in Services |->
             IF inheritance_list[t][1] = s
             THEN inheritance_list[b] \o inheritance_list[t] ELSE inheritance_list[t]]
    /\ UNCHANGED <<procedures, table, structs, unions, enums, made, current, status>>

Refuse(how) ==
    /\ status' = how
    /\ UNCHANGED <<loaded, table, structs, unions, enums, made, current>>

Counted == UNION {{<<s, k>> : k \in DOMAIN procedures[s]} : s \in Services}

\* service::add_procedure: unions_dirty holds while services are loaded.
AddProcedure(s, name) ==
    /\ status = "loading" /\ Cardinality(Counted) < MaxProcs
    /\ IF Redefines(table[s], name) THEN Refuse("not_loaded")
       ELSE /\ procedures' = [procedures EXCEPT ![s] = Append(@, name)]
            /\ table' = [table EXCEPT ![s] =
                            define(@, name, Procedure(<<s, Len(procedures[s]) + 1>>))]
            /\ UNCHANGED <<inheritance_list, structs, unions, enums, made, current, status>>

Loaded ==
    /\ status = "loading"
    /\ status' = "generating"
    /\ UNCHANGED <<loaded, table, structs, unions, enums, made, current>>

----------------------------------------------------------------------------
\* generate_unions_if_dirty.

BeginUnions(s) ==
    /\ status = "generating" /\ current = <<>> /\ s \notin made
    /\ unions' = With(unions, s, [w \in Unions |-> NewUnion])
    /\ current' = <<s>>
    /\ UNCHANGED <<loaded, table, structs, enums, made, status>>

\* generate_structs_if_dirty, where the next procedure has none: both are defined, the
\* second in the scope that has the first.
MakeStructs(r) ==
    LET name == ProcName(r)
        s == r[1]
        first == define(table[s], NameOf["call_union"][name], Struct(r, "call_union"))
        both == define(first, NameOf["return_union"][name], Struct(r, "return_union"))
    IN  /\ IsNext(current[1], r) /\ r \notin DOMAIN structs
        /\ IF \/ Redefines(table[s], NameOf["call_union"][name])
              \/ Redefines(first, NameOf["return_union"][name])
           THEN Refuse("clash")
           ELSE /\ table' = [table EXCEPT ![s] = both]
                /\ structs' = With(structs, r,
                      [w \in Unions |-> CHOOSE i \in name_lookup(both, NameOf[w][name]) : TRUE])
                /\ UNCHANGED <<loaded, unions, enums, made, current, status>>

\* The next procedure has its structures: each union gets a member for one.
AddMembers(r) ==
    LET s == current[1]
        name == ProcName(r)
    IN  /\ IsNext(s, r) /\ r \in DOMAIN structs
        /\ IF \E w \in Unions : Redefines(unions[s][w].scope, name)
           THEN Refuse("clash")
           ELSE /\ unions' = [unions EXCEPT ![s] =
                       [w \in Unions |->
                          add_member(@[w], name, [scope |-> r[1], id |-> structs[r][w]], r)]]
                /\ UNCHANGED <<loaded, table, structs, enums, made, current, status>>

EndUnions ==
    LET s == current[1]
        first == define(table[s], "call_union", Union(s, "call_union"))
    IN  /\ Left(s) = {}
        /\ IF Redefines(table[s], "call_union") \/ Redefines(first, "return_union")
           THEN Refuse("clash")
           ELSE /\ table' = [table EXCEPT ![s] =
                                 define(first, "return_union", Union(s, "return_union"))]
                /\ made' = made \cup {s}
                /\ current' = <<>>
                /\ UNCHANGED <<loaded, structs, unions, enums, status>>

Generating == status = "generating" /\ current # <<>>

\* union_type::get_enum of a union that is made, and enum_for_union; what is enumerated
\* is there before "alternatives" is looked at.
GetEnum(s, w) ==
    LET members == unions[s][w].members IN
    /\ status = "generating" /\ current = <<>> /\ s \in made
    /\ <<s, w>> \notin DOMAIN enums
    /\ enums' = With(enums, <<s, w>>,
                     [i \in DOMAIN members |-> [name |-> members[i].name, value |-> i - 1]])
    /\ IF Redefines(unions[s][w].scope, "alternatives")
       THEN status' = "no_alternatives" /\ UNCHANGED unions
       ELSE /\ unions' = [unions EXCEPT ![s][w].scope =
                             define(@, "alternatives", Alternatives)]
            /\ UNCHANGED status
    /\ UNCHANGED <<loaded, table, structs, made, current>>

Next ==
    \/ \E s, b \in Services : SetBase(s, b)
    \/ \E s \in Services, name \in ProcNames : AddProcedure(s, name)
    \/ Loaded
    \/ \E s \in Services : BeginUnions(s)
    \/ Generating /\ \E r \in all_procedures(current[1]) : MakeStructs(r)
    \/ Generating /\ \E r \in all_procedures(current[1]) : AddMembers(r)
    \/ Generating /\ EndUnions
    \/ \E s \in Services, w \in Unions : GetEnum(s, w)

Spec == Init /\ [][Next]_vars

----------------------------------------------------------------------------
\* Properties.

IsPrefixOf(p, q) == Len(p) <= Len(q) /\ \A i \in DOMAIN p : p[i] = q[i]

\* A client of a service may call a server of one that extends it (union_caller sends
\* the number of the alternative): the unions of a service begin with the members of
\* the unions of every base, whichever of them are made first, and the enumerators
\* count the procedures in the order of all_procedures.
NumbersExtend ==
    /\ \A s \in made : \A t \in made \cap {inheritance_list[s][i] :
                                             i \in DOMAIN inheritance_list[s]} :
          \A w \in Unions : IsPrefixOf(unions[t][w].members, unions[s][w].members)
    /\ \A s \in made, w \in Unions :
          LET members == unions[s][w].members IN
          /\ {members[i].src_info : i \in DOMAIN members} = all_procedures(s)
          /\ \A i, j \in DOMAIN members :
                i < j => Before(s, members[i].src_info, members[j].src_info)

\* What is kept as a handle and what is looked up by its definition is the same slot
\* (the generators do both, cppgen.cpp:44 and service_gen.cpp:232 against name{handle}):
\* that of the name the symbol was defined under, and of no other symbol.
LookupsAgree ==
    /\ \A r \in DOMAIN structs, w \in Unions :
          LET scope == table[r[1]] IN
          /\ definition_lookup(scope, Struct(r, w)) = {structs[r][w]}
          /\ name_lookup(scope, NameOf[w][ProcName(r)]) = {structs[r][w]}
    /\ \A s \in made, w \in Unions :
          definition_lookup(table[s], Union(s, w)) = name_lookup(table[s], w)
    /\ \A s \in made, w \in Unions :
          \A i \in DOMAIN unions[s][w].members :
             LET m == unions[s][w].members[i] IN
             table[m.type.scope][m.type.id].def = Struct(m.src_info, w)

\* Two of its names meet in one scope.
Clash(s) ==
    \/ \E r, q \in all_procedures(s), w \in Unions :
          r[1] = q[1] /\ ProcName(r) = NameOf[w][ProcName(q)]
    \/ \E r, q \in all_procedures(s) : r # q /\ ProcName(r) = ProcName(q)
    \/ \E k \in DOMAIN procedures[s] : procedures[s][k] \in Unions

NamedAlternatives(s) == \E r \in all_procedures(s) : ProcName(r) = "alternatives"

\* Whether a service can be generated for can be told from its names and those of its
\* bases: it does not depend on what was asked for before ("Can't redefine an existing
\* name!" comes from a lazily made part, long after the service was loaded).
ClashesRefused ==
    /\ \A s \in made : ~Clash(s)
    /\ status = "clash" => Clash(current[1])
    /\ \A e \in DOMAIN enums : status # "no_alternatives" => ~NamedAlternatives(e[1])
    /\ status = "no_alternatives" => \E e \in DOMAIN enums : NamedAlternatives(e[1])

Names == Unions \cup {"alternatives"} \cup ProcNames
         \cup UNION {{NameOf[w][p] : p \in ProcNames} : w \in Unions}

IsScope(scope) ==
    /\ scope \in Seq([name : Names, def : Symbols])
    /\ \A i, j \in DOMAIN scope : scope[i].name = scope[j].name => i = j

\* Scopes are sequences of slots with different names, lists of bases end in the service
\* itself and go on in that of each base.
TypeOK ==
    /\ procedures \in [Services -> Seq(ProcNames)]
    /\ inheritance_list \in [Services -> Seq(Services) \ {<<>>}]
    /\ \A s \in Services :
          LET list == inheritance_list[s] IN
          /\ list[Len(list)] = s
          /\ \A i, j \in DOMAIN list : list[i] = list[j] => i = j
          /\ \A i \in DOMAIN list : inheritance_list[list[i]] = SubSeq(list, 1, i)
    /\ table \in [Services -> Seq([name : Names, def : Symbols])]
    /\ \A s \in Services : IsScope(table[s])
    /\ \A s \in DOMAIN unions, w \in Unions : IsScope(unions[s][w].scope)
    /\ DOMAIN structs \subseteq Counted
    /\ made \subseteq DOMAIN unions /\ DOMAIN unions \subseteq Services
    /\ DOMAIN enums \subseteq made \X Unions
    /\ current \in {<<>>} \cup {<<s>> : s \in DOMAIN unions \ made}
    /\ status \in {"loading", "not_loaded", "generating", "clash", "no_alternatives"}

\* A handle stays good: its slot keeps its name, and its definition once it has one.
SlotsStay ==
    [][\A s \in Services : \A i \in DOMAIN table[s] :
          /\ i \in DOMAIN table'[s]
          /\ table'[s][i].name = table[s][i].name
          /\ is_defined(table[s], i) => table'[s][i] = table[s][i]]_vars
=============================================================================
