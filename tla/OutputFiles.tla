---------------------------- MODULE OutputFiles ----------------------------
(***************************************************************************)
(* What the back ends write for loaded elements: Python and JavaScript     *)
(* (src/src/pygen, src/src/jsgen), the names in C++                        *)
(* (src/src/cppgen/get_identifier.cpp), and the structures and unions a    *)
(* service makes of its procedures when they are asked for                 *)
(* (src/src/service.cpp).                                                  *)
(*                                                                         *)
(* A loaded element is that of Scopes with its module as home.  A Python   *)
(* file is the modules it imports and then its classes, each with the      *)
(* dotted names that are looked up when its body runs.  Those of lidlrt    *)
(* are left out: every file imports it.                                    *)
(***************************************************************************)
EXTENDS Scopes

ServiceUnions == {"call_union", "return_union"}

\* How deep the arguments of a type nest, at most.
MaxNesting == 2

\* What a type has for UserParts: its symbol, and its arguments, which have symbols too.
IsType(type) ==
    /\ type.to \in Seq(STRING)
    /\ type.args \in Seq(Range(type.args))
    /\ \A arg \in Range(type.args) : arg.to \in Seq(STRING)

\* A part of a type, followed by its arguments unless they follow already; sized is where
\* lidlrt.Array asks for the size at once.
Opened(part) ==
    IF part.opened THEN <<part>>
    ELSE <<[part EXCEPT !.opened = TRUE]>>
         \o [i \in DOMAIN part.type.args |-> [type |-> part.type.args[i], opened |-> FALSE,
                                             sized |-> part.type.to = <<"array">>]]

\* The user's symbols in a type, from left to right.
UserParts(type) ==
    LET parts[n \in 0 .. MaxNesting] ==
          IF n = 0 THEN <<[type |-> type, opened |-> FALSE, sized |-> FALSE]>>
          ELSE FlattenSeq([k \in DOMAIN parts[n - 1] |-> Opened(parts[n - 1][k])])
        all == parts[MaxNesting]
    IN  FlattenSeq([k \in DOMAIN all |->
                      IF Len(all[k].type.to) = 1 THEN <<>>
                      ELSE <<[symbol |-> all[k].type.to, sized |-> all[k].sized]>>])

SymbolsIn(type) == {part.symbol : part \in Range(UserParts(type))}

\* The element a symbol is, or is in.
Owner(loaded, symbol) ==
    CHOOSE j \in DOMAIN loaded : IsPrefix(SymbolOf(loaded[j]), symbol)

IsInstance(loaded, type) ==
    \E s \in SymbolsIn(type) :
       loaded[Owner(loaded, s)].kind \in {"generic struct", "generic union"}

----------------------------------------------------------------------------
\* Services.

ProcTypes(proc) == {proc.params[n].type : n \in DOMAIN proc.params} \cup {proc.type}

\* The services whose unions a type is made of.  Until they are made, what is found in
\* their place is forward_decl, of which there is no wire type.
UnionsOf(type) ==
    {Front(s) : s \in {symbol \in SymbolsIn(type) : Last(symbol) \in ServiceUnions}}

\* procedure::generate_structs_if_dirty defines two names next to those of the procedures.
Clash(procs) ==
    \E f, g \in NamesOf(procs) : g \in {f \o "_params", f \o "_results"}

\* Whether the unions of loaded[i] can be made when those of the services in made are:
\* the structures of every procedure, inherited ones first.
generate_unions(loaded, i, made) ==
    \A j \in Range(inheritance_list(loaded, i)) :
       /\ ~Clash(loaded[j].members)
       /\ \A k \in DOMAIN loaded[j].members : \A t \in ProcTypes(loaded[j].members[k]) :
             UnionsOf(t) \subseteq made

----------------------------------------------------------------------------
\* Numbers of enumerators and alternatives.

\* add_member numbers a member by those that are there, the ones of the bases included.
Numbered(loaded, i) ==
    LET list == inheritance_list(loaded, i)
        Before(n) == Len(all_members(loaded, list[n])) - Len(loaded[list[n]].members)
    IN  FlattenSeq([n \in DOMAIN list |->
           [k \in DOMAIN loaded[list[n]].members |->
              [name |-> loaded[list[n]].members[k].name, value |-> Before(n) + k - 1]]])

\* The procedures of a service in order, inherited ones first: <<j, k>> for the k-th of
\* loaded[j].
all_procedures(loaded, i) ==
    LET list == inheritance_list(loaded, i) IN
    FlattenSeq([n \in DOMAIN list |->
       [k \in DOMAIN loaded[list[n]].members |-> <<list[n], k>>]])

\* The place of a procedure among those of the service loaded[i].
proc_index(loaded, i, proc) ==
    LET all == all_procedures(loaded, i) IN
    (CHOOSE n \in DOMAIN all : all[n] = proc) - 1

----------------------------------------------------------------------------
\* Python.

File(imports, classes, elems) ==
    [imports |-> imports, classes |-> classes, elems |-> elems]

Class(name, uses) == [name |-> name, uses |-> uses]

\* The file of an element is a Python module with a class of its name.
get_identifier(loaded, symbol) ==
    LET n == Len(loaded[Owner(loaded, symbol)].home) + 1 IN
    SubSeq(symbol, 1, n) \o SubSeq(symbol, n, Len(symbol))

\* An element next to the one it is used in is named by their parent's last name and
\* its own.
get_local_identifier(loaded, who, symbol) ==
    IF Front(symbol) = Front(who) THEN <<Last(Front(symbol)), Last(symbol)>>
    ELSE get_identifier(loaded, symbol)

\* The name of a symbol where who uses it.
Use(loaded, who, symbol, sized) ==
    [path |-> get_local_identifier(loaded, who, symbol), sized |-> sized, symbol |-> symbol]

\* The names a type is spelled with.
Spelled(loaded, who, type) ==
    {Use(loaded, who, part.symbol, part.sized) : part \in Range(UserParts(type))}

generate_members(loaded, who, types) ==
    UNION {Spelled(loaded, who, types[i]) : i \in DOMAIN types}

TypesOf(members) == [k \in DOMAIN members |-> members[k].type]

import_string(loaded, symbol) == SymbolOf(loaded[Owner(loaded, symbol)])

\* Mutant of Imports: only what stands outermost in a type is imported.
ImportsOfBases(loaded, types) ==
    LET user == SelectSeq(types, LAMBDA t : Len(t.to) > 1) IN
    [i \in DOMAIN user |-> import_string(loaded, user[i].to)]

\* One for each of the keys the section depends on.
Imports(loaded, types) ==
    LET parts == FlattenSeq([i \in DOMAIN types |-> UserParts(types[i])]) IN
    [i \in DOMAIN parts |-> import_string(loaded, parts[i].symbol)]

enum_file(loaded, i) ==
    File(<<>>, <<Class(<<loaded[i].name>>, {})>>, Numbered(loaded, i))

struct_file(loaded, i) ==
    LET types == TypesOf(loaded[i].members) IN
    File(Imports(loaded, types),
         <<Class(<<loaded[i].name>>, generate_members(loaded, SymbolOf(loaded[i]), types))>>,
         <<>>)

union_file(loaded, i) ==
    LET types == TypesOf(all_members(loaded, i)) IN
    File(Imports(loaded, types),
         <<Class(<<loaded[i].name>>, generate_members(loaded, SymbolOf(loaded[i]), types))>>,
         Numbered(loaded, i))

\* The structures of a procedure, as the classes of its service.
proc_classes(loaded, i, proc) ==
    LET Made(suffix, types) ==
          Class(<<loaded[i].name, proc.name \o suffix>>,
                generate_members(loaded, SymbolOf(loaded[i]) \o <<proc.name \o suffix>>, types))
    IN  <<Made("_params", TypesOf(proc.params)), Made("_results", <<proc.type>>)>>

\* One of the unions of a service: its alternatives are the structures of all procedures.
union_class(loaded, i, union, suffix) ==
    LET Structs(j) == {SymbolOf(loaded[j]) \o <<loaded[j].members[k].name \o suffix>> :
                         k \in DOMAIN loaded[j].members}
        structs == UNION {Structs(j) : j \in Range(inheritance_list(loaded, i))}
    IN  Class(<<loaded[i].name, union>>,
              {Use(loaded, SymbolOf(loaded[i]) \o <<union>>, s, FALSE) : s \in structs})

\* The sections of the classes have their dependencies, the section that is written of
\* the service has none.
service_file(loaded, i) ==
    LET procs == loaded[i].members IN
    File(<<>>,
         <<Class(<<loaded[i].name>>, {})>>
         \o FlattenSeq([k \in DOMAIN procs |-> proc_classes(loaded, i, procs[k])])
         \o <<union_class(loaded, i, "call_union", "_params"),
              union_class(loaded, i, "return_union", "_results")>>,
         Numbered(loaded, i))

PythonFile(loaded, i) ==
    CASE loaded[i].kind = "service" -> service_file(loaded, i)
      [] loaded[i].kind = "enum" -> enum_file(loaded, i)
      [] loaded[i].kind = "struct" -> struct_file(loaded, i)
      [] OTHER -> union_file(loaded, i)

\* What is written when import_string finds no symbol for an instance of a generic.
CutFile(loaded, types) ==
    LET n == CHOOSE k \in DOMAIN types : IsInstance(loaded, types[k]) IN
    File(Imports(loaded, SubSeq(types, 1, n)), <<>>, <<>>)

\* The order of backend::generate.
OfKind(loaded, home, kind) ==
    FlattenSeq([i \in DOMAIN loaded |->
                  IF loaded[i].home = home /\ loaded[i].kind = kind THEN <<i>> ELSE <<>>])

InOrder(loaded, home, kinds) ==
    FlattenSeq([n \in DOMAIN kinds |-> OfKind(loaded, home, kinds[n])])

\* The types that are looked at for the file of an element.
TypesUsed(loaded, i) ==
    CASE loaded[i].kind = "union" -> TypesOf(all_members(loaded, i))
      [] loaded[i].kind = "struct" -> TypesOf(loaded[i].members)
      [] OTHER -> <<>>

\* A back end that made the unions in made does not get past element i, whatever it
\* writes.
Unmade(loaded, i, made) ==
    IF loaded[i].kind = "service" THEN ~generate_unions(loaded, i, made)
    ELSE \E t \in Range(TypesUsed(loaded, i)) : ~(UnionsOf(t) \subseteq made)

\* Mutant of Stops: the unions of services are taken to be there.
StopsAtInstances(loaded, i, made) ==
    \E t \in Range(TypesUsed(loaded, i)) : IsInstance(loaded, t)

\* The Python back end does not get past it.
Stops(loaded, i, made) ==
    \/ Unmade(loaded, i, made)
    \/ \E t \in Range(TypesUsed(loaded, i)) : IsInstance(loaded, t)

----------------------------------------------------------------------------
\* JavaScript: all that is written of a module is in one file, where an element has its
\* own name and not its module's.  What a file defines and refers to is names.

js_file(defines, refers) == [defines |-> defines, refers |-> refers]

\* A type object is made of those of the arguments; in a signature these are dropped.
get_local_type_name(type) == {Last(s) \o "Class" : s \in SymbolsIn(type)}
get_local_user_obj_name(type) == IF Len(type.to) > 1 THEN {Last(type.to)} ELSE {}

js_members(types) == UNION {get_local_type_name(types[k]) : k \in DOMAIN types}
js_ctor(types) == UNION {get_local_user_obj_name(types[k]) : k \in DOMAIN types}

js_enum(name) ==
    js_file({name, name \o "Class", name \o "Enum"}, {name \o "Enum", name \o "Class"})

js_struct(loaded, i) ==
    LET types == TypesUsed(loaded, i) IN
    js_file({loaded[i].name, loaded[i].name \o "Class"}, js_members(types) \cup js_ctor(types))

\* An enumeration of its own is written with a union, for the discriminator.
js_union(loaded, i) ==
    LET name == loaded[i].name
        types == TypesUsed(loaded, i)
        variants == js_enum(name \o "Variants")
    IN  js_file({name, name \o "Class"} \cup variants.defines,
                variants.refers \cup js_members(types) \cup js_ctor(types))

\* enum_gen takes the enumeration's own members.
js_elems(loaded, i) ==
    LET all == Numbered(loaded, i) IN
    SubSeq(all, Len(all) - Len(loaded[i].members) + 1, Len(all))

js_part(loaded, i) ==
    CASE loaded[i].kind = "struct" -> js_struct(loaded, i)
      [] loaded[i].kind = "enum" -> js_enum(loaded[i].name)
      [] OTHER -> js_union(loaded, i)

JsFile(loaded, home) ==
    LET mine == Range(InOrder(loaded, home, <<"struct", "enum", "union">>)) IN
    [defines |-> UNION {js_part(loaded, i).defines : i \in mine},
     refers |-> UNION {js_part(loaded, i).refers : i \in mine},
     elems |-> [i \in {j \in mine : loaded[j].kind \in {"enum", "union"}} |->
                  js_elems(loaded, i)]]

----------------------------------------------------------------------------
\* C++: what a symbol is called, in the file that defines it and in those that use it.

ProcStructs(service) ==
    UNION {{SymbolOf(service) \o <<service.members[k].name \o suffix>> :
              suffix \in {"_params", "_results"}} : k \in DOMAIN service.members}

UnionSymbols(service) == {SymbolOf(service) \o <<union>> : union \in ServiceUnions}

\* The class of each of these is written inside wire_types of its service.
generate_wire_types(service) ==
    {[symbol |-> s, name |-> Front(s) \o <<"wire_types", Last(s)>>] :
       s \in UnionSymbols(service) \cup ProcStructs(service)}

\* Mutant of rename: the structures keep their names.
rename_unions(service) == UnionSymbols(service)

\* The symbols that get another name when the file of the service's module is generated.
rename(service) == UnionSymbols(service) \cup ProcStructs(service)

cpp_identifier(symbol, renamed) ==
    IF symbol \in renamed THEN Front(symbol) \o <<"wire_types", Last(symbol)>> ELSE symbol

\* The symbols in the text of an element; of a service also the class it derives from and
\* the alternatives of its unions.
cpp_refers(loaded, i) ==
    CASE loaded[i].kind = "service" ->
            UNION ({Range(loaded[i].base)}
                   \cup {SymbolsIn(t) : t \in UNION {ProcTypes(loaded[i].members[k]) :
                                                     k \in DOMAIN loaded[i].members}}
                   \cup {ProcStructs(loaded[j]) : j \in Range(inheritance_list(loaded, i))})
      [] loaded[i].kind \in {"struct", "union"} ->
            UNION {SymbolsIn(t) : t \in Range(TypesUsed(loaded, i))}
      [] OTHER -> {}

\* The numbers with which the stubs of a service call its procedures.
cpp_elems(loaded, i) ==
    LET procs == all_procedures(loaded, i) IN
    [n \in DOMAIN procs |->
       [name  |-> loaded[procs[n][1]].members[procs[n][2]].name,
        value |-> proc_index(loaded, i, procs[n])]]

\* The symbols of the modules below, whose text is thrown away, have been renamed too.
CppFile(loaded, home, below) ==
    LET In(homes) == {i \in DOMAIN loaded : loaded[i].home \in homes}
        Services(homes) == {i \in In(homes) : loaded[i].kind = "service"}
        renamed == UNION {rename(loaded[i]) : i \in Services({home} \cup below)}
    IN  [defines |-> {[symbol |-> SymbolOf(loaded[i]), name |-> SymbolOf(loaded[i])] :
                        i \in In({home})}
                     \cup UNION {generate_wire_types(loaded[i]) : i \in Services({home})},
         refers |-> {[symbol |-> s, name |-> cpp_identifier(s, renamed)] :
                       s \in UNION {cpp_refers(loaded, i) : i \in In({home})}},
         elems |-> [i \in Services({home}) |-> cpp_elems(loaded, i)]]
=============================================================================
