------------------------------- MODULE Scopes -------------------------------
(***************************************************************************)
(* Scopes and look-up in them (src/src/scope.cpp, src/include/lidl/        *)
(* scope.hpp), the members an element inherits                             *)
(* (src/include/lidl/inheritance.hpp, enumeration.hpp) and instances of    *)
(* generics (src/src/generics.cpp).                                        *)
(*                                                                         *)
(* A symbol is its path.  A scope is the path it is at, its home, and the  *)
(* names in it; scopes around a place are listed from the innermost.  A    *)
(* loaded element is a record of its kind, name, params, base (<<>> or     *)
(* <<symbol>>) and members; an enumerator has a name, any other member a   *)
(* type too, a procedure also params.                                      *)
(***************************************************************************)
EXTENDS Integers, Sequences, FiniteSets, SequencesExt

Basic == {"u8", "i8", "string", "vector"}

NamesOf(seq) == {seq[i].name : i \in DOMAIN seq}

AScope(home, names) == [home |-> home, names |-> names]

\* What the constructor of an element declares in its scope.
BuiltIn(kind) ==
    CASE kind = "service" -> {"call_union", "return_union"}
      [] kind \in {"union", "generic union"} -> {"alternatives"}
      [] OTHER -> {}

\* The module of a file and what is above it.
Outer(names) == <<AScope(<<>>, names), AScope(<<"lidl">>, Basic)>>

\* The scopes around a member of an element that has the members so far: the type a
\* generic makes is below the generic, whose scope has the parameters.
Around(elem, so_far, names) ==
    IF elem.kind \in {"generic struct", "generic union"}
    THEN <<AScope(<<elem.name, "">>, BuiltIn(elem.kind) \cup so_far),
           AScope(<<elem.name>>, {elem.params[i] : i \in DOMAIN elem.params})>>
         \o Outer(names)
    ELSE <<AScope(<<elem.name>>, BuiltIn(elem.kind) \cup so_far)>> \o Outer(names)

\* The names that can be found in the scope of an element itself.
Inside(elem, so_far) ==
    IF elem.kind \in {"generic struct", "generic union"}
    THEN {elem.params[i] : i \in DOMAIN elem.params}
    ELSE BuiltIn(elem.kind) \cup so_far

\* The first part of a name is looked for from the innermost scope outwards, the others
\* in what it stands for; inside has the names in the elements.  {} for nullopt.
recursive_full_name_lookup(scopes, inside, nm) ==
    LET has == {i \in DOMAIN scopes : nm[1] \in scopes[i].names}
        path == scopes[CHOOSE i \in has : \A j \in has : i <= j].home \o nm
        Names(p) == IF p \in DOMAIN inside THEN inside[p] ELSE {}
        above == Len(path) - Len(nm)
    IN  IF has # {} /\ \A k \in 2 .. Len(nm) :
                          nm[k] \in Names(SubSeq(path, 1, above + k - 1))
        THEN {path} ELSE {}

----------------------------------------------------------------------------
\* The symbol of an element; home is its module where there are several.
SymbolOf(elem) == IF "home" \in DOMAIN elem THEN Append(elem.home, elem.name)
                  ELSE <<elem.name>>

\* The union below a generic extends a union.
BaseKind(kind) == IF kind = "generic union" THEN "union" ELSE kind

\* The elements that are the base of loaded[i].
Bases(loaded, i) ==
    {j \in DOMAIN loaded : /\ loaded[i].base = <<SymbolOf(loaded[j])>>
                           /\ loaded[j].kind = BaseKind(loaded[i].kind)}

\* The elements from the last base to loaded[i] itself, found in as many steps as there are
\* elements; <<>> where a base is not an element of the kind, which is an exception.
inheritance_list(loaded, i) ==
    LET list[n \in 0 .. Len(loaded)] ==
          IF n = 0 THEN <<i>>
          ELSE IF Bases(loaded, list[n - 1][1]) = {} THEN list[n - 1]
          ELSE <<CHOOSE j \in Bases(loaded, list[n - 1][1]) : TRUE>> \o list[n - 1]
        all == list[Len(loaded)]
    IN  IF loaded[all[1]].base = <<>> THEN all ELSE <<>>

\* Mutant of all_members: the inherited members last.
own_first(loaded, i) ==
    LET list == Reverse(inheritance_list(loaded, i)) IN
    FlattenSeq([n \in DOMAIN list |-> loaded[list[n]].members])

\* The members of loaded[i], the inherited ones first.
all_members(loaded, i) ==
    LET list == inheritance_list(loaded, i) IN
    FlattenSeq([n \in DOMAIN list |-> loaded[list[n]].members])

\* define refuses the second of two members with one name.
Redefines(members) == Cardinality(NamesOf(members)) # Len(members)

\* Adding the last enumerators: add_member looks each up in all_members, by whose count
\* it numbers it.
BadEnum(loaded) ==
    LET i == Len(loaded) IN
    /\ loaded[i].members # <<>>
    /\ inheritance_list(loaded, i) = <<>> \/ Redefines(all_members(loaded, i))

----------------------------------------------------------------------------
\* What is still forward_decl in a loaded module: the parameters of generics, and what
\* unions and services declare when they are constructed, but for the elements in made,
\* of which get_enum or generate_unions_if_dirty has defined it, and where a member has
\* the name.  The union below a generic is never asked.
Forward(loaded, made) ==
    UNION {LET elem == loaded[j]
               own == BuiltIn(elem.kind) \ NamesOf(elem.members)
           IN {Append(SymbolOf(elem), p) : p \in Range(elem.params)} \cup
              (IF elem.kind = "generic union"
               THEN {SymbolOf(elem) \o <<"", part>> : part \in own}
               ELSE {Append(SymbolOf(elem), part) : part \in IF j \in made THEN {} ELSE own}) :
           j \in DOMAIN loaded}

\* The type of a member in an instance of loaded[j]: where it is a forward declaration, the
\* argument for the parameter of that local name, whatever it is declared in, which has to
\* be a type.  {} for "shouldn't happen".
Substituted(loaded, j, args, made, type) ==
    LET params == loaded[j].params
        at == {i \in DOMAIN params \cap DOMAIN args :
                 params[i] = Last(type.to) /\ "to" \in DOMAIN args[i]}
    IN  IF type.to \in Forward(loaded, made) THEN {args[i] : i \in at} ELSE {type}

\* The types of the members of an instance of loaded[j], those a union inherits among
\* them; what is below an argument of a member is left as it is.
instantiate(loaded, j, args, made) ==
    LET members == all_members(loaded, j)
        types == [k \in DOMAIN members |-> Substituted(loaded, j, args, made, members[k].type)]
    IN  IF inheritance_list(loaded, j) = <<>> \/ \E k \in DOMAIN types : types[k] = {}
        THEN {}
        ELSE {[k \in DOMAIN types |-> CHOOSE t \in types[k] : TRUE]}
=============================================================================
