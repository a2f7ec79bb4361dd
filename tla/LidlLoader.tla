----------------------------- MODULE LidlLoader -----------------------------
(***************************************************************************)
(* The passes of the loader of .lidl files (src/src/frontend/loader.cpp)   *)
(* over the elements of a syntax tree (see LidlSyntax).                    *)
(***************************************************************************)
EXTENDS Scopes

\* The names in the elements while element i is defined and has so_far: declare_pass
\* has made them all, define_pass has come to i.
MadeScopes(elements, i, so_far) ==
    [path \in {<<name>> : name \in NamesOf(elements)} |->
       LET j == CHOOSE n \in DOMAIN elements : elements[n].name = path[1] IN
       IF j > i THEN IF elements[j].kind \in {"generic struct", "generic union"} THEN {}
                     ELSE BuiltIn(elements[j].kind)
       ELSE Inside(elements[j], IF j < i THEN NamesOf(elements[j].members) ELSE so_far)]

\* A name and its arguments; {} where one of them is unknown.
RECURSIVE parse(_, _, _)
parse(scopes, inside, name) ==
    LET to == recursive_full_name_lookup(scopes, inside, name.base)
        Arg(a) == IF "number" \in DOMAIN a THEN {a} ELSE parse(scopes, inside, a)
        args == [i \in DOMAIN name.args |-> Arg(name.args[i])]
    IN  IF \E i \in DOMAIN args : args[i] = {} THEN {}
        ELSE {[to |-> p, args |-> [i \in DOMAIN args |-> CHOOSE a \in args[i] : TRUE]] :
                p \in to}

\* Members, as sets: {} for one that ends the process.

parse_member_type(elements, i, k) ==
    LET elem == elements[i]
        so_far == NamesOf(SubSeq(elem.members, 1, k - 1))
    IN  {[name |-> elem.members[k].name, type |-> t] :
           t \in parse(Around(elem, so_far, NamesOf(elements)),
                       MadeScopes(elements, i, so_far), elem.members[k].type)}

\* The result of a procedure is read before its parameters; these are in its scope.
parse_proc(elements, i, k) ==
    LET elem == elements[i]
        proc == elem.members[k]
        so_far == NamesOf(SubSeq(elem.members, 1, k - 1))
        inside == MadeScopes(elements, i, so_far)
        scopes == Around(elem, so_far, NamesOf(elements))
        Own(n) == AScope(<<elem.name, proc.name>>, NamesOf(SubSeq(proc.params, 1, n - 1)))
        params == [n \in DOMAIN proc.params |->
                     {[name |-> proc.params[n].name, type |-> t] :
                        t \in parse(<<Own(n)>> \o scopes, inside, proc.params[n].type)}]
    IN  IF Redefines(proc.params) \/ \E n \in DOMAIN params : params[n] = {} THEN {}
        ELSE {[name |-> proc.name, type |-> t,
               params |-> [n \in DOMAIN params |-> CHOOSE p \in params[n] : TRUE]] :
                t \in parse(<<Own(1)>> \o scopes, inside, proc.type)}

\* Of an enumerator the value is not used.
parse_members(elements, i) ==
    [k \in DOMAIN elements[i].members |->
       CASE elements[i].kind = "enum" -> {[name |-> elements[i].members[k].name]}
         [] elements[i].kind = "service" -> parse_proc(elements, i, k)
         [] OTHER -> parse_member_type(elements, i, k)]

\* Only that of a service is used: the parser reads one of a union, an enumeration and
\* a structure, and the loader does nothing with it.
parse_base(elements, i) ==
    LET elem == elements[i] IN
    IF elem.extends = <<>> \/ elem.kind # "service" THEN {<<>>}
    ELSE {<<t.to>> : t \in parse(Around(elem, {}, NamesOf(elements)),
                                 MadeScopes(elements, i, {}), elem.extends[1])}

Done(elements, loaded) == Len(loaded) = Len(elements)

\* The elements defined before the first that cannot be, and how it ended.
RECURSIVE define_pass(_, _)
define_pass(elements, loaded) ==
    LET i == Len(loaded) + 1
        elem == elements[i]
        bases == parse_base(elements, i)
        members == parse_members(elements, i)
        next == Append(loaded, [kind |-> elem.kind, name |-> elem.name,
                                params |-> elem.params,
                                base |-> CHOOSE b \in bases : TRUE,
                                members |-> [k \in DOMAIN members |->
                                               CHOOSE m \in members[k] : TRUE]])
    IN  IF Done(elements, loaded) THEN [status |-> "loaded", elements |-> loaded]
        ELSE IF bases = {} \/ \E k \in DOMAIN members : members[k] = {}
                           \/ Redefines(elem.members)
             THEN [status |-> "stopped", elements |-> loaded]
        ELSE define_pass(elements, next)
=============================================================================
