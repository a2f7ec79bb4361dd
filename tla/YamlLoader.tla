----------------------------- MODULE YamlLoader -----------------------------
(***************************************************************************)
(* The loader of .yaml files (src/src/yaml.cpp).  The node of an element   *)
(* has its key as name, its type and what that type has: members,          *)
(* variants or procedures are entries, each with its key as name.  A type  *)
(* is a scalar or a map of name and parameters; names are split at their   *)
(* ::, and a parameter that is a number is a name of that one digit.       *)
(***************************************************************************)
EXTENDS Scopes

Digits == {"0", "1", "2"}

Kind(type) == CASE type = "structure" -> "struct"
                [] type = "enumeration" -> "enum"
                [] type = "generic<structure>" -> "generic struct"
                [] type = "generic<union>" -> "generic union"
                [] OTHER -> type

AsElement(node) == [kind |-> Kind(node.type), name |-> node.name,
                    params |-> [n \in DOMAIN node.parameters |-> node.parameters[n].name]]

\* The names in the elements while that of nodes[i] is read: the ones before it are
\* made, the others declared, and nothing is found in those.
DeclaredScopes(nodes, i) ==
    [path \in {<<nodes[j].name>> : j \in 1 .. i - 1} |->
       LET j == CHOOSE n \in 1 .. i - 1 : nodes[n].name = path[1] IN
       Inside(AsElement(nodes[j]), NamesOf(nodes[j].entries))]

\* A parameter is what it names, or else a number; {} where it is neither.
parse_generic_args(scopes, inside, strings) ==
    [i \in DOMAIN strings |->
       LET found == recursive_full_name_lookup(scopes, inside, strings[i]) IN
       IF found # {} THEN {[to |-> p, args |-> <<>>] : p \in found}
       ELSE {[number |-> d] : d \in {e \in Digits : strings[i] = <<e>>}}]

\* {} for an exception.
read_type(scopes, inside, type) ==
    LET args == IF "scalar" \in DOMAIN type THEN <<>>
                ELSE parse_generic_args(scopes, inside, type.parameters)
        base == IF "scalar" \in DOMAIN type THEN type.scalar ELSE type.name
    IN  IF \E i \in DOMAIN args : args[i] = {} THEN {}
        ELSE {[to |-> p, args |-> [i \in DOMAIN args |-> CHOOSE a \in args[i] : TRUE]] :
                p \in recursive_full_name_lookup(scopes, inside, base)}

Surrounding(nodes, i, k) ==
    Around(AsElement(nodes[i]), NamesOf(SubSeq(nodes[i].entries, 1, k - 1)), NamesOf(nodes))

\* Entries, as sets: {} for an exception.

read_member(nodes, i, k) ==
    {[name |-> nodes[i].entries[k].name, type |-> t] :
       t \in read_type(Surrounding(nodes, i, k), DeclaredScopes(nodes, i),
                       nodes[i].entries[k].type)}

parse_procedure(nodes, i, k) ==
    LET proc == nodes[i].entries[k]
        inside == DeclaredScopes(nodes, i)
        Own(n) == AScope(<<nodes[i].name, proc.name>>,
                         NamesOf(SubSeq(proc.parameters, 1, n - 1)))
        params == [n \in DOMAIN proc.parameters |->
                     {[name |-> proc.parameters[n].name, type |-> t] :
                        t \in read_type(<<Own(n)>> \o Surrounding(nodes, i, k), inside,
                                        proc.parameters[n].type)}]
    IN  IF Redefines(proc.parameters) \/ \E n \in DOMAIN params : params[n] = {} THEN {}
        ELSE {[name |-> proc.name, type |-> t,
               params |-> [n \in DOMAIN params |-> CHOOSE p \in params[n] : TRUE]] :
                t \in read_type(<<Own(1)>> \o Surrounding(nodes, i, k), inside, proc.returns)}

read_entries(nodes, i) ==
    [k \in DOMAIN nodes[i].entries |->
       CASE nodes[i].type = "enumeration" -> {[name |-> nodes[i].entries[k].name]}
         [] nodes[i].type = "service" -> parse_procedure(nodes, i, k)
         [] OTHER -> read_member(nodes, i, k)]

\* "extends" of all but structures.
read_base(nodes, i) ==
    IF nodes[i].extends = <<>> THEN {<<>>}
    ELSE {<<t.to>> : t \in read_type(Surrounding(nodes, i, 1), DeclaredScopes(nodes, i),
                                     nodes[i].extends[1])}

\* The elements read before the first that cannot be.
RECURSIVE read_nodes(_, _)
read_nodes(nodes, loaded) ==
    LET i == Len(loaded) + 1
        elem == AsElement(nodes[i])
        bases == read_base(nodes, i)
        entries == read_entries(nodes, i)
        next == Append(loaded, [kind |-> elem.kind, name |-> elem.name,
                                params |-> elem.params,
                                base |-> CHOOSE b \in bases : TRUE,
                                members |-> [k \in DOMAIN entries |->
                                               CHOOSE m \in entries[k] : TRUE]])
    IN  IF i > Len(nodes) THEN [status |-> "loaded", elements |-> loaded]
        ELSE IF bases = {} \/ \E k \in DOMAIN entries : entries[k] = {}
                           \/ Redefines(nodes[i].entries)
                           \/ (elem.kind = "enum" /\ BadEnum(next))
             THEN [status |-> "stopped", elements |-> loaded]
        ELSE read_nodes(nodes, next)
=============================================================================
