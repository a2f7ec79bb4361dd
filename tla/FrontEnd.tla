------------------------------ MODULE FrontEnd ------------------------------
(***************************************************************************)
(* From a schema to the elements of a module: someone writes the elements  *)
(* of a file, in the two notations lidl takes; the .lidl file may be       *)
(* damaged before it is read.  LidlSyntax has its lexer and parser,        *)
(* LidlLoader and YamlLoader the loaders, Scopes what both of them use and *)
(* the instances that are made of loaded generics.                         *)
(***************************************************************************)
EXTENDS LidlSyntax, LidlLoader

CONSTANTS
    Heads,        \* [namespace, imports] of the files
    Catalogue,    \* elements a file may have
    MaxElements,  \* a bound on the elements of a file
    MaxDamaged,   \* and on the imports and elements of one that is damaged
    Pieces        \* lexemes that get into a file by mistake

VARIABLES
    file,    \* the module as it is meant
    source,  \* the .lidl file
    damage,  \* where it differs from what was meant: 0 for nowhere
    parsed,  \* what parse_module returned
    lidl,    \* what the loader made of that
    yaml,    \* what the other loader made of the .yaml file
    stage

vars == <<file, source, damage, parsed, lidl, yaml, stage>>

Nothing == [status |-> "none"]

----------------------------------------------------------------------------
\* How a module is written down.

Joined(parts, sep) ==
    FlattenSeq([i \in DOMAIN parts |->
                  IF i < Len(parts) THEN parts[i] \o sep ELSE parts[i]])

QualifiedText(name) == Joined([i \in DOMAIN name |-> <<name[i]>>], <<"::">>)

RECURSIVE NameText(_)
NameText(name) ==
    LET Arg(a) == IF "number" \in DOMAIN a THEN <<a.number>> ELSE NameText(a)
        args == Joined([i \in DOMAIN name.args |-> Arg(name.args[i])], <<",">>)
    IN  QualifiedText(name.base) \o IF name.args = <<>> THEN <<>>
                                    ELSE <<"<">> \o args \o <<">">>

TypedText(m) == <<m.name, ":">> \o NameText(m.type)

MemberText(kind, m) ==
    CASE kind = "enum" -> <<m.name>> \o IF m.value = "" THEN <<>> ELSE <<"=", m.value>>
      [] kind = "service" ->
            <<m.name, "(">>
            \o Joined([i \in DOMAIN m.params |-> TypedText(m.params[i])], <<",">>)
            \o <<")", "->">> \o NameText(m.type)
      [] OTHER -> TypedText(m)

Keyword(kind) == CASE kind = "generic struct" -> "struct"
                   [] kind = "generic union" -> "union"
                   [] OTHER -> kind

\* With a separator after the last member, or without.
ElementText(elem, trailing) ==
    LET sep == IF elem.kind = "enum" THEN <<",">> ELSE <<";">>
        params == Joined([i \in DOMAIN elem.params |-> <<elem.params[i]>>], <<",">>)
        members == [i \in DOMAIN elem.members |-> MemberText(elem.kind, elem.members[i])]
    IN  <<Keyword(elem.kind)>>
        \o (IF elem.params = <<>> THEN <<>> ELSE <<"<">> \o params \o <<">">>)
        \o <<elem.name>>
        \o (IF elem.extends = <<>> THEN <<>> ELSE <<":">> \o NameText(elem.extends[1]))
        \o <<"{">> \o Joined(members, sep)
        \o (IF trailing /\ members # <<>> THEN sep ELSE <<>>) \o <<"}">>

Texts(m, trailing) ==
    (IF m.namespace = <<>> THEN <<>>
     ELSE <<"namespace">> \o QualifiedText(m.namespace) \o <<";">>)
    \o Joined([i \in DOMAIN m.imports |-> <<"import", m.imports[i], ";">>], <<>>)
    \o Joined([i \in DOMAIN m.elements |-> ElementText(m.elements[i], trailing)], <<>>)

\* The .yaml notation has strings for arguments and no bases of structures.
InYaml(elem) ==
    /\ elem.kind \in {"struct", "generic struct"} => elem.extends = <<>>
    /\ elem.kind # "enum" =>
          \A i \in DOMAIN elem.members : \A n \in DOMAIN elem.members[i].type.args :
             LET arg == elem.members[i].type.args[n] IN
             "args" \in DOMAIN arg => arg.args = <<>>

TypeNode(type) ==
    IF type.args = <<>> THEN [scalar |-> type.base]
    ELSE [name |-> type.base,
          parameters |-> [i \in DOMAIN type.args |->
             IF "number" \in DOMAIN type.args[i] THEN <<type.args[i].number>>
             ELSE type.args[i].base]]

TypedNodes(members) ==
    [k \in DOMAIN members |-> [name |-> members[k].name, type |-> TypeNode(members[k].type)]]

Node(elem) ==
    [name |-> elem.name,
     type |-> CASE elem.kind = "struct" -> "structure"
                [] elem.kind = "enum" -> "enumeration"
                [] elem.kind = "generic struct" -> "generic<structure>"
                [] elem.kind = "generic union" -> "generic<union>"
                [] OTHER -> elem.kind,
     parameters |-> [i \in DOMAIN elem.params |-> [name |-> elem.params[i], type |-> "type"]],
     extends |-> [i \in DOMAIN elem.extends |-> TypeNode(elem.extends[i])],
     entries |-> CASE elem.kind = "enum" ->
                        [k \in DOMAIN elem.members |-> [name |-> elem.members[k].name]]
                   [] elem.kind = "service" ->
                        [k \in DOMAIN elem.members |->
                           [name |-> elem.members[k].name,
                            returns |-> TypeNode(elem.members[k].type),
                            parameters |-> TypedNodes(elem.members[k].params)]]
                   [] OTHER -> TypedNodes(elem.members)]

Yaml == INSTANCE YamlLoader

----------------------------------------------------------------------------
Init == /\ \E head \in Heads :
              file = [namespace |-> head.namespace, imports |-> head.imports,
                      elements |-> <<>>]
        /\ source = <<>>
        /\ damage = 0
        /\ parsed = Nothing
        /\ lidl = Nothing
        /\ yaml = Nothing
        /\ stage = "writing"

Add(elem) ==
    /\ stage = "writing"
    /\ Len(file.elements) < MaxElements
    /\ elem.name \notin NamesOf(file.elements)
    /\ file' = [file EXCEPT !.elements = Append(@, elem)]
    /\ UNCHANGED <<source, damage, parsed, lidl, yaml, stage>>

Write(trailing) ==
    /\ stage = "writing"
    /\ source' = Texts(file, trailing)
    /\ stage' = "written"
    /\ UNCHANGED <<file, damage, parsed, lidl, yaml>>

Damageable == /\ stage = "written"
              /\ damage = 0
              /\ Len(file.imports) + Len(file.elements) <= MaxDamaged

Lose(i) ==
    /\ Damageable
    /\ source' = SubSeq(source, 1, i - 1) \o SubSeq(source, i + 1, Len(source))
    /\ damage' = i
    /\ UNCHANGED <<file, parsed, lidl, yaml, stage>>

Slip(i, piece) ==
    /\ Damageable
    /\ source' = SubSeq(source, 1, i - 1) \o <<piece>> \o SubSeq(source, i, Len(source))
    /\ damage' = i
    /\ UNCHANGED <<file, parsed, lidl, yaml, stage>>

\* The lexer reads m_last.type before anything is stored there: where it happens to be
\* that of eof there are no tokens.
Parse ==
    /\ stage = "written"
    /\ \/ /\ LexerFails(source)
          /\ parsed' = [status |-> "exit"]
       \/ /\ ~LexerFails(source)
          /\ parsed' = parse_module(Lexed(source))
       \/ parsed' = [status |-> "unread"]
    /\ stage' = "parsed"
    /\ UNCHANGED <<file, source, damage, lidl, yaml>>

\* A module that could be parsed in part is loaded all the same.
LoadLidl ==
    /\ stage = "parsed"
    /\ parsed.status \in {"parsed", "failed"}
    /\ lidl' = define_pass(parsed.elements, <<>>)
    /\ stage' = "loaded"
    /\ UNCHANGED <<file, source, damage, parsed, yaml>>

LoadYaml ==
    /\ stage = "loaded"
    /\ damage = 0
    /\ \A i \in DOMAIN file.elements : InYaml(file.elements[i])
    /\ yaml' = Yaml!read_nodes([i \in DOMAIN file.elements |-> Node(file.elements[i])],
                              <<>>)
    /\ stage' = "both"
    /\ UNCHANGED <<file, source, damage, parsed, lidl>>

Next == \/ \E elem \in Catalogue : Add(elem)
        \/ \E trailing \in BOOLEAN : Write(trailing)
        \/ \E i \in DOMAIN source : Lose(i)
        \/ \E i \in 1 .. Len(source) + 1, piece \in Pieces : Slip(i, piece)
        \/ Parse
        \/ LoadLidl
        \/ LoadYaml

Spec == Init /\ [][Next]_vars

----------------------------------------------------------------------------
Module(m) == [namespace |-> m.namespace, imports |-> m.imports, elements |-> m.elements]

\* A module that is written down is read back as it was meant, with separators after
\* the last members or without (parse_list takes both), unless nothing is read at all.
ModuleReadBack ==
    parsed # Nothing /\ damage = 0 /\ parsed.status # "unread" =>
        parsed.status = "parsed" /\ Module(parsed) = file

\* Comments, separators before a closing bracket and empty arguments have no meaning.
Significant(text) ==
    LET token == SelectSeq(text, LAMBDA t : t \notin LineComments \cup BlockComments)
        Pair(i, first, second) == /\ i \in 1 .. Len(token) - 1
                                  /\ token[i] \in first /\ token[i + 1] \in second
        Means(i) == /\ ~Pair(i, {",", ";"}, {"}", ")", ">"})
                    /\ ~Pair(i, {"<"}, {">"}) /\ ~Pair(i - 1, {"<"}, {">"})
        places == {i \in DOMAIN token : Means(i)}
        At(n) == CHOOSE i \in places : Cardinality({j \in places : j <= i}) = n
    IN  [n \in 1 .. Cardinality(places) |-> token[At(n)]]

Count(text, t) == Cardinality({i \in DOMAIN text : text[i] = t})

\* An opened list of arguments that is never closed, or a :: that joins nothing.
Dangling(text) ==
    \/ Count(text, "<") # Count(text, ">")
    \/ \E i \in DOMAIN text : text[i] = "::" /\ text[i + 1] \in one_chars \cup {"::", "->"}

\* A damaged file that is taken without complaint means what it says, with two
\* exceptions: what follows a < that is never closed, and a :: that nothing follows,
\* are dropped in silence (parse_list does not give back the tokens of a list that
\* fails after a separator, parse_name makes do without the arguments).
AcceptedIsWritten ==
    parsed.status = "parsed" /\ ~Dangling(source) =>
        Significant(Texts(parsed, FALSE)) = Significant(source)

\* The elements that stand before the damage are read as they were meant, whether or not
\* the parser gets through what follows (parse_module returns what it has).
EarlierKept ==
    parsed.status \in {"parsed", "failed"} =>
        LET intact == {n \in 0 .. Len(file.elements) :
                         LET part == [file EXCEPT !.elements = SubSeq(@, 1, n)] IN
                         \E trailing \in BOOLEAN : IsPrefix(Texts(part, trailing), source)}
            kept == CHOOSE n \in intact : \A k \in intact : k <= n
        IN  intact # {} =>
               /\ Len(parsed.elements) >= kept
               /\ SubSeq(parsed.elements, 1, kept) = SubSeq(file.elements, 1, kept)

\* Damage either shows or changes nothing that is not damaged.
DamageShows == AcceptedIsWritten /\ EarlierKept

\* A loaded element without a base that only one of the loaders reads.
Common(elem) == IF elem.kind \in {"union", "generic union", "enum"}
                THEN [elem EXCEPT !.base = <<>>] ELSE elem

\* The first part of a name is that of an element that is not loaded yet.
EarlyUse(elements, i) ==
    LET elem == elements[i]
        later == {elements[j].name : j \in i .. Len(elements)}
        Names(m) == {m.type} \cup IF elem.kind = "service"
                                  THEN {m.params[n].type : n \in DOMAIN m.params} ELSE {}
        types == IF elem.kind = "enum" THEN {}
                 ELSE UNION {Names(elem.members[k]) : k \in DOMAIN elem.members}
    IN  \E t \in types : Len(t.base) > 1 /\ t.base[1] \in later

\* Both notations of a module give the same elements, but for the bases of unions and
\* enumerations, which the loader of .lidl files has no use for (so it loads modules
\* with bases that do not exist), and for modules that use a part of an element before
\* it is written, which the loader of .yaml files does not load.
FormatsAgree ==
    stage = "both" /\ parsed.status = "parsed" =>
        /\ yaml.status = "loaded" =>
              /\ lidl.status = "loaded"
              /\ Len(lidl.elements) = Len(yaml.elements)
              /\ \A i \in DOMAIN yaml.elements :
                    lidl.elements[i] = Common(yaml.elements[i])
        /\ lidl.status = "loaded" /\ yaml.status # "loaded" =>
              LET i == Len(yaml.elements) + 1 IN
              \/ EarlyUse(file.elements, i)
              \/ file.elements[i].extends # <<>> /\ file.elements[i].kind # "service"

\* An enumeration that the loader of .yaml files has taken has each of its names
\* once, those of its bases first and numbered as there.
EnumsExtend ==
    yaml # Nothing =>
        \A i \in DOMAIN yaml.elements : yaml.elements[i].kind = "enum" =>
           LET mine == all_members(yaml.elements, i)
               list == inheritance_list(yaml.elements, i)
           IN  /\ Cardinality(NamesOf(mine)) = Len(mine)
               /\ \A n \in DOMAIN list :
                     LET base == all_members(yaml.elements, list[n]) IN
                     base = SubSeq(mine, 1, Len(base))

\* The parameters of loaded[j] that a type is taken for: its own, and those of other
\* generics that have the same name.
Stands(loaded, j, type) ==
    {n \in DOMAIN loaded[j].params :
       \E g \in DOMAIN loaded : /\ loaded[j].params[n] \in Range(loaded[g].params)
                                /\ type.to = <<loaded[g].name, loaded[j].params[n]>>}

\* A type of a loaded module with these replaced wherever they are.
RECURSIVE Replaced(_, _, _, _)
Replaced(loaded, j, args, type) ==
    LET at == Stands(loaded, j, type)
        Arg(a) == IF "number" \in DOMAIN a THEN a ELSE Replaced(loaded, j, args, a)
    IN  IF at # {} THEN args[CHOOSE n \in at : TRUE]
        ELSE [type EXCEPT !.args = [i \in DOMAIN @ |-> Arg(@[i])]]

RECURSIVE Mentions(_, _, _)
Mentions(loaded, j, type) ==
    \/ Stands(loaded, j, type) # {}
    \/ \E i \in DOMAIN type.args :
          "to" \in DOMAIN type.args[i] /\ Mentions(loaded, j, type.args[i])

\* Nobody has said yet what the type is: it is a parameter of another generic only, or a
\* part of a union or service that no generator has come to.
Open(loaded, j, made, type) ==
    /\ Stands(loaded, j, type) = {}
    /\ \E g \in DOMAIN loaded :
          /\ loaded[g].name = Head(type.to)
          /\ \/ Len(type.to) = 2 /\ Last(type.to) \in Range(loaded[g].params)
             \/ /\ g \notin made \/ loaded[g].kind = "generic union"
                /\ Len(type.to) > 1
                /\ Last(type.to) \in {"alternatives", "call_union", "return_union"}
                /\ \A m \in Range(loaded[g].members) : m.name # Last(type.to)

\* What InstancesSubstitute says of the instance of loaded[j] with the arguments.
InstanceOf(loaded, j, args, made) ==
    LET members == all_members(loaded, j)
        instance == instantiate(loaded, j, args, made)
        IsNumber(type) == \E n \in Stands(loaded, j, type) : "number" \in DOMAIN args[n]
    IN  Len(args) = Len(loaded[j].params) /\ inheritance_list(loaded, j) # <<>> =>
           /\ instance = {} <=> \E m \in DOMAIN members :
                                   \/ IsNumber(members[m].type)
                                   \/ Open(loaded, j, made, members[m].type)
           /\ \A types \in instance : \A m \in DOMAIN members :
                 LET type == members[m].type IN
                 types[m] = IF type.args = <<>> \/ ~Mentions(loaded, j, type)
                            THEN Replaced(loaded, j, args, type) ELSE type

\* An instance of a generic has the members of the generic, inherited ones included,
\* with its arguments for the parameters, but for a parameter below an argument of a
\* member (vector<T>), which is left in it.  There is none where a number stands for the
\* type of a member, nor where that type is a part of a union or service that is not made
\* yet: so it depends on which elements the generators have come to
\* (generic_structure::instantiate, generic_union::instantiate).
InstancesSubstitute ==
    \A module \in {m \in {lidl, yaml} : m.status = "loaded"} :
       \A i, j \in DOMAIN module.elements :
          LET user == module.elements[i]
              generic == module.elements[j]
          IN  user.kind # "enum" /\ generic.kind \in {"generic struct", "generic union"} =>
                 \A k \in DOMAIN user.members : \A made \in SUBSET DOMAIN module.elements :
                    user.members[k].type.to = <<generic.name>> =>
                       InstanceOf(module.elements, j, user.members[k].type.args, made)

\* A schema means the same in both notations, as far as both can say it, and so do the
\* enumerations and the instances of generics in it.
LoadedAlike == FormatsAgree /\ EnumsExtend /\ InstancesSubstitute
=============================================================================
