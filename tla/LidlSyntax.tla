----------------------------- MODULE LidlSyntax -----------------------------
(***************************************************************************)
(* The lexer (src/src/frontend/lexer.cpp) and the recursive-descent parser *)
(* (src/src/frontend/parser2.cpp) of .lidl files, and what they make: the  *)
(* syntax trees of src/src/frontend/ast.hpp.                               *)
(*                                                                         *)
(* A source is a sequence of lexemes with blanks between them; comments    *)
(* are lexemes of their own.  A rule of the parser is an operator of the   *)
(* tokens and the position it starts at.  The position it leaves m_tokens  *)
(* at is in its result also when it fails: 0 where it has ended the        *)
(* process (report_user_error with error_type::fatal).                     *)
(***************************************************************************)
EXTENDS Integers, Sequences, FiniteSets

Keywords == {"struct", "union", "enum", "true", "false", "service", "namespace",
             "import", "static_assert"}

one_chars == {".", ":", ";", "=", "(", ")", "{", "}", "<", ">", ","}

two_chars == {"->", "=>", "::"}

Integer == {"0", "1", "2"}

Floating == {"1.", "1.5"}

StringLiterals == {"'a'", "'b'"}

\* A line comment, and one that the file ends in without a newline.
LineComments == {"//", "//eof"}

\* A block comment, and one with a * or a / among its characters.
BlockComments == {"/**/", "/* * */"}

\* What is no token.
Unknowns == {"*", "-"}

token_type(lexeme) ==
    CASE lexeme \in Keywords \cup one_chars \cup two_chars -> lexeme
      [] lexeme \in Integer -> "integer"
      [] lexeme \in Floating -> "floating"
      [] lexeme \in StringLiterals -> "string_literal"
      [] OTHER -> "identifier"

try_next(lexeme) == [type |-> token_type(lexeme), text |-> lexeme]

\* The lexer ends the process: at a block comment it takes the first * or / for the
\* end, and what is left is no token; at a line comment it cannot find the end of.
LexerFails(source) ==
    \E i \in DOMAIN source :
       \/ source[i] \in Unknowns \cup {"/* * */"}
       \/ source[i] = "//eof"

\* The tokens parse_module keeps.
Lexed(source) ==
    LET Kept(lexeme) == lexeme \notin LineComments \cup BlockComments
        kept == SelectSeq(source, Kept)
    IN  Append([i \in DOMAIN kept |-> try_next(kept[i])], [type |-> "eof", text |-> ""])

----------------------------------------------------------------------------
Found(pos, node) == [ok |-> TRUE, pos |-> pos, node |-> node]

Fail(pos) == [ok |-> FALSE, pos |-> pos, node |-> <<>>]

Exit == Fail(0)

Is(toks, pos, type) == pos \in DOMAIN toks /\ toks[pos].type = type

\* Where a rule may be asked to start; 0 is where there is nothing any more.
Places(toks) == 0 .. Len(toks) + 4

List(start, sep, end) == [start |-> start, sep |-> sep, end |-> end]

parse_id(toks, pos) ==
    IF Is(toks, pos, "identifier") THEN Found(pos + 1, toks[pos].text) ELSE Fail(pos)

\* A :: that no name follows is taken all the same.
RECURSIVE QualifiedRest(_, _, _)
QualifiedRest(toks, pos, parts) ==
    IF ~Is(toks, pos, "::") THEN Found(pos, parts)
    ELSE IF ~Is(toks, pos + 1, "identifier") THEN Found(pos + 1, parts)
    ELSE QualifiedRest(toks, pos + 2, Append(parts, toks[pos + 1].text))

parse_qualified_id(toks, pos) ==
    IF Is(toks, pos, "identifier") THEN QualifiedRest(toks, pos + 1, <<toks[pos].text>>)
    ELSE Fail(pos)

\* Mutant of ListRest: the end of the list may be missing.
RECURSIVE ListRestOpen(_, _, _, _, _, _)
ListRestOpen(list, rule, toks, pos, backup, nodes) ==
    LET elem == rule[pos]
        longer == Append(nodes, elem.node)
    IN  IF ~elem.ok THEN Found(IF Is(toks, elem.pos, list.end) THEN elem.pos + 1
                               ELSE elem.pos, nodes)
        ELSE IF Is(toks, elem.pos, list.sep)
             THEN ListRestOpen(list, rule, toks, elem.pos + 1, backup, longer)
        ELSE IF Is(toks, elem.pos, list.end) THEN Found(elem.pos + 1, longer)
        ELSE Fail(backup)

\* Mutant of ListRest: a separator has to be followed by an element.
RECURSIVE ListRestStrict(_, _, _, _, _, _)
ListRestStrict(list, rule, toks, pos, backup, nodes) ==
    LET elem == rule[pos]
        longer == Append(nodes, elem.node)
    IN  IF ~elem.ok THEN IF nodes = <<>> /\ Is(toks, elem.pos, list.end)
                         THEN Found(elem.pos + 1, nodes) ELSE Fail(elem.pos)
        ELSE IF Is(toks, elem.pos, list.sep)
             THEN ListRestStrict(list, rule, toks, elem.pos + 1, backup, longer)
        ELSE IF Is(toks, elem.pos, list.end) THEN Found(elem.pos + 1, longer)
        ELSE Fail(backup)

\* The loop of parse_list; rule has what the rule of its elements gives at a place.  A
\* list that stops after a separator, at something that is neither an element nor the
\* end, fails without giving its tokens back.
RECURSIVE ListRest(_, _, _, _, _, _)
ListRest(list, rule, toks, pos, backup, nodes) ==
    LET elem == rule[pos]
        longer == Append(nodes, elem.node)
    IN  IF ~elem.ok THEN IF Is(toks, elem.pos, list.end) THEN Found(elem.pos + 1, nodes)
                         ELSE Fail(elem.pos)
        ELSE IF Is(toks, elem.pos, list.sep)
             THEN ListRest(list, rule, toks, elem.pos + 1, backup, longer)
        ELSE IF Is(toks, elem.pos, list.end) THEN Found(elem.pos + 1, longer)
        ELSE Fail(backup)

parse_list(list, rule, toks, pos) ==
    IF Is(toks, pos, list.start) THEN ListRest(list, rule, toks, pos + 1, pos, <<>>)
    ELSE Fail(pos)

\* What parse_name gives at each place: the name stands without its arguments where
\* their list fails.
parse_name(toks) ==
    LET name[pos \in Places(toks)] ==
          LET base == parse_qualified_id(toks, pos)
              parse_generic_arg ==
                 [p \in Places(toks) |->
                    LET nested == name[p] IN
                    IF nested.ok THEN nested
                    ELSE IF Is(toks, p, "integer")
                         THEN Found(p + 1, [number |-> toks[p].text])
                    ELSE Fail(p)]
              args == parse_list(List("<", ",", ">"), parse_generic_arg, toks, base.pos)
          IN  IF ~base.ok THEN Fail(pos)
              ELSE Found(args.pos, [base |-> base.node, args |-> args.node])
    IN  name

\* A name and, after a colon, its type; untyped is where the rule leaves the tokens
\* without one.  From here on names has what parse_name gives at each place.
Typed(toks, names, pos, untyped) ==
    LET type == names[pos + 2] IN
    IF ~(Is(toks, pos, "identifier") /\ Is(toks, pos + 1, ":")) THEN Fail(pos)
    ELSE IF ~type.ok THEN Fail(untyped)
    ELSE Found(type.pos, [name |-> toks[pos].text, type |-> type.node])

parse_proc_param(toks, names) ==
    [pos \in 0 .. Len(toks) + 2 |-> Typed(toks, names, pos, 0)]

parse_member(toks, names) ==
    [pos \in 0 .. Len(toks) + 2 |-> Typed(toks, names, pos, pos)]

parse_procedure(toks, names) ==
    [pos \in 0 .. Len(toks) + 1 |->
       LET params == parse_list(List("(", ",", ")"), parse_proc_param(toks, names),
                                toks, pos + 1)
           returned == names[params.pos + 1]
       IN  IF ~Is(toks, pos, "identifier") THEN Fail(pos)
           ELSE IF ~(params.ok /\ Is(toks, params.pos, "->") /\ returned.ok) THEN Exit
           ELSE Found(returned.pos, [name |-> toks[pos].text, params |-> params.node,
                                     type |-> returned.node])]

parse_enum_val(toks) ==
    [pos \in Places(toks) |->
       IF ~Is(toks, pos, "identifier") THEN Fail(pos)
       ELSE IF ~Is(toks, pos + 1, "=")
            THEN Found(pos + 1, [name |-> toks[pos].text, value |-> ""])
       ELSE IF Is(toks, pos + 2, "integer")
            THEN Found(pos + 3, [name |-> toks[pos].text, value |-> toks[pos + 2].text])
       ELSE Fail(pos)]

parse_generic_param(toks) == [pos \in Places(toks) |-> parse_id(toks, pos)]

----------------------------------------------------------------------------
\* ": base", or nothing.
BaseClause(toks, names, pos) ==
    LET base == names[pos + 1] IN
    IF ~Is(toks, pos, ":") THEN Found(pos, <<>>)
    ELSE IF base.ok THEN Found(base.pos, <<base.node>>)
    ELSE Fail(pos)

\* An element whose keyword is at start: its parameters, its name at pos, its base and
\* its members.  failed is where a bad body leaves the tokens.
Element(kind, toks, names, start, pos, params, list, rule, failed) ==
    LET base == BaseClause(toks, names, pos + 1)
        members == parse_list(list, rule, toks, base.pos)
    IN  IF ~Is(toks, pos, "identifier") THEN Fail(start)
        ELSE IF ~(base.ok /\ members.ok) THEN Fail(failed)
        ELSE Found(members.pos, [kind |-> kind, name |-> toks[pos].text,
                                 params |-> params, extends |-> base.node,
                                 members |-> members.node])

\* Structures, generic with params; a body that fails gives the tokens back.
parse_structure(kind, toks, names, start, pos, params) ==
    Element(kind, toks, names, start, pos, params, List("{", ";", "}"),
            parse_member(toks, names), start)

\* The same of unions, whose body ends the process.
parse_union(kind, toks, names, start, pos, params) ==
    Element(kind, toks, names, start, pos, params, List("{", ";", "}"),
            parse_member(toks, names), 0)

parse_enum(toks, names, start) ==
    Element("enum", toks, names, start, start + 1, <<>>, List("{", ",", "}"),
            parse_enum_val(toks), start)

parse_service(toks, names, start) ==
    IF ~Is(toks, start + 1, "identifier") THEN Exit
    ELSE Element("service", toks, names, start, start + 1, <<>>, List("{", ";", "}"),
                 parse_procedure(toks, names), 0)

\* A generic is tried before the plain kind, which its parameters make fail.
parse_element(toks, names, start) ==
    LET params == parse_list(List("<", ",", ">"), parse_generic_param(toks), toks,
                             start + 1)
    IN  CASE Is(toks, start, "struct") /\ params.ok ->
                parse_structure("generic struct", toks, names, start, params.pos,
                                params.node)
          [] Is(toks, start, "struct") /\ ~params.ok ->
                parse_structure("struct", toks, names, start, start + 1, <<>>)
          [] Is(toks, start, "union") /\ params.ok ->
                parse_union("generic union", toks, names, start, params.pos, params.node)
          [] Is(toks, start, "union") /\ ~params.ok ->
                parse_union("union", toks, names, start, start + 1, <<>>)
          [] Is(toks, start, "enum") -> parse_enum(toks, names, start)
          [] Is(toks, start, "service") -> parse_service(toks, names, start)
          [] OTHER -> Fail(start)

----------------------------------------------------------------------------
\* "namespace name;", or nothing.
Namespace(toks) ==
    LET name == parse_qualified_id(toks, 2) IN
    IF ~Is(toks, 1, "namespace") THEN Found(1, <<>>)
    ELSE IF ~(name.ok /\ Is(toks, name.pos, ";")) THEN Exit
    ELSE Found(name.pos + 1, name.node)

RECURSIVE parse_imports(_, _, _)
parse_imports(toks, pos, imports) ==
    IF Is(toks, pos, "import") /\ Is(toks, pos + 1, "string_literal")
                               /\ Is(toks, pos + 2, ";")
    THEN parse_imports(toks, pos + 3, Append(imports, toks[pos + 1].text))
    ELSE Found(pos, imports)

RECURSIVE parse_elements(_, _, _, _)
parse_elements(toks, names, pos, elements) ==
    LET elem == parse_element(toks, names, pos) IN
    IF elem.ok THEN parse_elements(toks, names, elem.pos, Append(elements, elem.node))
    ELSE Found(elem.pos, elements)

\* A module is made of what could be parsed.  status is "failed" where parse_module
\* says "Failed to parse!" and goes on, "exit" where the process has ended.
parse_module(toks) ==
    LET space == Namespace(toks)
        imports == parse_imports(toks, space.pos, <<>>)
        elements == parse_elements(toks, parse_name(toks), imports.pos, <<>>)
        status == CASE elements.pos = 0 -> "exit"
                    [] Is(toks, elements.pos, "eof") -> "parsed"
                    [] OTHER -> "failed"
    IN  [namespace |-> space.node, imports |-> imports.node, elements |-> elements.node,
         status |-> status]
=============================================================================
