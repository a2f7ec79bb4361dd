------------------------------- MODULE Lidlc ---------------------------------
(***************************************************************************)
(* lidlc with its three back ends (src/src/tools/lidlc_main.cpp and the    *)
(* backend classes of src/src/pygen/pygen.cpp, src/src/jsgen/jsgen.cpp and *)
(* src/src/cppgen/cppgen.cpp), lidlq (lidlq_main.cpp), and a Python        *)
(* session that imports what was written.                                  *)
(*                                                                         *)
(* Elements of several modules are loaded; then lidlc is run once for each *)
(* module and back end, in any order and possibly not at all, and with any *)
(* other command line in between; then the session imports elements, also  *)
(* again after one could not be imported.                                  *)
(* The interpreter is not in the repository: an import loads what is       *)
(* before the last dot first, a module is known from when its body starts  *)
(* and an attribute of its package from when it ends, and what an          *)
(* exception leaves is forgotten.                                          *)
(***************************************************************************)
EXTENDS OutputFiles

CONSTANTS Elements,     \* the elements a program is made of
          MaxElements,  \* how many of them it has
          MaxImports    \* how many imports the session tries

Kinds == {"struct", "enum", "union", "service", "generic struct", "generic union"}

\* The types of an element's members, of a service those of its procedures.
MemberTypes(elem) ==
    IF elem.kind = "enum" THEN {}
    ELSE IF elem.kind = "service"
    THEN UNION {ProcTypes(elem.members[k]) : k \in DOMAIN elem.members}
    ELSE {elem.members[k].type : k \in DOMAIN elem.members}

\* Every symbol a type of an element is made of; none of a base, which is loaded before.
Named(elem) == UNION {SymbolsIn(t) : t \in MemberTypes(elem)}

\* Only a service's unions have their names.
ASSUME LidlcAssumption ==
    \A elem \in Elements :
       /\ elem.kind \in Kinds
       /\ "home" \in DOMAIN elem /\ elem.home \in Seq(STRING)
       /\ elem.name \in STRING \ ServiceUnions
       /\ elem.members \in Seq(Range(elem.members))
       /\ \A t \in MemberTypes(elem) : IsType(t) /\ \A arg \in Range(t.args) : IsType(arg)
       /\ elem.kind = "service" =>
             \A proc \in Range(elem.members), suffix \in {"_params", "_results"} :
                proc.name \o suffix \notin ServiceUnions

VARIABLES program,   \* the loaded elements, in the order of their definition
          files,     \* the Python files, by the path of their module
          scripts,   \* for each module JavaScript was generated for: what its file has
          headers,   \* for each module C++ was generated for: what its file has
          last,      \* the last run: its back end, module and exit status, what it printed
          known,     \* the modules and packages of the session: sys.modules
          attrs,     \* those that are attributes of what is above them
          stack,     \* the bodies being run, the session's own at the bottom
          outcome    \* "none", or how the last import ended
vars == <<program, files, scripts, headers, last, known, attrs, stack, outcome>>
written == <<files, scripts, headers>>
session == <<known, attrs, stack, outcome>>

Homes == {program[i].home : i \in DOMAIN program}
Symbols == {SymbolOf(program[i]) : i \in DOMAIN program}

\* The symbols that names can stand for: elements, and what their scopes are made with.
Resolvable ==
    Symbols \cup UNION {{Append(SymbolOf(program[i]), name) : name \in BuiltIn(program[i].kind)} :
                          i \in DOMAIN program}

Closed == \A i \in DOMAIN program : Named(program[i]) \subseteq Resolvable

\* Files as they are, and others next to them.
f ++ g == [x \in DOMAIN f \cup DOMAIN g |-> IF x \in DOMAIN f THEN f[x] ELSE g[x]]

Report(backend, home, code, printed) ==
    [backend |-> backend, home |-> home, code |-> code, printed |-> printed]
None == Report("none", <<>>, "none", <<>>)

Init ==
    /\ program = <<>>
    /\ files = <<>>
    /\ scripts = <<>>
    /\ headers = <<>>
    /\ last = None
    /\ known = {}
    /\ attrs = {}
    /\ stack = <<>>
    /\ outcome = [target |-> <<>>, result |-> "none", tries |-> 0]

Idle == stack = <<>> /\ outcome.tries = 0 /\ last = None

\* Another element is defined; its base is one of the kind.  define refuses a name that its
\* scope has, as another element or as a module.
Define(elem) ==
    /\ Idle /\ written = <<<<>>, <<>>, <<>>>>
    /\ Len(program) < MaxElements
    /\ SymbolOf(elem) \notin Symbols
    /\ \A home \in Homes : ~IsPrefix(SymbolOf(elem), home)
    /\ \A symbol \in Symbols : ~IsPrefix(symbol, elem.home)
    /\ elem.base # <<>> =>
          \E i \in DOMAIN program : /\ elem.base = <<SymbolOf(program[i])>>
                                    /\ program[i].kind = BaseKind(elem.kind)
    /\ program' = Append(program, elem)
    /\ UNCHANGED <<written, last, session>>

----------------------------------------------------------------------------
\* Command lines.  "ok" is exit status 0, "refused" -1, "failed" 1, and "thrown" an
\* exception that nobody handles.

Commands ==
    [version : BOOLEAN, wrong : BOOLEAN, help : BOOLEAN,
     input : {"file", "missing", "stdin", "none"},
     details : BOOLEAN, backend : {"cpp", "js", "ts", "py", "java"}, output : BOOLEAN]

\* The back ends there are, by the names that ask for them.
backends == [cpp |-> "cpp", js |-> "js", ts |-> "js", py |-> "py"]

\* What the first of the checks that applies ends a program with.
FirstOf(checks) ==
    LET applies == {k \in DOMAIN checks : checks[k][1]}
    IN IF applies = {} THEN {"go on"} ELSE checks[Min(applies)][2]

\* main: the options in the order they are looked at.  canonical throws for a file that is
\* not there; -i leaves origin empty, and what is read there names no module, if it is
\* anything at all.
main(c) ==
    FirstOf(<< <<c.version, {"ok"}>>, <<c.wrong, {"refused"}>>, <<c.help, {"ok"}>>,
               <<c.input = "none", {"refused"}>>, <<c.input = "missing", {"thrown"}>>,
               <<c.input = "stdin", {"failed", "thrown"}>> >>)

\* run, for a module that was loaded: details are printed instead of anything else; a back
\* end is looked for, and that of Python looks for a path.
run(c) ==
    FirstOf(<< <<c.details, {"ok"}>>, <<c.backend \notin DOMAIN backends, {"failed"}>>,
               <<c.backend = "py" /\ ~c.output, {"thrown"}>> >>)

Outcomes(c) == IF main(c) = {"go on"} THEN run(c) ELSE main(c)

Accepted == {c \in Commands : Outcomes(c) = {"go on"}}

\* The back ends that get to work with a file to write to, and whether one does without.
Writing == {backends[c.backend] : c \in {d \in Accepted : d.output}}
Printing == \E c \in Accepted : ~c.output

\* The back end that is to write a file for a module that is there.
Wanted(c) ==
    IF ~c.version /\ ~c.help /\ ~c.details /\ c.input = "file" /\ c.output
    THEN IF c.backend \in DOMAIN backends THEN backends[c.backend] ELSE c.backend
    ELSE "none"

Refusals == UNION {{Wanted(c)} \X Outcomes(c) : c \in Commands \ Accepted}

\* No back end gets to work.  Nothing of it depends on files, so it is tried while there
\* are none.
Refuse(wanted, code) ==
    /\ Idle /\ written = <<<<>>, <<>>, <<>>>> /\ Closed
    /\ last' = Report(wanted, <<>>, code, <<>>)
    /\ UNCHANGED <<program, written, session>>

\* lidlq takes any verb for its one query; a directory is no module.
Queries == [verb : BOOLEAN, wrong : BOOLEAN, help : BOOLEAN, input : {"file", "missing", "none"}]

lidlq_main(q) ==
    FirstOf(<< <<~q.verb, {"thrown"}>>, <<q.wrong, {"refused"}>>, <<q.help, {"ok"}>>,
               <<q.input = "missing", {"thrown"}>>, <<q.input = "none", {"failed"}>> >>)

list_services(home) ==
    LET services == OfKind(program, home, "service")
    IN  [k \in DOMAIN services |-> program[services[k]].name]

QueryEnds == UNION {lidlq_main(q) : q \in Queries}

\* It is tried where Python was generated last.
Query(home, code) ==
    /\ last.backend = "py" /\ last.home = home
    /\ last' = IF code = "go on" THEN Report("query", home, "ok", list_services(home))
                ELSE Report("none", <<>>, code, <<>>)
    /\ UNCHANGED <<program, written, session>>

\* Whoever ran the program has seen how it ended.
Wait ==
    /\ last # None
    /\ last' = None
    /\ UNCHANGED <<program, written, session>>

----------------------------------------------------------------------------
\* The back ends.

\* The elements of a module in the order of the Python back end, and how many of them it
\* gets past.
InPython(home) == InOrder(program, home, <<"service", "enum", "struct", "union">>)

Made(order, n) ==
    {SymbolOf(program[order[k]]) :
       k \in {j \in 1 .. n : program[order[j]].kind = "service"}}

Passed(order) ==
    CHOOSE n \in 0 .. Len(order) :
       /\ \A k \in 1 .. n : ~Stops(program, order[k], Made(order, k - 1))
       /\ n < Len(order) => Stops(program, order[n + 1], Made(order, n))

\* What it may leave of the element that stops it: an assertion or an exception comes
\* before the file is opened, or one comes while the imports are written.
Left(order) ==
    LET n == Passed(order)
        i == order[n + 1]
        types == TypesUsed(program, i)
    IN  {<<>>} \cup
        (IF n < Len(order) /\ \E t \in Range(types) : IsInstance(program, t)
         THEN {[path \in {SymbolOf(program[i])} |-> CutFile(program, types)]} ELSE {})

\* backend::generate of pygen.
GeneratePython(home) ==
    LET order == InPython(home)
        passed == {order[k] : k \in 1 .. Passed(order)}
    IN  /\ Idle /\ Closed
        /\ \A file \in DOMAIN files : Front(file) # home
        /\ \E left \in Left(order) :
              files' = files
                       ++ [path \in {SymbolOf(program[i]) : i \in passed} |->
                             PythonFile(program,
                                CHOOSE i \in passed : SymbolOf(program[i]) = path)]
                       ++ left
        /\ last' = Report("py", home, IF Passed(order) = Len(order) THEN "ok" ELSE "thrown", <<>>)
        /\ UNCHANGED <<program, scripts, headers, session>>

\* The C++ and the JavaScript back ends first generate for the modules below, which
\* makes the unions of their services.
Below(home) == {other \in Homes : IsPrefix(home, other) /\ other # home}

Stopped(home, kinds) ==
    LET below == SetToSeq(Below(home))
        order == FlattenSeq([k \in DOMAIN below |-> InOrder(program, below[k], kinds)])
                 \o InOrder(program, home, kinds)
    IN  \E k \in DOMAIN order : Unmade(program, order[k], Made(order, k - 1))

\* What a file has when content is to be written to it, and how the run ends: nothing is a
\* file that was opened at most.  flushed is whether the stream is.
Contents(home, kinds, content, flushed) ==
    {<<{}, "thrown">>}
    \cup (IF Stopped(home, kinds) THEN {}
          ELSE {<<{content}, "ok">>} \cup (IF flushed THEN {} ELSE {<<{}, "ok">>}))

\* backend::generate of jsgen: all of it goes to files of one name, and the stream is
\* never closed, so that of a short file nothing is written.
GenerateJs(home) ==
    /\ Idle /\ Closed
    /\ home \notin DOMAIN scripts
    /\ \E ended \in Contents(home, <<"service", "struct", "enum", "union">>,
                              JsFile(program, home), FALSE) :
          /\ scripts' = scripts ++ [other \in {home} |-> ended[1]]
          /\ last' = Report("js", home, ended[2], <<>>)
    /\ UNCHANGED <<program, files, headers, session>>

\* backend::generate of cppgen: the emitter may fail too, as CppBackend has it.
GenerateCpp(home) ==
    /\ Idle /\ Closed
    /\ home \notin DOMAIN headers
    /\ \E ended \in Contents(home, <<"service", "enum", "union", "struct">>,
                              CppFile(program, home, Below(home)), TRUE) :
          /\ headers' = headers ++ [other \in {home} |-> ended[1]]
          /\ last' = Report("cpp", home, ended[2], <<>>)
    /\ UNCHANGED <<program, files, scripts, session>>

\* Without a path the text goes to the standard output; tried while there are no files.
ToStdout ==
    /\ Idle /\ written = <<<<>>, <<>>, <<>>>> /\ Closed
    /\ Printing
    /\ \E code \in {"ok", "thrown"} : last' = Report("none", <<>>, code, <<>>)
    /\ UNCHANGED <<program, written, session>>

Generate(home, backend) ==
    \/ backend = "py" /\ GeneratePython(home)
    \/ backend = "js" /\ GenerateJs(home)
    \/ backend = "cpp" /\ GenerateCpp(home)

----------------------------------------------------------------------------
\* The Python session.

top == stack[Len(stack)]

\* The session's own body imports an element and then names its class.
Body(path) ==
    IF path # <<>> THEN files[path]
    ELSE File(<<outcome.target>>,
              <<Class(<<"session">>,
                      {[path |-> Append(outcome.target, Last(outcome.target)),
                        sized |-> TRUE, symbol |-> outcome.target]})>>,
              <<>>)

\* import target, and then target's class.  The session does not see what is not Python.
Attempt(path) ==
    /\ stack = <<>> /\ last = None /\ files # <<>> /\ scripts = <<>> /\ headers = <<>>
    /\ outcome.tries < MaxImports
    /\ outcome' = [target |-> path, result |-> "none", tries |-> outcome.tries + 1]
    /\ stack' = <<[path |-> <<>>, pc |-> 1, bound |-> {}]>>
    /\ UNCHANGED <<program, written, last, known, attrs>>

\* An exception nobody handles: no body ends, and what began is forgotten.
Raise ==
    /\ known' = known \ {stack[i].path : i \in DOMAIN stack}
    /\ stack' = <<>>
    /\ outcome' = [outcome EXCEPT !.result = "error"]
    /\ UNCHANGED attrs

\* The statement at the top is an import: each call loads one package, or starts one body,
\* or binds the name when all of it is there.
Import ==
    /\ stack # <<>> /\ top.pc <= Len(Body(top.path).imports)
    /\ LET path == Body(top.path).imports[top.pc]
           new == {k \in DOMAIN path : SubSeq(path, 1, k) \notin known}
           first == SubSeq(path, 1, CHOOSE k \in new : \A j \in new : k <= j)
       IN  IF new = {}
           THEN /\ stack' = [stack EXCEPT ![Len(stack)].pc = @ + 1,
                                          ![Len(stack)].bound = @ \cup {<<path[1]>>}]
                /\ UNCHANGED <<known, attrs, outcome>>
           ELSE IF first \in DOMAIN files
           THEN /\ known' = known \cup {first}
                /\ stack' = Append(stack, [path |-> first, pc |-> 1, bound |-> {}])
                /\ UNCHANGED <<attrs, outcome>>
           ELSE IF \E file \in DOMAIN files : IsPrefix(first, file)
           THEN /\ known' = known \cup {first}
                /\ attrs' = attrs \cup {first}
                /\ UNCHANGED <<stack, outcome>>
           ELSE Raise
    /\ UNCHANGED <<program, written, last>>

\* What a dotted name is where the body at the top is: "class", "module" or nothing.
Found(path) ==
    LET classes(file) == {files[file].classes[k].name : k \in DOMAIN files[file].classes}
        to == {k \in DOMAIN path : \A j \in 2 .. k : SubSeq(path, 1, j) \in attrs}
    IN  IF path \in top.bound /\ Len(path) > 1 THEN {"class"}
        ELSE IF <<path[1]>> \notin top.bound THEN {}
        ELSE IF Len(path) \in to THEN {"module"}
        ELSE {"class" : k \in {j \in to : /\ SubSeq(path, 1, j) \in DOMAIN files
                                          /\ SubSeq(path, j + 1, Len(path))
                                             \in classes(SubSeq(path, 1, j))}}

\* The statement at the top is a class, whose body looks up the names it uses.
DefineClass ==
    /\ stack # <<>> /\ top.pc > Len(Body(top.path).imports)
    /\ LET n == top.pc - Len(Body(top.path).imports)
           classes == Body(top.path).classes
       IN  /\ n <= Len(classes)
           /\ IF \A use \in classes[n].uses :
                    "class" \in Found(use.path) \/ ("module" \in Found(use.path) /\ ~use.sized)
              THEN /\ stack' = [stack EXCEPT ![Len(stack)].pc = @ + 1,
                                             ![Len(stack)].bound = @ \cup {classes[n].name}]
                   /\ UNCHANGED <<known, attrs, outcome>>
              ELSE Raise
    /\ UNCHANGED <<program, written, last>>

\* The body at the top ends.
Return ==
    /\ stack # <<>>
    /\ top.pc > Len(Body(top.path).imports) + Len(Body(top.path).classes)
    /\ stack' = Front(stack)
    /\ attrs' = IF top.path = <<>> THEN attrs ELSE attrs \cup {top.path}
    /\ outcome' = IF top.path = <<>> THEN [outcome EXCEPT !.result = "ok"] ELSE outcome
    /\ UNCHANGED <<program, written, last, known>>

Next ==
    \/ \E elem \in Elements : Define(elem)
    \/ \E home \in Homes, backend \in Writing : Generate(home, backend)
    \/ ToStdout
    \/ \E refusal \in Refusals : Refuse(refusal[1], refusal[2])
    \/ \E home \in Homes, code \in QueryEnds : Query(home, code)
    \/ Wait
    \/ \E path \in Symbols : Attempt(path)
    \/ Import
    \/ DefineClass
    \/ Return

Spec == Init /\ [][Next]_vars

----------------------------------------------------------------------------
\* Properties.

\* The file of an element is there, and not cut short.
Whole(path) == path \in DOMAIN files /\ files[path].classes # <<>>

\* What can be known from how the last run ended, which is what a build goes by.  A command
\* that was to write Python or C++ and ended well has written all of it, and where a Python
\* file names a union of a service, the service has its file too; an exception from a back
\* end leaves something undone.  JavaScript that ended well may have written nothing.  What
\* lidlq lists are services that have their files when Python has been generated.
WholeInPython(home) ==
    \A i \in Range(InPython(home)) :
       /\ Whole(SymbolOf(program[i]))
       /\ \A class \in Range(files[SymbolOf(program[i])].classes) : \A use \in class.uses :
             Last(use.symbol) \in ServiceUnions => Front(use.symbol) \in DOMAIN files

StatusTells ==
    /\ last.code = "ok" =>
          CASE last.backend = "py" -> WholeInPython(last.home)
            [] last.backend = "cpp" -> headers[last.home] # {}
            [] last.backend = "query" ->
                  WholeInPython(last.home) =>
                     {Append(last.home, name) : name \in Range(last.printed)} \subseteq DOMAIN files
            [] OTHER -> last.backend \in {"js", "none"}
    /\ last.code = "thrown" =>
          CASE last.backend = "py" -> ~WholeInPython(last.home)
            [] last.backend = "cpp" -> headers[last.home] = {}
            [] last.backend = "js" -> scripts[last.home] = {}
            [] OTHER -> last.backend = "none"

\* The elements that can be imported, read off the elements and not off the files: the
\* file is whole; a service uses no element and inherits no procedure; any other element
\* is not below an element of its own that it uses, next to it only at the top and not
\* in an array, and what it uses can be imported before it.
Usable(i) ==
    LET elem == program[i]
        Sibling(s) == Front(s) = elem.home
        InArrays(t) == IF t.to = <<"array">> THEN {t.args[1].to} ELSE {}
    IN  /\ Whole(SymbolOf(elem))
        /\ IF elem.kind = "service"
           THEN /\ Named(elem) = {}
                /\ \A j \in Range(inheritance_list(program, i)) :
                      j = i \/ program[j].members = <<>>
           ELSE \A t \in Range(TypesUsed(program, i)) :
                   /\ \A s \in SymbolsIn(t) : Sibling(s) => Len(elem.home) = 1
                   /\ \A s \in InArrays(t) : ~Sibling(s)

Importable ==
    LET Needed(i) == {Owner(program, s) :
                        s \in UNION {SymbolsIn(t) : t \in Range(TypesUsed(program, i))}}
        usable == {i \in DOMAIN program : Usable(i)}
        level[n \in 0 .. Len(program)] ==
            IF n = 0 THEN {} ELSE {i \in usable : Needed(i) \subseteq level[n - 1]}
    IN  {SymbolOf(program[i]) : i \in level[Len(program)]}

\* An import of an element succeeds exactly when the element can be imported, whatever
\* was imported before it and whatever failed before it.
ImportsWork ==
    outcome.result # "none" => ((outcome.result = "ok") = (outcome.target \in Importable))

\* The numbers of the members are one to one and go on from those of the base's file, and
\* a JavaScript file and the stubs of C++ use the numbers that Python does, unless the
\* Python file was cut short.
SameNumbers ==
    \A i \in DOMAIN program : Whole(SymbolOf(program[i])) =>
       LET elems == files[SymbolOf(program[i])].elems IN
       /\ \A k \in DOMAIN elems : elems[k].value = k - 1
       /\ \A base \in Range(program[i].base) \cap DOMAIN files :
             IsPrefix(files[base].elems, elems)
       /\ \A home \in DOMAIN scripts : \A script \in scripts[home] :
             i \in DOMAIN script.elems => IsSuffix(script.elems[i], elems)
       /\ \A home \in DOMAIN headers : \A header \in headers[home] :
             i \in DOMAIN header.elems => header.elems[i] = elems

\* What a JavaScript file refers to is there, unless it is of another module, a union of a
\* service or generic.
DefinedInScript(home, script) ==
    LET used == UNION {Named(program[i]) : i \in DOMAIN program}
        absent == {s \in used : \/ Front(s) # home
                                \/ program[Owner(program, s)].kind
                                   \in {"service", "generic struct", "generic union"}}
    IN  script.refers \subseteq
           script.defines \cup UNION {{Last(s), Last(s) \o "Class"} : s \in absent}

\* A name in a C++ file is what the file that defines the symbol calls it, unless it is a
\* structure of a procedure that a service inherits from another module.
CalledAsDefined(home, other) ==
    \A header \in headers[home], file \in headers[other] :
       \A used \in header.refers, defined \in file.defines :
          used.symbol = defined.symbol =>
             \/ used.name = defined.name
             \/ home # other /\ \E i \in DOMAIN program :
                                   /\ program[i].kind = "service"
                                   /\ used.symbol \in ProcStructs(program[i])

NamesDefined ==
    /\ \A home \in DOMAIN scripts : \A script \in scripts[home] :
          DefinedInScript(home, script)
    /\ \A home, other \in DOMAIN headers : CalledAsDefined(home, other)

\* The files of a program fit together, in one language and between languages.
OutputsAgree == SameNumbers /\ NamesDefined
=============================================================================
