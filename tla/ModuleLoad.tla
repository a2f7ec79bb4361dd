----------------------------- MODULE ModuleLoad -----------------------------
(***************************************************************************)
(* Loading of modules: load_context and path_resolver (src/src/loader.cpp) *)
(* with the loader of .lidl files (src/src/frontend/loader.cpp), the tree  *)
(* of modules (src/src/module.cpp) and look-up in it (src/src/scope.cpp).  *)
(*                                                                         *)
(* The loader is one recursive function; `calls' is its stack.  A file is  *)
(* its directory, stem and extension; what it holds is its namespace, its  *)
(* imports, the names of its elements and the names these refer to.        *)
(***************************************************************************)
EXTENDS Integers, Sequences, FiniteSets

CONSTANTS
    Files,      \* [dir, stem, ext]
    Listing,    \* the files of a directory, as directory_iterator yields them
    BasePaths,  \* the import paths, in the order of std::set<std::string>
    Basic,      \* names of the basic module
    Sources,    \* what the files may hold: a set of [Files -> record]
    MainName    \* the import name lidlc is called with

Kinds == {"absolute", "relative", "search"}
Names == [kind : Kinds, dir : STRING, stem : STRING, ext : STRING]
Texts == [parses : BOOLEAN, namespace : Seq(STRING) \ {<<>>}, imports : Seq(Names),
          elements : Seq(STRING), uses : Seq(Seq(STRING) \ {<<>>})]

\* Every directory that is looked at has a listing.  A file that names no namespace
\* has that of "module": none has the empty one.
ASSUME ModuleLoadAssumption ==
    /\ Files \subseteq [dir : DOMAIN Listing, stem : STRING, ext : STRING]
    /\ Listing \in [DOMAIN Listing -> Seq(Files)]
    /\ BasePaths \in Seq(DOMAIN Listing)
    /\ Basic \subseteq STRING
    /\ Sources \subseteq [Files -> Texts]
    /\ MainName \in Names /\ MainName.dir \in DOMAIN Listing

VARIABLES
    source,            \* what the files hold: never changes
    import_mapping,    \* the files that have a loader
    import_dependencies, \* import name -> import names of that file
    symbols,           \* path -> <<>> for a module, <<file>> for its element
    origin,            \* path of a module -> src_info.origin
    imported,          \* the modules with m_imported
    imported_modules,  \* path of a module -> paths
    bound,             \* the names resolved by define passes
    calls,             \* perform_load calls under way, innermost last
    status

vars == <<source, import_mapping, import_dependencies, symbols, origin, imported,
          imported_modules, bound, calls, status>>

Prefixes(path) == {SubSeq(path, 1, i) : i \in 1 .. Len(path)}

Namespace(f) == source[f].namespace

Top == calls[Len(calls)]

\* f, and what g says of arguments f has not.
f ++ g == [x \in DOMAIN f \cup DOMAIN g |-> IF x \in DOMAIN f THEN f[x] ELSE g[x]]

----------------------------------------------------------------------------
\* Finding a file: {} or the one file found.

search_in_path(dir, imp) ==
    LET hits == {i \in DOMAIN Listing[dir] :
                   /\ Listing[dir][i].stem = imp.stem
                   /\ imp.ext \in {"", Listing[dir][i].ext}}
    IN  {Listing[dir][i] : i \in {j \in hits : \A k \in hits : j <= k}}

find_import(imp, wd) ==
    CASE imp.kind = "absolute" ->
            {f \in Files : <<f.dir, f.stem, f.ext>> = <<imp.dir, imp.stem, imp.ext>>}
      [] imp.kind = "relative" -> search_in_path(wd, imp)
      [] imp.kind = "search" ->
            UNION {search_in_path(BasePaths[i], imp) :
                     i \in {j \in DOMAIN BasePaths :
                              \A k \in 1 .. j - 1 :
                                 search_in_path(BasePaths[k], imp) = {}}}

\* The loader made for an import name, named by its file; {} for nullptr.
resolve_import(imp, wd) ==
    {f \in find_import(imp, wd) : f.ext = "lidl" /\ source[f].parses}

\* The files f imports, by what its import names resolve to.
ImportsOf(f) == UNION {resolve_import(source[f].imports[i], f.dir) :
                         i \in DOMAIN source[f].imports}

----------------------------------------------------------------------------
\* The tree of modules.  A child cannot take the name of an element: define throws.

NoRoom(path) == \E p \in Prefixes(path) \cap DOMAIN symbols : symbols[p] # <<>>

\* Mutant of get_child: only the innermost module is made.
ChildAlone(path) == symbols' = symbols ++ [p \in {path} |-> <<>>]

get_child(path) == symbols' = symbols ++ [p \in Prefixes(path) |-> <<>>]

\* Making a loader makes the module of its namespace and claims it, whether or not
\* the loader is then used.
MakeLoader(f) == /\ get_child(Namespace(f))
                 /\ origin' = [p \in {Namespace(f)} |-> f] ++ origin

\* Mutant of EnclosingScopes: a look-up never leaves for the root.
ScopesBelowRoot(scope, nm) ==
    {i \in 1 .. Len(scope) : Append(SubSeq(scope, 1, i), nm) \in DOMAIN symbols}

\* The lengths of the enclosing scopes that have the name.
EnclosingScopes(scope, nm) ==
    {i \in 0 .. Len(scope) : Append(SubSeq(scope, 1, i), nm) \in DOMAIN symbols}

\* Where the first part of a name is found the other parts follow; {} if nowhere.
recursive_full_name_lookup(scope, nm) ==
    LET found == EnclosingScopes(scope, Head(nm))
        inner == CHOOSE i \in found : \A j \in found : j <= i
        path == SubSeq(scope, 1, inner) \o nm
    IN  IF found = {} THEN IF Len(nm) = 1 /\ Head(nm) \in Basic THEN {nm} ELSE {}
        ELSE {path} \cap DOMAIN symbols

----------------------------------------------------------------------------
Init == /\ source \in Sources
        /\ import_mapping = {}
        /\ import_dependencies = <<>>
        /\ symbols = <<>>
        /\ origin = <<>>
        /\ imported = {}
        /\ imported_modules = <<>>
        /\ bound = {}
        /\ calls = <<>>
        /\ status = "start"

Stop(how) ==
    /\ status' = how
    /\ UNCHANGED <<source, import_mapping, import_dependencies, symbols, origin,
                   imported, imported_modules, bound, calls>>

\* The import perform_load is at, and the directory it is resolved in.
NextImport == LET f == Top.file IN source[f].imports[Len(Top.mods) + 1]

Importing == /\ status = "loading"
             /\ Top.phase = "import"
             /\ Len(Top.mods) < Len(source[Top.file].imports)

\* do_import gives the innermost perform_load a module: stack is calls without the
\* call that made it.
Returned(stack, path) ==
    LET n == Len(stack) IN
    [stack EXCEPT ![n].mods = Append(@, path)]

\* do_import of a file that has no loader yet, up to the first import of it.
Enter(f, imp) ==
    /\ ~NoRoom(Namespace(f))
    /\ MakeLoader(f)
    /\ import_mapping' = import_mapping \cup {f}
    /\ calls' = Append(calls, [file |-> f, name |-> imp, mods |-> <<>>,
                               phase |-> "import"])
    /\ UNCHANGED <<source, import_dependencies, imported, imported_modules, bound>>

ImportMain ==
    /\ status = "start"
    /\ \E f \in resolve_import(MainName, MainName.dir) : Enter(f, MainName)
    /\ status' = "loading"

\* lidlc finds no module to generate.
NoMain == /\ status = "start"
          /\ resolve_import(MainName, MainName.dir) = {}
          /\ Stop("no module")

ImportNew ==
    /\ Importing
    /\ \E f \in resolve_import(NextImport, Top.file.dir) \ import_mapping :
          Enter(f, NextImport)
    /\ UNCHANGED status

\* Mutant of Known: an import that is loaded already is not recorded again.
KnownUnmarked(f) ==
    /\ calls' = Returned(calls, Namespace(f))
    /\ UNCHANGED imported

\* Mutant of Known: the loop stays at the import.
KnownAgain(f) == UNCHANGED <<calls, imported>>

\* The module of a file that has a loader, loaded or not.
Known(f) ==
    /\ calls' = Returned(calls, Namespace(f))
    /\ imported' = imported \cup {Namespace(f)}

ImportKnown ==
    /\ Importing
    /\ \E f \in resolve_import(NextImport, Top.file.dir) \cap import_mapping :
          /\ ~NoRoom(Namespace(f))
          /\ MakeLoader(f)
          /\ Known(f)
    /\ UNCHANGED <<source, import_mapping, import_dependencies, imported_modules,
                   bound, status>>

\* perform_load exits when an import has no loader, and make_frontend_loader throws
\* where the namespace is taken by an element.
ImportFails ==
    /\ Importing
    /\ resolve_import(NextImport, Top.file.dir) = {}
    /\ Stop("no import")

ImportClashes ==
    /\ Importing
    /\ \E f \in resolve_import(NextImport, Top.file.dir) : NoRoom(Namespace(f))
    /\ Stop("clash")

----------------------------------------------------------------------------
Elements(f) == {Append(Namespace(f), source[f].elements[i]) :
                  i \in DOMAIN source[f].elements}

\* Mutant of AllImported: the last import is left out.
NearlyAllImported == /\ status = "loading"
                     /\ Top.phase = "import"
                     /\ Len(Top.mods) + 1 >= Len(source[Top.file].imports)

AllImported == /\ status = "loading"
               /\ Top.phase = "import"
               /\ Len(Top.mods) = Len(source[Top.file].imports)

\* The imports of the file replace those recorded before it, and declare_pass makes
\* every element and defines it in the scope of the module.
Declare ==
    LET f == Top.file IN
    /\ AllImported
    /\ Elements(f) \cap DOMAIN symbols = {}
    /\ Cardinality(Elements(f)) = Len(source[f].elements)
    /\ imported_modules' = [p \in {Namespace(f)} |-> Top.mods] ++ imported_modules
    /\ symbols' = symbols ++ [p \in Elements(f) |-> <<f>>]
    /\ calls' = [calls EXCEPT ![Len(calls)].phase = "define"]
    /\ UNCHANGED <<source, import_mapping, import_dependencies, origin, imported,
                   bound, status>>

\* scope::define refuses the second element of a name.
DeclareClashes ==
    LET f == Top.file IN
    /\ AllImported
    /\ \/ Elements(f) \cap DOMAIN symbols # {}
       \/ Cardinality(Elements(f)) # Len(source[f].elements)
    /\ Stop("clash")

Unknown(f) == {i \in DOMAIN source[f].uses :
                 recursive_full_name_lookup(Namespace(f), source[f].uses[i]) = {}}

\* define_pass, and the return from perform_load and do_import.
Define ==
    LET f == Top.file
        rest == SubSeq(calls, 1, Len(calls) - 1)
    IN  /\ status = "loading"
        /\ Top.phase = "define"
        /\ Unknown(f) = {}
        /\ bound' = bound \cup
              UNION {{[file |-> f, use |-> source[f].uses[i], to |-> p] :
                         p \in recursive_full_name_lookup(Namespace(f), source[f].uses[i])} :
                     i \in DOMAIN source[f].uses}
        /\ import_dependencies' = import_dependencies ++ [nm \in {Top.name} |-> source[f].imports]
        /\ IF rest = <<>>
           THEN /\ calls' = rest
                /\ status' = "loaded"
                /\ UNCHANGED imported
           ELSE /\ calls' = Returned(rest, Namespace(f))
                /\ imported' = imported \cup {Namespace(f)}
                /\ UNCHANGED status
        /\ UNCHANGED <<source, import_mapping, symbols, origin, imported_modules>>

\* report_user_error(fatal) exits.
DefineFails ==
    /\ status = "loading"
    /\ Top.phase = "define"
    /\ Unknown(Top.file) # {}
    /\ Stop("unknown name")

Next == \/ ImportMain \/ NoMain
        \/ ImportNew \/ ImportKnown \/ ImportFails \/ ImportClashes
        \/ Declare \/ DeclareClashes
        \/ Define \/ DefineFails

\* The loader is sequential code that waits for nothing.
Spec == Init /\ [][Next]_vars /\ WF_vars(Next)

----------------------------------------------------------------------------
\* The files whose load() is over.
Loaded == import_mapping \ {calls[i].file : i \in DOMAIN calls}

Order == INSTANCE LoadOrder WITH imports <- [f \in Files |-> ImportsOf(f)],
                                 loaded <- Loaded

\* Files are loaded once and after what they import, whatever cycles the imports
\* make (do_import looks a file up in import_mapping before it enters it).
OrderSpec == Order!Spec

\* Every path of the tree hangs below modules, each with a claimed origin where a
\* namespace ends, and no file is being loaded twice.
TypeOK ==
    /\ source \in Sources
    /\ import_mapping \subseteq Files
    /\ \A p \in DOMAIN symbols :
          /\ symbols[p] = <<>> \/ symbols[p] \in {<<f>> : f \in import_mapping}
          /\ \A q \in Prefixes(p) \ {p} : q \in DOMAIN symbols /\ symbols[q] = <<>>
    /\ DOMAIN origin = {Namespace(f) : f \in import_mapping}
    /\ \A p \in DOMAIN origin : origin[p] \in import_mapping /\ Namespace(origin[p]) = p
    /\ imported \subseteq DOMAIN origin
    /\ DOMAIN imported_modules \subseteq DOMAIN origin
    /\ \A i, j \in DOMAIN calls :
          /\ calls[i].file \in import_mapping
          /\ calls[i].phase \in {"import", "define"}
          /\ i # j => calls[i].file # calls[j].file
    /\ status \in {"start", "loading", "loaded", "no module", "no import", "clash",
                   "unknown name"}

\* A name that a define pass resolved stands for an element of a file whose own
\* define pass is over: half-loaded files of an import cycle offer no names yet
\* (perform_load loads the imports before declare_pass).
BoundAreLoaded ==
    \A r \in bound : r.to \in DOMAIN symbols /\ symbols[r.to] # <<>>
                        => symbols[r.to][1] \in Loaded

\* The first part of the name is found below the root, seen from the module of f.
Shadowed(f, nm) ==
    \E i \in 1 .. Len(Namespace(f)) :
       Append(SubSeq(Namespace(f), 1, i), Head(nm)) \in DOMAIN symbols

\* A file may use, by its full name, its own elements and every element of a file it
\* reaches by an import that does not lead back to it: define_pass is stopped only
\* by other names and by names that an enclosing module hides.  (What a file reaches
\* through a file that imports it back may not be loaded yet, although it
\* is in no cycle itself.)
FullNamesResolve ==
    status = "unknown name" =>
        LET f == Top.file IN
        \A i \in Unknown(f) :
           LET nm == source[f].uses[i] IN
           \/ Shadowed(f, nm)
           \/ \A g \in Files : nm \in Elements(g) =>
                 /\ f # g
                 /\ \A h \in ImportsOf(f) : Order!Reaches(h, g) => Order!Reaches(h, f)

\* What is resolved is of a file that is loaded, and loading is stopped only by names that
\* a nearer module hides or that a file was never promised: recursive_full_name_lookup
\* takes the innermost scope that has the first part, and does not try the others.
NamesResolve == BoundAreLoaded /\ FullNamesResolve

\* When loading is over the modules marked as imported, whose sections the back end
\* takes for written (emitter::is_satisfied), are those of the files that some file
\* imports, and every file reached from the main one is loaded.
Marked ==
    status = "loaded" =>
        /\ imported = {Namespace(g) : g \in UNION {ImportsOf(f) : f \in import_mapping}}
        /\ UNION {ImportsOf(f) : f \in import_mapping} \subseteq Loaded

\* The file names a generated header includes for a module (cppgen::generate).
Includes(path) == [i \in DOMAIN imported_modules[path] |->
                     origin[imported_modules[path][i]].stem]

\* Where no two files share a namespace a header includes the headers of the files
\* that its file imports, in their order.
Included ==
    (\A f, g \in import_mapping : Namespace(f) = Namespace(g) => f = g) =>
        \A f \in Loaded :
           /\ Len(Includes(Namespace(f))) = Len(source[f].imports)
           /\ \A i \in DOMAIN source[f].imports :
                 \E g \in resolve_import(source[f].imports[i], f.dir) :
                    Includes(Namespace(f))[i] = g.stem

\* What the back ends are told of the imports is what the files say.
ImportsRecorded == Marked /\ Included

\* Loading ends, however the imports are linked.
Terminates == <>(status \notin {"start", "loading"})
=============================================================================
