---------------------------- MODULE MCModuleLoad ----------------------------
(* Three .lidl files that import one another in every which way, and a text  *)
(* file that an import without extension may hit.                            *)
EXTENDS ModuleLoad, TLC

file(dir, stem, ext) == [dir |-> dir, stem |-> stem, ext |-> ext]

m == file("lib", "m", "lidl")
a == file("lib", "a", "lidl")
b == file("lib", "b", "lidl")
t == file("inc", "b", "txt")

MCFiles == {m, a, b, t}
MCListing == "inc" :> <<t>> @@ "lib" :> <<m, a, b>>
MCBasePaths == <<"inc", "lib">>
MCBasic == {"i8"}

name(kind, dir, stem, ext) == [kind |-> kind, dir |-> dir, stem |-> stem, ext |-> ext]

MCMain == name("absolute", "lib", "m", "lidl")
A == name("search", "", "a", "")
AToo == name("relative", "", "a", "lidl")
B == name("relative", "", "b", "")
NoB == name("search", "", "b", "")
M == name("search", "", "m", "lidl")

held(namespace, imports, element, uses) ==
    [parses |-> TRUE, namespace |-> namespace, imports |-> imports,
     elements |-> <<element>>, uses |-> uses]

Nothing == [parses |-> FALSE, namespace |-> <<"t">>, imports |-> <<>>,
            elements |-> <<>>, uses |-> <<>>]

Programs(spaces, used) ==
    {m :> held(<<"m">>, im, "em", um) @@ a :> held(<<"a">>, ia, "ea", ua)
       @@ b :> held(nb, ib, "eb", ub) @@ t :> Nothing :
         im \in {<<>>, <<A>>, <<B>>, <<A, B>>, <<B, A>>, <<A, AToo>>, <<A, M>>},
         ia \in {<<>>, <<B>>, <<M>>, <<B, M>>},
         ib \in {<<>>, <<A>>, <<M>>, <<A, M>>, <<M, B>>},
         nb \in spaces, um \in used, ua \in used, ub \in used}

Spaces == {<<"b">>, <<"a", "b">>, <<"b", "a">>}

\* Programs where one file uses a name of another, or of the basic module.
OneUse == {s \in Programs(Spaces, {<<>>, <<<<"m", "em">>>>, <<<<"a", "ea">>>>, <<<<"i8">>>>})
                  \cup Programs({<<"b">>}, {<<>>, <<<<"b", "eb">>, <<"i8">>>>}) :
             Cardinality({f \in MCFiles : s[f].uses # <<>>}) <= 1}

\* Programs that go wrong: a namespace that is an element, an element that is a
\* namespace or is there already, a file that is not there or does not parse.
plain == m :> held(<<"m">>, <<A, B>>, "em", <<<<"a", "ea">>>>)
           @@ a :> held(<<"a">>, <<>>, "ea", <<>>)
           @@ b :> held(<<"b">>, <<A>>, "eb", <<>>) @@ t :> Nothing

Wrong == {[plain EXCEPT ![b].namespace = <<"a", "ea">>],
          [plain EXCEPT ![b].namespace = <<"a">>, ![b].elements = <<"ea">>],
          [plain EXCEPT ![b].namespace = <<"a">>],
          [plain EXCEPT ![b].elements = <<"eb", "eb">>],
          [plain EXCEPT ![a].namespace = <<"b">>, ![a].elements = <<"c">>,
                        ![b].namespace = <<"b", "c">>, ![b].imports = <<>>],
          [plain EXCEPT ![m].imports = <<NoB>>],
          [plain EXCEPT ![b].parses = FALSE],
          [plain EXCEPT ![m].parses = FALSE]}

\* The namespace "module" is that of every file that names none.
OneModule == {[plain EXCEPT ![m].namespace = <<"module">>, ![m].imports = <<A>>,
                            ![m].uses = <<<<"ea">>>>,
                            ![a].namespace = <<"module">>, ![a].imports = <<B>>,
                            ![b].imports = i] :
                i \in {<<>>, <<A>>, <<M>>}}

MCSources == OneUse \cup Wrong \cup OneModule
=============================================================================
