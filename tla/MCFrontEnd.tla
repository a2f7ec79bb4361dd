----------------------------- MODULE MCFrontEnd -----------------------------
EXTENDS FrontEnd

Name(base) == [base |-> <<base>>, args |-> <<>>]

Of(base, args) == [base |-> <<base>>, args |-> args]

Part(elem, part) == [base |-> <<elem, part>>, args |-> <<>>]

Member(name, type) == [name |-> name, type |-> type]

Elem(kind, name, params, extends, members) ==
    [kind |-> kind, name |-> name, params |-> params, extends |-> extends,
     members |-> members]

Enumerator(name, value) == [name |-> name, value |-> value]

Procedure(name, params, type) == [name |-> name, params |-> params, type |-> type]

AllHeads == {[namespace |-> <<>>, imports |-> <<>>],
             [namespace |-> <<"n", "m">>, imports |-> <<"'a'">>]}

AllElements ==
    {Elem("struct", "S", <<>>, <<>>,
          <<Member("a", Of("G", <<Name("u8"), [number |-> "2"]>>)),
            Member("v", Of("vector", <<Name("U")>>))>>),
     Elem("struct", "S", <<>>, <<Name("u8")>>,
          <<Member("a", Of("vector", <<Of("G", <<Name("u8"), [number |-> "1"]>>)>>))>>),
     Elem("struct", "X", <<>>, <<>>,
          <<Member("U", Name("u8")), Member("u", Name("U")), Member("c", Part("V", "call_union")),
            Member("p", Of("P", <<Name("u8")>>))>>),
     Elem("generic struct", "G", <<"T", "N">>, <<>>,
          <<Member("t", Name("T")), Member("v", Of("vector", <<Name("T")>>)),
            Member("s", Name("S"))>>),
     Elem("generic struct", "P", <<"T">>, <<>>, <<Member("g", Part("H", "T"))>>),
     Elem("generic union", "P", <<"T">>, <<>>,
          <<Member("t", Name("T")), Member("c", Part("V", "call_union"))>>),
     Elem("struct", "Q", <<>>, <<>>, <<Member("p", Of("P", <<Name("u8")>>))>>),
     Elem("generic union", "H", <<"T">>, <<Name("U")>>, <<Member("t", Name("T"))>>),
     Elem("union", "U", <<>>, <<>>, <<Member("b", Name("string"))>>),
     Elem("union", "W", <<>>, <<Name("U")>>,
          <<Member("c", Of("H", <<Name("string")>>)), Member("d", Of("H", <<[number |-> "1"]>>))>>),
     Elem("enum", "E", <<>>, <<>>, <<Enumerator("x", ""), Enumerator("y", "1")>>),
     Elem("enum", "F", <<>>, <<Name("E")>>, <<Enumerator("z", "")>>),
     Elem("enum", "D", <<>>, <<Name("F")>>, <<Enumerator("x", "")>>),
     Elem("service", "V", <<>>, <<>>,
          <<Procedure("f", <<>>, Name("u8")),
            Procedure("g", <<Member("p", Name("string")), Member("q", Name("X"))>>, Name("X"))>>),
     Elem("service", "R", <<>>, <<Name("V")>>, <<>>)}

AllPieces == {",", "<", "::", "/**/", "/* * */"}
=============================================================================
