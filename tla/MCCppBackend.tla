------------------------------ MODULE MCCppBackend ------------------------------
EXTENDS CppBackend

Structure(mem)   == [kind |-> "structure", members |-> mem]
Params(mem)      == [kind |-> "params_struct", members |-> mem]
Service(ext, nm) == [kind |-> "service", extends |-> ext, members |-> <<>>,
                     procedures |-> IF nm = "P"
                        THEN <<[params_struct |-> "P_params", results_struct |-> "P_results"]>>
                        ELSE <<[params_struct |-> "Q_params", results_struct |-> "Q_results"]>>]
Orders(x, y) == {<<x, y>>, <<y, x>>}

\* Structures A and B, which may be imported, a union U, an enumeration E, generics g and h.
Decls(a, b, ukind, u, gkind, g) ==
    [s \in {"A", "B", "U", "E", "g", "h"} |->
        CASE s = "A" -> Structure(a) [] s = "B" -> Structure(b)
          [] s = "U" -> [kind |-> ukind, members |-> u]
          [] s = "E" -> [kind |-> "enumeration", members |-> <<>>]
          [] s = "g" -> [kind |-> gkind, members |-> g]
          [] s = "h" -> [kind |-> "generic_structure", members |-> <<<<"T">>>>]]

Held1 == {<<"B">>, <<"vector", "B">>, <<"g", "B">>, <<"ptr", "A">>, <<"E">>, <<"U">>,
          <<"g", "vector", "B">>}

TypeInterfaces ==
    {[decl |-> Decls(a, b, uk, u, gk, g), structs |-> st, unions |-> <<"U">>,
      enums |-> <<"E">>, services |-> <<>>, imported |-> {"A", "B"} \ Range(st)] :
        a \in {<<x, y>> : x \in Held1, y \in {<<"u8">>, <<"g", "U">>, <<"vector", "string">>}},
        b \in {<<>>, <<<<"u8">>>>, <<<<"vector", "u8">>, <<"string">>>>},
        uk \in {"union", "raw_union"}, u \in {<<<<"u8">>, <<"string">>>>, <<<<"B">>>>},
        gk \in Generics,
        g \in {<<<<"T">>>>, <<<<"u8">>, <<"T">>>>,
               <<<<"T">>, <<"h", "B">>>>, <<<<"ptr", "h", "E">>>>,
               <<<<"string">>, <<"T">>>>, <<<<"ptr", "B">>>>, <<<<"ptr", "vector", "E">>>>},
        st \in Orders("A", "B") \union {<<"A">>}}

\* Services P and Q with a procedure each; Q may extend P, which may be imported.
WithServices(base, ext, p, q) ==
    [s \in {"P", "Q", "P_params", "P_results", "Q_params", "Q_results"} |->
        CASE s = "P" -> Service(<<>>, "P") [] s = "Q" -> Service(ext, "Q")
          [] s = "P_params" -> Params(<<p>>) [] s = "P_results" -> Params(<<q>>)
          [] s = "Q_params" -> Params(<<q>>) [] s = "Q_results" -> Params(<<<<"u8">>>>)]
    @@ base

ServiceInterfaces(exts) ==
    {[decl |-> WithServices(Decls(a, b, "union", <<<<"B">>>>, "generic_structure", <<<<"T">>>>),
                            ext, p, q),
      structs |-> <<"A", "B">>, unions |-> <<"U">>, enums |-> <<>>,
      services |-> IF im = {} THEN sv ELSE <<"Q">>, imported |-> im] :
        a \in {<<<<"u8">>>>, <<<<"U">>>>, <<<<"vector", "B">>>>},
        b \in {<<<<"u8">>>>, <<<<"string">>>>},
        ext \in exts, sv \in Orders("P", "Q"), im \in {{}, {"P", "P_params", "P_results"}},
        p \in {<<"u8">>, <<"A">>, <<"string_view">>, <<"vector", "A">>},
        q \in {<<"u8">>, <<"g", "A">>, <<"A">>}}

All == TypeInterfaces \union ServiceInterfaces({<<>>, <<"P">>})
=============================================================================
