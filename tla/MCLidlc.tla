----------------------------- MODULE MCLidlc -------------------------------
(***************************************************************************)
(* Programs of three of these elements: of one module, of two, and of one  *)
(* below another; references between them that go in a circle; what is     *)
(* next to what; an enumeration, a union and a service with what extends   *)
(* them; unions of services in members and in procedures.                  *)
(***************************************************************************)
EXTENDS Lidlc

T(path) == [to |-> path, args |-> <<>>]
Of(name, type) == [to |-> <<name>>, args |-> <<type>>]
U8 == T(<<"u8">>)

Elem(kind, path, base, members) ==
    [kind |-> kind, home |-> Front(path), name |-> Last(path), params |-> <<>>,
     base |-> base, members |-> members]
Struct(path, types) ==
    Elem("struct", path, <<>>, [k \in DOMAIN types |-> [name |-> ToString(k), type |-> types[k]]])
Proc(name, param, type) ==
    [name |-> name, params |-> <<[name |-> "x", type |-> param]>>, type |-> type]

S == <<"m", "S">>
E == <<"m", "E">>
U == <<"m", "U">>
V == <<"m", "V">>
Z == <<"n", "Z">>
Q == <<"m", "Q">>
R == <<"m", "b", "R">>
G == <<"m", "G">>

MCElements ==
    {Struct(S, <<U8>>),
     Struct(<<"m", "T">>, <<T(S)>>),
     Struct(<<"m", "A">>, <<Of("array", T(S))>>),
     Struct(<<"m", "P">>, <<Of("ptr", T(<<"m", "P">>))>>),
     Struct(Q, <<Of("ptr", T(R))>>),
     Struct(R, <<U8, Of("ptr", T(Q))>>),
     Struct(<<"m", "b", "X">>, <<T(S), Of("vector", T(U))>>),
     Struct(<<"m", "b", "Y">>, <<T(<<"m", "b", "X">>)>>),
     Struct(<<"n", "B">>, <<Of("array", T(S)), T(E)>>),
     Elem("enum", E, <<>>, <<[name |-> "x"], [name |-> "y"]>>),
     Elem("enum", <<"m", "b">>, <<E>>, <<[name |-> "z"]>>),
     Elem("union", U, <<>>, <<[name |-> "a", type |-> U8]>>),
     Elem("union", <<"n", "W">>, <<U>>, <<[name |-> "b", type |-> T(S)]>>),
     Elem("union", <<"m", "K">>, <<U>>,
          <<[name |-> "c", type |-> [to |-> G, args |-> <<U8>>]]>>),
     Elem("service", V, <<>>, <<Proc("f", U8, U8)>>),
     Elem("service", <<"m", "D">>, <<V>>, <<>>),
     Elem("service", Z, <<>>, <<Proc("g", U8, T(V \o <<"call_union">>))>>),
     Elem("service", <<"m", "Y">>, <<Z>>, <<Proc("h", U8, U8)>>),
     Elem("service", <<"m", "C">>, <<>>, <<Proc("f", U8, U8), Proc("f_params", U8, U8)>>),
     Elem("service", <<"n", "N">>, <<>>, <<Proc("g", U8, T(S))>>),
     Struct(<<"m", "L">>, <<T(V \o <<"call_union">>)>>),
     Struct(<<"n", "L">>, <<T(V \o <<"return_union">>)>>),
     [Struct(G, <<U8>>) EXCEPT !.kind = "generic struct", !.params = <<"T">>],
     Struct(<<"m", "H">>, <<T(S), [to |-> G, args |-> <<U8>>]>>)}
=============================================================================
