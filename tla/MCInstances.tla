---------------------------- MODULE MCInstances ----------------------------
(* A module, two children, and one it imports; generics that hold their parameter, and one *)
(* that holds an instance behind a reference.                                           *)
EXTENDS Instances

CONSTANTS Child, Sibling, Other
MCChildren == <<Child, Sibling>>

N(base) == [base |-> base, args |-> <<>>]
Of(base, n) == [base |-> base, args |-> <<n>>]

MCGenerics == {"g", "h"}
MCParams == [g \in MCGenerics |-> <<"T">>]
MCMemberTypes ==
    [x \in MCGenerics |-> IF x = "g" THEN <<N("T"), N("u8")>>
                          ELSE <<N("string"), N("T"), Of("g", N("u8"))>>]
MCNames == {N("u8"), N("string"), Of("g", N("u8")), Of("g", N("string")),
            Of("g", Of("g", N("u8"))), Of("h", N("u8")), Of("vector", Of("g", N("u8"))),
            Of("ptr", N("string")), Of("ptr", Of("g", N("string"))), Of("ptr", Of("h", N("u8"))),
            Of("ptr", Of("vector", Of("g", N("u8"))))}
=============================================================================
