----------------------------- MODULE MCServices -----------------------------
(* Three services, and names that can meet in one scope. *)
EXTENDS Services, TLC

MCProcNames == {"f", "f_params", "call_union", "alternatives"}
MCNameOf == [w \in Unions |-> [p \in MCProcNames |->
               p \o IF w = "call_union" THEN "_params" ELSE "_results"]]

Symmetry == Permutations(Services)
=============================================================================
