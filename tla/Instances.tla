------------------------------ MODULE Instances ------------------------------
(***************************************************************************)
(* Instances of generics (src/include/lidl/generics.hpp, src/src/          *)
(* generics.cpp, name.cpp) in the C++ back end's run over a module and its *)
(* children (cppgen.cpp, generic_gen.cpp).                                 *)
(*                                                                         *)
(* Every module has its own list of the instances it was asked for         *)
(* (module::name_ins); an instance is told by the module and the name.     *)
(* What the list of the generated module holds is generated, in the module *)
(* that has the generic: the structure or union an instance stands for is  *)
(* put into that module's scope, and the types of its members are asked    *)
(* for there.                                                              *)
(***************************************************************************)
EXTENDS Naturals, Sequences, SequencesExt

CONSTANTS
    Modules, Main, Children,  \* Children: the sequence of those of Main
    Generics,    \* those that users write: structures and unions
    Params,      \* for each its parameters
    MemberTypes, \* and the types of its members
    References,  \* what is a reference whatever it is applied to: string, vector
    Names,       \* the names that occur; a name is [base, args]; a pointer's base is "ptr"
    MaxUses      \* bound: uses in a module

IsInstance(n) == n.args # <<>>

\* generic_structure::instantiate and generic_union::instantiate: a member whose type is
\* a parameter gets the argument.  These are the members of an instance.
MembersOf(n) ==
    [i \in DOMAIN MemberTypes[n.base] |->
        LET type == MemberTypes[n.base][i]
            Is(p) == Params[n.base][p] = type.base
        IN IF \E p \in DOMAIN Params[n.base] : Is(p)
           THEN n.args[CHOOSE p \in DOMAIN Params[n.base] : Is(p)]
           ELSE type]

\* The category of what a declaration may name: an instance has that of what is
\* instantiated from it.
is_reference_type[n \in Names] ==
    \/ n.base \in References
    \/ /\ n.base \in Generics
       /\ \E i \in DOMAIN MembersOf(n) : is_reference_type[MembersOf(n)[i]]

\* category goes through the members up to the first that is a reference.
UpToReference(n) ==
    SelectInSeq(MembersOf(n), LAMBDA k : is_reference_type[k])

Visited(n) ==
    IF UpToReference(n) = 0 THEN MembersOf(n)
    ELSE SubSeq(MembersOf(n), 1, UpToReference(n))

Resolved(n) == IF IsInstance(n) THEN <<n>> ELSE <<>>

\* get_wire_type_name: a reference is a pointer on the wire, to a vector of what its
\* argument is on the wire.
wire_name[n \in Names] ==
    LET pointee == IF n.base \in References /\ IsInstance(n)
                   THEN [n EXCEPT !.args = <<wire_name[n.args[1]]>>]
                   ELSE n
    IN IF is_reference_type[n] THEN [base |-> "ptr", args |-> <<pointee>>] ELSE n

\* The instances it asks for, in order: the name itself, then what its argument, if it is a
\* vector, or its category leads to, and the pointer.
wire_calls[n \in Names] ==
    Resolved(n) \o
    FlattenSeq(IF n.base \in Generics
               THEN [i \in DOMAIN Visited(n) |-> wire_calls[Visited(n)[i]]]
               ELSE IF n.base \in References
               THEN [i \in DOMAIN n.args |-> wire_calls[n.args[i]]]
               ELSE <<>>) \o
    (IF wire_name[n] # n THEN <<wire_name[n]>> ELSE <<>>)

\* And category alone.
category_calls(n) ==
    FlattenSeq(IF n.base \in Generics
               THEN [i \in DOMAIN Visited(n) |-> wire_calls[Visited(n)[i]]]
               ELSE <<>>)

\* A name, its arguments, and theirs.
Nested[n \in Names] == <<n>> \o FlattenSeq([i \in DOMAIN n.args |-> Nested[n.args[i]]])

\* What a generator does with a list of member types: it asks for the wire type of each,
\* then for the keys each depends on.
Wires(types) == [i \in DOMAIN types |-> [name |-> types[i], key |-> FALSE]]
Keys(types) ==
    LET all == FlattenSeq([i \in DOMAIN types |-> Nested[types[i]]]) IN
    [i \in DOMAIN all |-> [name |-> all[i], key |-> TRUE]]

\* The types that the declarations of a module may use.
Declared == UNION {[1 .. k -> {n \in Names : n.base # "ptr"}] : k \in 0 .. MaxUses}

\* backend::generate: the children first.
Order == Append(Children, Main)

\* Names are finite, an instance has as many arguments as its generic has parameters, and
\* no type holds itself: every recursion above ends.
ASSUME InstancesAssumption ==
    /\ Children \in Seq(Modules) /\ Main \in Modules /\ MaxUses \in Nat
    /\ \A i, j \in DOMAIN Order : Order[i] = Order[j] => i = j
    /\ \A n \in Names :
          /\ n.base \in Generics => Len(n.args) = Len(Params[n.base]) /\ IsInstance(n)
          /\ n.base \in Generics => MembersOf(n) \in Seq(Names)
          /\ wire_calls[n] \in Seq({k \in Names : IsInstance(k)})
          /\ category_calls(n) \in Seq({k \in Names : IsInstance(k)})
    /\ \A types \in Declared \cup {MembersOf(n) : n \in {k \in Names : k.base \in Generics}} :
          Keys(types) \in Seq([name : Names, key : {TRUE}])

VARIABLES
    parent,    \* the module of each generic
    uses,      \* the types of the members that the declarations of a module have
    name_ins,  \* for each module the instances it was asked for, in order
    symbols,   \* for each module the instances whose classes are in its scope
    at,        \* which of the modules to be generated is at work
    asked,     \* the module that is asked
    work,      \* the member types that are still to be gone through
    pending,   \* the instances still to be asked for
    waited,    \* instances whose definitions a section depends on: <<module, name>>
    defined,   \* and those that a section defines
    ins, ins_end,  \* the range-for over instantiations: where it is, and the end it keeps
    upto,      \* for each module that was gone through, the end
    status
vars == <<parent, uses, name_ins, symbols, at, asked, work, pending, waited, defined,
          ins, ins_end, upto, status>>
input == <<parent, uses>>

\* The module that is generated.
current == Order[at]

Begin(i) ==
    /\ at' = i /\ asked' = Order[i]
    /\ work' = Wires(uses[Order[i]]) \o Keys(uses[Order[i]])
    /\ waited' = {} /\ defined' = {} /\ ins' = 0 /\ ins_end' = 0

Init ==
    /\ parent \in [Generics -> Modules]
    /\ \E some \in [Range(Order) -> Declared] :
          uses = [m \in Modules |-> IF m \in Range(Order) THEN some[m] ELSE <<>>]
    /\ name_ins = [m \in Modules |-> <<>>]
    /\ symbols = [m \in Modules |-> {}]
    /\ at = 1 /\ asked = Order[1]
    /\ work = Wires(uses[Order[1]]) \o Keys(uses[Order[1]])
    /\ pending = <<>> /\ waited = {} /\ defined = {} /\ ins = 0 /\ ins_end = 0
    /\ upto = [m \in Modules |-> 0]
    /\ status = "generating"

Is(s, list) == \E i \in DOMAIN list : list[i] = s

Iterating == ins \in 1 .. ins_end

\* module::create_or_get_instantiation.  instantiations, which has what name_ins names, may
\* have to be moved for a new one: a loop that is going through it goes on in what is freed.
create_or_get_instantiation ==
    /\ status = "generating" /\ pending # <<>>
    /\ pending' = Tail(pending)
    /\ IF Is(Head(pending), name_ins[asked])
       THEN UNCHANGED <<name_ins, status>>
       ELSE /\ name_ins' = [name_ins EXCEPT ![asked] = Append(@, Head(pending))]
            /\ \/ UNCHANGED status
               \/ asked = current /\ Iterating /\ status' = "undefined"
    /\ UNCHANGED <<input, symbols, at, asked, work, waited, defined, ins, ins_end, upto>>

\* Mutant of GoThrough: the keys are those of the generated module's instances.
GoThroughCurrent ==
    /\ status = "generating" /\ pending = <<>> /\ work # <<>>
    /\ LET n == Head(work).name IN
       IF Head(work).key
       THEN /\ pending' = Resolved(n) \o category_calls(n)
            /\ waited' = IF n.base \in Generics THEN waited \cup {<<current, n>>} ELSE waited
       ELSE pending' = wire_calls[n] /\ UNCHANGED waited
    /\ work' = Tail(work)
    /\ UNCHANGED <<input, name_ins, symbols, at, asked, defined, ins, ins_end, upto, status>>

\* One member type: its wire type, or the keys of it or of a name in it.
GoThrough ==
    /\ status = "generating" /\ pending = <<>> /\ work # <<>>
    /\ LET n == Head(work).name IN
       IF Head(work).key
       THEN /\ pending' = Resolved(n) \o category_calls(n)
            /\ waited' = IF n.base \in Generics THEN waited \cup {<<asked, n>>} ELSE waited
       ELSE /\ pending' = wire_calls[n]
            /\ UNCHANGED waited
    /\ work' = Tail(work)
    /\ UNCHANGED <<input, name_ins, symbols, at, asked, defined, ins, ins_end, upto, status>>

Free == status = "generating" /\ pending = <<>> /\ work = <<>>

\* The declarations are through: the instances begin.
StartInstances ==
    /\ Free /\ ins = 0
    /\ ins' = 1 /\ ins_end' = Len(name_ins[current])
    /\ upto' = [upto EXCEPT ![current] = Len(name_ins[current])]
    /\ UNCHANGED <<input, name_ins, symbols, at, asked, work, pending, waited, defined, status>>

\* Mutant of GenerateInstance: what is in the scope already is defined again.
GenerateAgain ==
    /\ Free /\ Iterating
    /\ LET n == name_ins[current][ins]
           par_mod == parent[n.base]
       IN IF n.base \notin Generics
          THEN UNCHANGED <<symbols, asked, work, defined>>
          ELSE /\ symbols' = [symbols EXCEPT ![par_mod] = @ \cup {n}]
               /\ asked' = par_mod
               /\ work' = Wires(MembersOf(n)) \o Keys(MembersOf(n))
               /\ defined' = defined \cup {<<current, n>>}
    /\ ins' = ins + 1
    /\ UNCHANGED <<input, name_ins, at, pending, waited, ins_end, upto, status>>

\* generic_gen::generate and do_generate.  define throws for what is there.
GenerateInstance ==
    /\ Free /\ Iterating
    /\ LET n == name_ins[current][ins]
           par_mod == parent[n.base]
       IN IF n.base \notin Generics
          THEN UNCHANGED <<symbols, asked, work, defined, status>>
          ELSE IF n \in symbols[par_mod]
               THEN status' = "redefined" /\ UNCHANGED <<symbols, asked, work, defined>>
               ELSE /\ symbols' = [symbols EXCEPT ![par_mod] = @ \cup {n}]
                    /\ asked' = par_mod
                    /\ work' = Wires(MembersOf(n)) \o Keys(MembersOf(n))
                    /\ defined' = defined \cup {<<current, n>>}
                    /\ UNCHANGED status
    /\ ins' = ins + 1
    /\ UNCHANGED <<input, name_ins, at, pending, waited, ins_end, upto>>

\* The emitter, which finds no module for an instance, needs every definition that is
\* waited for to be there; then comes the next module.
Emit ==
    /\ Free /\ ins > 0 /\ ~Iterating
    /\ IF ~(waited \subseteq defined)
       THEN /\ status' = "unresolved"
            /\ UNCHANGED <<at, asked, work, waited, defined, ins, ins_end>>
       ELSE IF at = Len(Order)
            THEN /\ status' = "done"
                 /\ UNCHANGED <<at, asked, work, waited, defined, ins, ins_end>>
            ELSE Begin(at + 1) /\ UNCHANGED status
    /\ UNCHANGED <<input, name_ins, symbols, pending, upto>>

Next == \/ create_or_get_instantiation \/ GoThrough \/ StartInstances \/ GenerateInstance
        \/ Emit

Spec == Init /\ [][Next]_vars

------------------------------------------------------------------------------
\* Properties.

\* What was generated of a module.
Classes(i) == {n \in {name_ins[Order[i]][k] : k \in 1 .. upto[Order[i]]} : n.base \in Generics}

\* The lists of the modules know nothing of each other: that of a module and that of its
\* child may both hold an instance.  Its class is put into the one scope of the generic
\* twice ("Can't redefine an existing name!"), and that is all that can be redefined.
RedefinedIfShared ==
    /\ status = "redefined" => \E i \in 1 .. at - 1 : Classes(i) \cap Classes(at) # {}
    /\ \A i, j \in 1 .. at - 1 : i # j => Classes(i) \cap Classes(j) = {}
    /\ status = "done" => \A i \in 1 .. at - 1 : Classes(i) \cap Classes(at) = {}

\* A class made of a generic of another module waits for the instances among its members
\* as that module has them, and only the generated module's are defined.
WaitsElsewhere(i) ==
    \E n \in Classes(i) : /\ parent[n.base] # Order[i]
                          /\ \E w \in DOMAIN Keys(MembersOf(n)) :
                                 Keys(MembersOf(n))[w].name.base \in Generics

\* So the emitter refuses those; anything else it refuses is an instance that came up too
\* late, when the instances were gone through already.
UnresolvedIfElsewhere ==
    /\ status = "unresolved" =>
          \/ WaitsElsewhere(at)
          \/ Len(name_ins[current]) > upto[current]
    /\ \A i \in 1 .. at - 1 : ~WaitsElsewhere(i)
    /\ status = "done" => ~WaitsElsewhere(at)

\* No list holds an instance twice, and each class is in the scope of its generic.
TypeOK ==
    /\ \A m \in Modules : /\ name_ins[m] \in Seq({n \in Names : IsInstance(n)})
                          /\ \A i, j \in DOMAIN name_ins[m] :
                                name_ins[m][i] = name_ins[m][j] => i = j
                          /\ \A n \in symbols[m] : parent[n.base] = m
                          /\ upto[m] \in 0 .. Len(name_ins[m])
    /\ at \in DOMAIN Order /\ asked \in Modules
    /\ ins_end \in {0, upto[current]} /\ ins \in 0 .. ins_end + 1
    /\ \A key \in defined : key[2] \in symbols[parent[key[2].base]]
    /\ status \in {"generating", "undefined", "redefined", "unresolved", "done"}
=============================================================================
