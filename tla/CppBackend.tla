------------------------------- MODULE CppBackend -------------------------------
(***************************************************************************)
(* The C++ back end on one module: cppgen::generate collects the sections  *)
(* of its declarations kind by kind, then of the instantiations of         *)
(* generics, and the emitter writes them, pass by pass.                    *)
(*                                                                         *)
(* module::instantiations is a vector that grows whenever a generator      *)
(* looks up an instance for the first time, also while generate goes       *)
(* through it with a range-for.                                            *)
(***************************************************************************)
EXTENDS CppSections

CONSTANT Interfaces   \* the modules that may be given

\* What the loaders make: the symbols of a name but the last take an argument, lists hold
\* what is declared.
OfKinds(decl, kinds) == {s \in DOMAIN decl : decl[s].kind \in kinds}

NamesIn(decl) ==
    {nm \in Seq(Intrinsics \union DOMAIN decl) :
        /\ nm # <<>>
        /\ \A k \in 1 .. Len(nm) :
              nm[k] \in {"ptr", "vector"} \union OfKinds(decl, Generics) <=> k < Len(nm)}

WellFormed(i) ==
    LET structures == OfKinds(i.decl, {"params_struct"})
        services   == OfKinds(i.decl, {"service"})
        procedures == [params_struct : structures, results_struct : structures]
    IN  /\ DOMAIN i.decl \intersect (Intrinsics \union Made) = {}
        /\ \A s \in DOMAIN i.decl :
              i.decl[s].members \in Seq(NamesIn(i.decl) \union
                  IF i.decl[s].kind \in Generics THEN {<<"T">>} ELSE {})
        /\ \A s \in services : /\ i.decl[s].extends \in Seq(services)
                               /\ i.decl[s].procedures \in Seq(procedures)
        /\ i.enums \in Seq(OfKinds(i.decl, {"enumeration"}))
        /\ i.structs \in Seq(OfKinds(i.decl, {"structure"}))
        /\ i.unions \in Seq(OfKinds(i.decl, {"union", "raw_union"}))
        /\ i.services \in Seq(services)
        /\ \A s \in Range(i.services) :
              /\ s \notin i.imported
              /\ \A p \in Range(i.decl[s].procedures) :
                    {p.params_struct, p.results_struct} \intersect i.imported = {}

ASSUME BackendAssumption ==
    /\ MaxDepth \in Nat /\ MaxDepth >= 2
    /\ \A i \in Interfaces : WellFormed(i)

VARIABLES
    instantiations,  \* the instances looked up so far, in order
    m_sections,      \* the sections collected, in order
    ins, ins_end,    \* the range-for: where it is and the end it keeps
    passes,          \* what each pass of the emitter wrote: sets of positions
    stage            \* "start", "enums", "unions", "structs", "services",
                     \* "instances", "emit", "done", "failed", "undefined"

backend_vars == <<iface, instantiations, m_sections, ins, ins_end, passes, stage>>

------------------------------------------------------------------------------
\* Each name is appended where it is asked for first.
create_or_get_instantiations(have, names) ==
    have \o FlattenSeq([n \in DOMAIN names |->
                LET before == Range(have) \union {names[k] : k \in 1 .. n - 1}
                IN  IF names[n] \in before THEN <<>> ELSE <<names[n]>>])

\* The vector's storage moves when it is full: its capacity doubles.
Reallocates(from, to) == \E n \in 0 .. 5 : from <= 2^n /\ to > 2^n

BackendInit ==
        /\ iface \in Interfaces
        /\ Names \subseteq ends[MaxDepth]
        /\ instantiations = <<>>
        /\ m_sections = <<>>
        /\ ins = 1 /\ ins_end = 0
        /\ passes = <<>>
        /\ stage = "start"

\* One of the loops of generate over the module's lists.
Collect(from, to, list, sects(_), calls(_)) ==
    /\ stage = from
    /\ stage' = to
    /\ m_sections' = m_sections \o FlattenSeq([n \in DOMAIN list |-> sects(list[n])])
    /\ instantiations' = create_or_get_instantiations(instantiations,
                             FlattenSeq([n \in DOMAIN list |-> calls(list[n])]))
    /\ UNCHANGED <<iface, ins, ins_end, passes>>

\* The unions of calls are made first: they are renamed.
NoSections(x) == <<>>
RenameUnions == Collect("start", "enums", iface.services, NoSections, union_calls)

Enum(sym) == enum_gen(<<sym>>)
NoCalls(x) == <<>>
GenerateEnums == Collect("enums", "unions", iface.enums, Enum, NoCalls)

TypeCalls(sym) == member_calls(Members(<<sym>>))

Union(sym) == IF Kind(sym) = "raw_union" THEN raw_union_gen(<<sym>>, Members(<<sym>>))
              ELSE union_gen(<<sym>>, Members(<<sym>>))
GenerateUnions == Collect("unions", "structs", iface.unions, Union, TypeCalls)

Struct(sym) == struct_gen(<<sym>>, Members(<<sym>>), <<>>)
GenerateStructs == Collect("structs", "services", iface.structs, Struct, TypeCalls)

\* The services, and where the range-for over the instantiations begins and ends.
GenerateServices ==
    /\ stage = "services"
    /\ stage' = "instances"
    /\ m_sections' = m_sections \o FlattenSeq([n \in DOMAIN iface.services |->
                                                  service_gen(iface.services[n])])
    /\ instantiations' = create_or_get_instantiations(instantiations,
            FlattenSeq([n \in DOMAIN iface.services |-> service_calls(iface.services[n])]))
    /\ ins' = 1
    /\ ins_end' = Len(instantiations')
    /\ UNCHANGED <<iface, passes>>

\* The instance the loop is at.  Instances that its members need are appended to
\* the vector: the loop does not see them, and goes on in freed storage when the
\* vector has moved.
GenerateInstance ==
    /\ stage = "instances" /\ ins <= ins_end
    /\ LET nm    == instantiations[ins]
           calls == IF Kind(Head(nm)) \in Generics THEN member_calls(Members(nm)) ELSE <<>>
       IN /\ m_sections' = m_sections \o generic_gen(nm)
          /\ instantiations' = create_or_get_instantiations(instantiations, calls)
    /\ ins' = ins + 1
    /\ stage' = IF /\ Reallocates(Len(instantiations), Len(instantiations'))
                   /\ ins < ins_end
                THEN "undefined" ELSE stage
    /\ UNCHANGED <<iface, ins_end, passes>>

StartEmitter ==
    /\ stage = "instances" /\ ins > ins_end
    /\ stage' = "emit"
    /\ UNCHANGED <<iface, instantiations, m_sections, ins, ins_end, passes>>

------------------------------------------------------------------------------
\* Keys of the language's own types and of imported modules.
GivenKeys == {k \in UNION {m_sections[n].depends_on : n \in DOMAIN m_sections} :
              Len(k[2]) = 1 /\ k[2][1] \in Intrinsics \union iface.imported}

Written == UNION Range(passes)

Emission == INSTANCE EmitterPasses WITH
                input   <- [sections |-> m_sections, given |-> GivenKeys],
                written <- Written,
                outcome <- IF stage \in {"done", "failed"} THEN stage ELSE "running"

EmitPass ==
    /\ stage = "emit" /\ Emission!Ready # {}
    /\ passes' = Append(passes, Emission!Ready)
    /\ UNCHANGED <<iface, instantiations, m_sections, ins, ins_end, stage>>

EndEmit ==
    /\ stage = "emit" /\ Emission!Ready = {}
    /\ stage' = IF Written = DOMAIN m_sections THEN "done" ELSE "failed"
    /\ UNCHANGED <<iface, instantiations, m_sections, ins, ins_end, passes>>

BackendNext ==
    \/ RenameUnions \/ GenerateEnums \/ GenerateUnions \/ GenerateStructs
    \/ GenerateServices \/ GenerateInstance \/ StartEmitter \/ EmitPass \/ EndEmit

BackendSpec == BackendInit /\ [][BackendNext]_backend_vars /\ WF_backend_vars(BackendNext)

------------------------------------------------------------------------------
\* What the emitted text is sure to have in this order: the order of the namespaces
\* within a pass is that of an unordered_map.
PassOf(n) == CHOOSE p \in DOMAIN passes : n \in passes[p]
SurelyBefore(n, m) ==
    \/ PassOf(n) < PassOf(m)
    \/ /\ PassOf(n) = PassOf(m) /\ n < m
       /\ m_sections[n].name_space = m_sections[m].name_space
With(key) == {n \in DOMAIN m_sections : key \in m_sections[n].keys}
Imported(sym) == Head(sym) \in Intrinsics \union iface.imported
Precedes(key, n) == Imported(key[2]) \/ \E m \in With(key) : SurelyBefore(m, n)

\* The classes of the emitted file and what they hold.
Instances == {nm \in Range(instantiations) : Kind(Head(nm)) \in Generics}
Declared  == {s \in DOMAIN iface.decl : /\ Kind(s) \in Compounds \ Generics
                                        /\ s \notin iface.imported}
CallUnions == UNION {Range(Unions(s)) : s \in Range(iface.services)}
Classes == Instances \union {<<s>> : s \in Declared} \union CallUnions
Held(class) ==
    IF class \in CallUnions
    THEN LET procs == all_procedures(class[2]) IN
         {IF class[1] = "call_union" THEN <<procs[n].params_struct>>
          ELSE <<procs[n].results_struct>> : n \in DOMAIN procs}
    ELSE Range(Members(class))

\* A class that holds another by value comes after its complete definition; whether
\* it holds it by value is for get_wire_type_name to say, not for the sections.
CompleteBeforeHeld ==
    stage = "done" =>
        \A class \in Classes : \A n \in With(<<"definition", class>>) :
            \A nm \in Held(class) :
                Head(get_wire_type_name(nm)) # "ptr" =>
                    nm[1] = "u8" \/ Precedes(<<"definition", nm>>, n)

\* operator== is no template: those of the members it calls come before it, though
\* no section depends on one.
Comparable(nm) ==
    /\ Kind(Head(nm)) \in Compounds \ {"raw_union"}
    /\ Members(nm) # <<>>
EqKey(class) == <<"eq_operator",
                  IF class \in Instances THEN <<"throwaway">> \o class ELSE class>>
Dereferenced(nm) == IF Head(nm) = "ptr" THEN Tail(nm) ELSE nm
ComparedBeforeComparing ==
    stage = "done" =>
        \A class \in Classes : \A n \in With(EqKey(class)) :
            \A nm \in {Dereferenced(x) : x \in Held(class)} :
                Comparable(nm) => Precedes(EqKey(nm), n)

\* A service's descriptor takes the addresses of members of its servers: they are
\* complete by then, though it does not depend on them.
DescribedAfterServers ==
    stage = "done" =>
        \A s \in Range(iface.services) : \A n \in With(<<"service_descriptor", <<s>>>>) :
            /\ Precedes(<<"sync_server", <<s>>>>, n)
            /\ Precedes(<<"async_server", <<s>>>>, n)

\* What the text of a section needs comes before it, whether or not the section's keys
\* say so.
CompleteWhenUsed == CompleteBeforeHeld /\ ComparedBeforeComparing /\ DescribedAfterServers

\* The emitter throws exactly at types that hold themselves behind a pointer, and where
\* an instance of a generic has no sections.
Reached(syms) ==
    LET Used(t) == UNION {Range(nm) : nm \in Range(iface.decl[t].members)}
        reached[n \in 0 .. Cardinality(DOMAIN iface.decl)] ==
          IF n = 0 THEN syms
          ELSE LET less == reached[n - 1]
               IN  less \union ((UNION {Used(t) : t \in less}) \intersect DOMAIN iface.decl)
    IN  reached[Cardinality(DOMAIN iface.decl)]
Recursive == \E t \in Declared : \E n \in DOMAIN iface.decl[t].members :
                t \in Reached(Range(iface.decl[t].members[n]) \intersect DOMAIN iface.decl)
\* The instances of generics that were looked up after the range-for had taken its end.
Missed == {k \in ins_end + 1 .. Len(instantiations) :
              Kind(Head(instantiations[k])) \in Generics}
FailsOnRecursion ==
    stage \in {"done", "failed"} => ((stage = "failed") = (Recursive \/ Missed # {}))

\* While generate goes through the instantiations, one is added only for a member of the
\* instance it is at that its category did not look at, being behind one that is a
\* reference, or did not look into: an argument of something else than a vector that has
\* arguments itself, or that another module declares.  All others were looked up when the
\* category of their user was asked for, or where they are declared.
Elsewhere(s) == Kind(s) \in Compounds /\ s \notin Range(iface.structs) \union Range(iface.unions)
Unseen(nm, k) == \E j \in 1 .. k - 1 : nm[j] # "vector"
Overlooked(nm) ==
    LET mem == Members(nm) IN
    \/ \E n \in DOMAIN mem : \E k \in 1 .. n - 1 : is_reference_type(mem[k])
    \/ \E n \in DOMAIN mem : \E k \in DOMAIN mem[n] :
          Unseen(mem[n], k) /\ (k < Len(mem[n]) \/ Elsewhere(mem[n][k]))
NoneAddedMeanwhile ==
    [][stage = "instances" /\ instantiations' # instantiations
          => Overlooked(instantiations[ins])]_backend_vars
=============================================================================
