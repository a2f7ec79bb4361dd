--------------------------- MODULE Services_proofs ---------------------------
(***************************************************************************)
(* What holds of services, their unions and their scopes, for any services *)
(* and names, in whatever order their parts are asked for.                 *)
(***************************************************************************)
EXTENDS Services, SequenceTheorems, TLAPS

Slot == [name : Names, def : Symbols]
MemberType == [name : ProcNames, type : [scope : Services, id : Nat], src_info : Services \X Nat]

InList(s) == {inheritance_list[s][i] : i \in DOMAIN inheritance_list[s]}

Members(s) == unions[s]["call_union"].members
Source(s, i) == Members(s)[i].src_info

----------------------------------------------------------------------------
\* The inductive invariant.

\* Nothing is made while services are loaded.
Untouched ==
    status \in {"loading", "not_loaded"} =>
       structs = <<>> /\ unions = <<>> /\ enums = <<>> /\ made = {} /\ current = <<>>

\* What a slot of a service may be.
SlotOf(s, i) ==
    LET slot == table[s][i] IN
    \/ slot.name \in Unions /\ slot.def = forward_decl
    \/ \E k \in DOMAIN procedures[s] :
          slot.name = procedures[s][k] /\ slot.def = Procedure(<<s, k>>)
    \/ \E k \in DOMAIN procedures[s], w \in Unions :
          /\ <<s, k>> \in DOMAIN structs /\ structs[<<s, k>>][w] = i
          /\ slot.name = NameOf[w][procedures[s][k]] /\ slot.def = Struct(<<s, k>>, w)
    \/ s \in made /\ slot.name \in Unions /\ slot.def = Union(s, slot.name)

\* And what is in them.
SlotsOf(s) ==
    /\ \A i \in DOMAIN table[s] : SlotOf(s, i)
    /\ \A k \in DOMAIN procedures[s] : \E i \in DOMAIN table[s] :
          table[s][i] = [name |-> procedures[s][k], def |-> Procedure(<<s, k>>)]
    /\ \A w \in Unions : \E i \in DOMAIN table[s] :
          table[s][i].name = w /\ (s \in made => table[s][i].def = Union(s, w))

Slots == \A s \in Services : SlotsOf(s)

Structs ==
    \A r \in DOMAIN structs, w \in Unions :
       /\ structs[r][w] \in DOMAIN table[r[1]]
       /\ table[r[1]][structs[r][w]] = [name |-> NameOf[w][ProcName(r)], def |-> Struct(r, w)]

UnionTypes ==
    \A s \in DOMAIN unions :
       unions[s] \in [Unions -> [scope : Seq(Slot), members : Seq(MemberType)]]

\* The scope of a union has its members and "alternatives", which is a forward
\* declaration until it is asked for.
UnionSlotsOf(s, w) ==
    LET scope == unions[s][w].scope
        members == unions[s][w].members IN
    /\ \A i \in DOMAIN scope :
          \/ /\ scope[i].name = "alternatives"
             /\ \/ scope[i].def = forward_decl
                \/ scope[i].def = Alternatives /\ <<s, w>> \in DOMAIN enums
          \/ \E k \in DOMAIN members :
                scope[i] = [name |-> members[k].name, def |-> Member(k)]
    /\ \A k \in DOMAIN members : \E i \in DOMAIN scope :
          scope[i] = [name |-> members[k].name, def |-> Member(k)]
    /\ <<s, w>> \in DOMAIN enums /\ status # "no_alternatives" =>
          \E i \in DOMAIN scope : scope[i] = [name |-> "alternatives", def |-> Alternatives]

UnionSlots == \A s \in DOMAIN unions, w \in Unions : UnionSlotsOf(s, w)

\* A member is for a procedure, in both unions the same one.
MemberFor(r, w) ==
    [name |-> ProcName(r), type |-> [scope |-> r[1], id |-> structs[r][w]], src_info |-> r]

MembersOf(s, w) ==
    /\ Len(unions[s][w].members) = Len(Members(s))
    /\ \A i \in DOMAIN unions[s][w].members :
          /\ Source(s, i) \in all_procedures(s) /\ Source(s, i) \in DOMAIN structs
          /\ unions[s][w].members[i] = MemberFor(Source(s, i), w)

UnionMembers == \A s \in DOMAIN unions, w \in Unions : MembersOf(s, w)

\* The members made so far are the first procedures of the service, in their order.
OrderedOf(s) ==
    /\ \A i, j \in DOMAIN Members(s) : i < j => Before(s, Source(s, i), Source(s, j))
    /\ \A j \in DOMAIN Members(s) : \A q \in all_procedures(s) :
          Before(s, q, Source(s, j)) => \E i \in 1 .. j - 1 : Source(s, i) = q

Ordered == \A s \in DOMAIN unions : OrderedOf(s)

\* So they are those of a base, as far as both are made.
Alike ==
    \A s, t \in DOMAIN unions :
       t \in InList(s) =>
          \A n \in DOMAIN Members(s) \cap DOMAIN Members(t) : Source(s, n) = Source(t, n)

Complete == \A s \in made : Left(s) = {}

\* A program that stopped has met what ClashesRefused says.
Stopped ==
    /\ status = "clash" => current # <<>> /\ Clash(current[1])
    /\ status = "no_alternatives" => \E e \in DOMAIN enums : NamedAlternatives(e[1])

IInv ==
    /\ TypeOK /\ Untouched /\ Slots /\ Structs /\ UnionTypes /\ UnionSlots
    /\ UnionMembers /\ Ordered /\ Alike /\ Complete /\ Stopped

----------------------------------------------------------------------------
\* Scopes.

\* Symbols of different kinds differ, and those of one kind by what they are of.
LEMMA SymbolFacts ==
    ASSUME NEW r, NEW q, NEW v \in Unions, NEW w \in Unions, NEW s, NEW t, NEW i, NEW j
    PROVE  /\ forward_decl \notin {Procedure(r), Struct(r, w), Union(s, w), Member(i), Alternatives}
           /\ Procedure(r) # Struct(q, w) /\ Procedure(r) # Union(s, w)
           /\ Struct(r, v) # Union(s, w)
           /\ Member(i) # Alternatives
           /\ Procedure(r) = Procedure(q) => r = q
           /\ Struct(r, v) = Struct(q, w) => r = q /\ v = w
           /\ Union(s, v) = Union(t, w) => s = t /\ v = w
           /\ Member(i) = Member(j) => i = j
BY DEF forward_decl, Procedure, Struct, Union, Member, Alternatives, Unions

LEMMA SymbolTypes ==
    ASSUME NEW r \in Services \X Nat, NEW w \in Unions, NEW s \in Services, NEW i \in Nat
    PROVE  {forward_decl, Procedure(r), Struct(r, w), Union(s, w), Member(i), Alternatives}
              \subseteq Symbols
<1>1. forward_decl \in Symbols /\ Alternatives \in Symbols
  BY DEF forward_decl, Alternatives, Symbols
<1>2. Procedure(r) \in Symbols /\ Struct(r, w) \in Symbols
  BY DEF Procedure, Struct, Symbols
<1>3. Union(s, w) \in Symbols
  BY DEF Union, Symbols
<1>4. Member(i) \in Symbols
  BY DEF Member, Symbols
<1> QED BY <1>1, <1>2, <1>3, <1>4

\* Slot n of the scope d is what a definition of name as def in scope leaves: it is new or
\* was forward declared, and the others are as they were.
DefinedAt(scope, d, name, def, n) ==
    /\ n \in DOMAIN d /\ d[n] = [name |-> name, def |-> def]
    /\ name_lookup(d, name) = {n}
    /\ DOMAIN scope \subseteq DOMAIN d /\ DOMAIN d \subseteq DOMAIN scope \cup {n}
    /\ n \in DOMAIN scope => scope[n] = [name |-> name, def |-> forward_decl]
    /\ \A i \in DOMAIN scope : i # n => d[i] = scope[i]

LEMMA ScopeSlots ==
    ASSUME NEW scope, IsScope(scope)
    PROVE  /\ scope \in Seq(Slot) /\ DOMAIN scope = 1 .. Len(scope) /\ Len(scope) \in Nat
           /\ \A i \in DOMAIN scope :
                 /\ i \in Nat \ {0} /\ scope[i].name \in Names /\ scope[i].def \in Symbols
                 /\ scope[i] \in Slot
                 /\ scope[i] = [name |-> scope[i].name, def |-> scope[i].def]
           /\ \A i, j \in DOMAIN scope : scope[i].name = scope[j].name => i = j
<1>1. scope \in Seq(Slot)
  BY DEF IsScope, Slot
<1>2. DOMAIN scope = 1 .. Len(scope) /\ Len(scope) \in Nat
  BY <1>1
<1>3. \A i \in DOMAIN scope : scope[i] \in Slot /\ i \in Nat \ {0}
  BY <1>1, <1>2
<1>4. \A x \in Slot : x = [name |-> x.name, def |-> x.def] /\ x.name \in Names /\ x.def \in Symbols
  BY DEF Slot
<1>5. \A i, j \in DOMAIN scope : scope[i].name = scope[j].name => i = j
  BY DEF IsScope
<1> QED BY <1>1, <1>2, <1>3, <1>4, <1>5

LEMMA DefineFacts ==
    ASSUME NEW scope, IsScope(scope), NEW name \in Names, NEW def \in Symbols,
           ~Redefines(scope, name)
    PROVE  /\ IsScope(define(scope, name, def))
           /\ \E n \in Nat \ {0} : DefinedAt(scope, define(scope, name, def), name, def, n)
<1> DEFINE d == define(scope, name, def)
<1>0. scope \in Seq(Slot) /\ \A i, j \in DOMAIN scope : scope[i].name = scope[j].name => i = j
  BY ScopeSlots
<1>1. CASE name_lookup(scope, name) = {}
  <2> DEFINE n == Len(scope) + 1
  <2>1. d = Append(scope, [name |-> name, def |-> def])
    BY <1>1 DEF define
  <2>2. /\ [name |-> name, def |-> def] \in Slot
        /\ \A i \in DOMAIN scope : scope[i] \in Slot /\ scope[i].name # name
    BY <1>1, ScopeSlots DEF Slot, name_lookup
  <2>3. /\ d \in Seq(Slot) /\ Len(d) = n /\ DOMAIN d = DOMAIN scope \cup {n}
        /\ n \notin DOMAIN scope /\ n \in Nat \ {0}
        /\ \A i \in DOMAIN scope : d[i] = scope[i]
        /\ d[n] = [name |-> name, def |-> def]
    BY <1>0, <2>1, <2>2
  <2> HIDE DEF d, n
  <2>4. name_lookup(d, name) = {n}
    BY <2>2, <2>3 DEF name_lookup
  <2>5. IsScope(d)
    BY <1>0, <2>2, <2>3 DEF IsScope, Slot
  <2> QED BY <2>3, <2>4, <2>5 DEF DefinedAt, d
<1>2. CASE name_lookup(scope, name) # {}
  <2>1. PICK n \in DOMAIN scope : scope[n].name = name
    BY <1>2 DEF name_lookup
  <2>2. name_lookup(scope, name) = {n}
    BY <1>0, <2>1 DEF name_lookup
  <2>3. scope[n] = [name |-> name, def |-> forward_decl]
    BY <2>1, <2>2, ScopeSlots DEF Redefines, is_defined
  <2>4. d = [i \in DOMAIN scope |->
               IF scope[i].name = name THEN [name |-> name, def |-> def] ELSE scope[i]]
    BY <1>2 DEF define
  <2>5. d = [scope EXCEPT ![n] = [name |-> name, def |-> def]]
    BY <1>0, <2>1, <2>4
  <2>6. d \in Seq(Slot)
    BY <1>0, <2>1, <2>5 DEF Slot
  <2>7. /\ DOMAIN d = DOMAIN scope /\ d[n] = [name |-> name, def |-> def]
        /\ \A i \in DOMAIN scope : i # n => d[i] = scope[i]
    BY <2>1, <2>5
  <2> HIDE DEF d
  <2>8. \A i \in DOMAIN scope : d[i].name = scope[i].name
    BY <2>1, <2>7
  <2>9. name_lookup(d, name) = {n} /\ IsScope(d)
    BY <1>0, <2>2, <2>6, <2>7, <2>8 DEF name_lookup, IsScope, Slot
  <2>10. n \in Nat \ {0}
    BY <1>0, <2>1
  <2> QED BY <2>3, <2>7, <2>9, <2>10, <2>1 DEF DefinedAt, d
<1> QED BY <1>1, <1>2

\* So handles stay good, also after several definitions.
Extends(scope, d) ==
    \A i \in DOMAIN scope :
       /\ i \in DOMAIN d
       /\ d[i].name = scope[i].name
       /\ is_defined(scope, i) => d[i] = scope[i]

LEMMA DefinedExtends ==
    ASSUME NEW scope, NEW d, NEW name, NEW def, NEW n, DefinedAt(scope, d, name, def, n)
    PROVE  Extends(scope, d)
BY DEF DefinedAt, Extends, is_defined

LEMMA ExtendsTwice ==
    ASSUME NEW scope, NEW d, NEW e, Extends(scope, d), Extends(d, e)
    PROVE  Extends(scope, e)
BY DEF Extends, is_defined

LEMMA DeclareFacts ==
    ASSUME NEW scope \in Seq(Slot), NEW n \in Nat, n = Len(scope) + 1, NEW name \in Names
    PROVE  /\ declare(scope, name) \in Seq(Slot)
           /\ Len(declare(scope, name)) = n
           /\ \A i \in 1 .. Len(scope) : declare(scope, name)[i] = scope[i]
           /\ declare(scope, name)[n] = [name |-> name, def |-> forward_decl]
<1>1. [name |-> name, def |-> forward_decl] \in Slot
  BY DEF Slot, forward_decl, Symbols
<1> QED BY <1>1, AppendProperties DEF declare

LEMMA NewScopes ==
    /\ IsScope(NewService) /\ DOMAIN NewService = {1, 2}
    /\ NewService[1] = [name |-> "call_union", def |-> forward_decl]
    /\ NewService[2] = [name |-> "return_union", def |-> forward_decl]
    /\ IsScope(NewUnion.scope) /\ DOMAIN NewUnion.scope = {1}
    /\ NewUnion.scope[1] = [name |-> "alternatives", def |-> forward_decl]
    /\ NewUnion \in [scope : Seq(Slot), members : Seq(MemberType)]
    /\ NewUnion.members = <<>>
<1>0. /\ <<>> \in Seq(Slot) /\ Len(<<>>) = 0 /\ <<>> \in Seq(MemberType)
      /\ "call_union" \in Names /\ "return_union" \in Names /\ "alternatives" \in Names
  BY DEF Names, Unions
<1>1. \A name \in Names :
         /\ declare(<<>>, name) \in Seq(Slot) /\ Len(declare(<<>>, name)) = 1
         /\ declare(<<>>, name)[1] = [name |-> name, def |-> forward_decl]
  <2> TAKE name \in Names
  <2>1. PICK none : none = <<>>
    OBVIOUS
  <2>2. none \in Seq(Slot) /\ 1 \in Nat /\ 1 = Len(none) + 1
    BY <1>0, <2>1
  <2>3. /\ declare(none, name) \in Seq(Slot) /\ Len(declare(none, name)) = 1
        /\ declare(none, name)[1] = [name |-> name, def |-> forward_decl]
    <3>1. PICK n \in Nat : n = 1 /\ n = Len(none) + 1
      BY <2>2
    <3>2. /\ declare(none, name) \in Seq(Slot) /\ Len(declare(none, name)) = n
          /\ declare(none, name)[n] = [name |-> name, def |-> forward_decl]
      BY <2>2, <3>1, DeclareFacts
    <3> QED BY <3>1, <3>2
  <2> QED BY <2>1, <2>3
<1>2. PICK one : one = declare(<<>>, "call_union")
  OBVIOUS
<1>3. one \in Seq(Slot) /\ Len(one) = 1 /\ one[1] = [name |-> "call_union", def |-> forward_decl]
  BY <1>0, <1>1, <1>2
<1>4. NewService = declare(one, "return_union")
  BY <1>2 DEF NewService
<1>5. /\ NewService \in Seq(Slot) /\ Len(NewService) = 2
      /\ NewService[1] = [name |-> "call_union", def |-> forward_decl]
      /\ NewService[2] = [name |-> "return_union", def |-> forward_decl]
  <2>1. 2 \in Nat /\ 2 = Len(one) + 1 /\ 1 \in 1 .. Len(one)
    BY <1>3
  <2>2. NewService[1] = one[1]
    BY <1>0, <1>3, <1>4, <2>1, DeclareFacts, Zenon
  <2> QED BY <1>0, <1>3, <1>4, <2>1, <2>2, DeclareFacts, Zenon
<1>6. DOMAIN NewService = {1, 2} /\ NewService[1].name # NewService[2].name
  BY <1>5
<1>7. IsScope(NewService)
  BY <1>5, <1>6 DEF IsScope, Slot
<1>8. PICK empty : empty = declare(<<>>, "alternatives")
  OBVIOUS
<1>9. /\ empty \in Seq(Slot) /\ Len(empty) = 1
      /\ empty[1] = [name |-> "alternatives", def |-> forward_decl]
  BY <1>0, <1>1, <1>8
<1>10. IsScope(empty) /\ DOMAIN empty = {1}
  BY <1>9 DEF IsScope, Slot
<1>11. NewUnion = [scope |-> empty, members |-> <<>>]
  BY <1>8 DEF NewUnion
<1> QED BY <1>0, <1>5, <1>6, <1>7, <1>9, <1>10, <1>11

----------------------------------------------------------------------------
\* Bases, and the order of procedures.

LEMMA ListFacts ==
    ASSUME TypeOK, NEW s \in Services
    PROVE  /\ inheritance_list[s] \in Seq(Services)
           /\ DOMAIN inheritance_list[s] = 1 .. Len(inheritance_list[s])
           /\ Len(inheritance_list[s]) \in Nat \ {0}
           /\ inheritance_list[s][Len(inheritance_list[s])] = s
           /\ \A i, j \in DOMAIN inheritance_list[s] :
                 inheritance_list[s][i] = inheritance_list[s][j] => i = j
           /\ \A i \in DOMAIN inheritance_list[s] :
                 /\ inheritance_list[s][i] \in Services
                 /\ inheritance_list[inheritance_list[s][i]] = SubSeq(inheritance_list[s], 1, i)
           /\ s \in InList(s) /\ InList(s) \subseteq Services
<1> DEFINE list == inheritance_list[s]
<1>1. list \in Seq(Services) /\ list # <<>>
  BY DEF TypeOK
<1>2. DOMAIN list = 1 .. Len(list) /\ Len(list) \in Nat \ {0}
  BY <1>1
<1>3. /\ list[Len(list)] = s
      /\ \A i, j \in DOMAIN list : list[i] = list[j] => i = j
      /\ \A i \in DOMAIN list : inheritance_list[list[i]] = SubSeq(list, 1, i)
  BY DEF TypeOK
<1>4. \A i \in DOMAIN list : list[i] \in Services
  BY <1>1, <1>2
<1>5. s \in InList(s)
  BY <1>2, <1>3 DEF InList
<1> QED BY <1>1, <1>2, <1>3, <1>4, <1>5 DEF InList

\* The list of a base is the beginning of the list.
LEMMA BaseFacts ==
    ASSUME TypeOK, NEW s \in Services, NEW t \in InList(s)
    PROVE  /\ \A u \in InList(s) : /\ Position(s, u) \in DOMAIN inheritance_list[s]
                                   /\ Position(s, u) \in Nat
                                   /\ inheritance_list[s][Position(s, u)] = u
           /\ \A u \in InList(t) : u \in InList(s) /\ Position(t, u) = Position(s, u)
           /\ \A u \in InList(t), v \in InList(s) :
                 Position(s, v) <= Position(s, u) => v \in InList(t)
<1> DEFINE list == inheritance_list[s]
<1>1. /\ list \in Seq(Services) /\ DOMAIN list = 1 .. Len(list) /\ Len(list) \in Nat
      /\ \A i, j \in DOMAIN list : list[i] = list[j] => i = j
      /\ \A i \in DOMAIN list : inheritance_list[list[i]] = SubSeq(list, 1, i)
  BY ListFacts
<1>2. \A u \in InList(s) : Position(s, u) \in DOMAIN list /\ list[Position(s, u)] = u
  BY DEF InList, Position
<1>3. PICK n \in DOMAIN list : list[n] = t
  BY DEF InList
<1>4. inheritance_list[t] = SubSeq(list, 1, n)
  BY <1>1, <1>3
<1>5. DOMAIN inheritance_list[t] = 1 .. n /\ \A i \in 1 .. n : inheritance_list[t][i] = list[i] /\ i \in DOMAIN list
  BY <1>1, <1>4
<1>6. ASSUME NEW u \in InList(t) PROVE u \in InList(s) /\ Position(t, u) = Position(s, u) /\ Position(s, u) \in 1 .. n
  <2>1. PICK i \in 1 .. n : list[i] = u
    BY <1>5 DEF InList
  <2>2. u \in InList(s)
    BY <1>5, <2>1 DEF InList
  <2>3. Position(s, u) = i
    BY <1>1, <1>2, <1>5, <2>1, <2>2
  <2>4. Position(t, u) \in 1 .. n /\ inheritance_list[t][Position(t, u)] = u
    BY <1>5 DEF InList, Position
  <2>5. Position(t, u) = i
    BY <1>1, <1>5, <2>1, <2>4
  <2> QED BY <2>1, <2>2, <2>3, <2>5
<1>7. ASSUME NEW u \in InList(t), NEW v \in InList(s), Position(s, v) <= Position(s, u) PROVE v \in InList(t)
  <2>1. Position(s, v) \in 1 .. n
    BY <1>1, <1>2, <1>6, <1>7
  <2>2. inheritance_list[t][Position(s, v)] = v
    BY <1>2, <1>5, <2>1
  <2> QED BY <1>5, <2>1, <2>2 DEF InList
<1> QED BY <1>1, <1>2, <1>6, <1>7

LEMMA ProcFacts ==
    ASSUME TypeOK, NEW s \in Services
    PROVE  /\ \A r : r \in all_procedures(s) <=>
                       \E t \in InList(s) : \E k \in DOMAIN procedures[t] : r = <<t, k>>
           /\ \A r \in all_procedures(s) :
                 /\ r = <<r[1], r[2]>> /\ r[1] \in InList(s) /\ r[1] \in Services
                 /\ r[2] \in DOMAIN procedures[r[1]] /\ r[2] \in Nat \ {0}
                 /\ ProcName(r) \in ProcNames /\ ProcName(r) = procedures[r[1]][r[2]]
           /\ \A t \in InList(s) : all_procedures(t) \subseteq all_procedures(s)
<1>1. \A r : r \in all_procedures(s) <=>
               \E t \in InList(s) : \E k \in DOMAIN procedures[t] : r = <<t, k>>
  BY DEF all_procedures, InList
<1>2. ASSUME NEW r \in all_procedures(s)
      PROVE  /\ r = <<r[1], r[2]>> /\ r[1] \in InList(s) /\ r[1] \in Services
             /\ r[2] \in DOMAIN procedures[r[1]] /\ r[2] \in Nat \ {0}
             /\ ProcName(r) \in ProcNames /\ ProcName(r) = procedures[r[1]][r[2]]
  <2>0. PICK t \in InList(s) : \E k \in DOMAIN procedures[t] : r = <<t, k>>
    BY <1>1
  <2>1. PICK k \in DOMAIN procedures[t] : r = <<t, k>>
    BY <2>0
  <2>2. t \in Services
    BY ListFacts
  <2>3. procedures[t] \in Seq(ProcNames)
    BY <2>2 DEF TypeOK
  <2>4. k \in Nat \ {0} /\ procedures[t][k] \in ProcNames
    BY <2>3
  <2> QED BY <2>1, <2>2, <2>4 DEF ProcName
<1>3. ASSUME NEW t \in InList(s), NEW r \in all_procedures(t) PROVE r \in all_procedures(s)
  <2>0. PICK u \in InList(t) : \E k \in DOMAIN procedures[u] : r = <<u, k>>
    BY DEF all_procedures, InList
  <2>1. PICK k \in DOMAIN procedures[u] : r = <<u, k>>
    BY <2>0
  <2>2. u \in InList(s)
    BY BaseFacts
  <2> QED BY <1>1, <2>1, <2>2
<1> QED BY <1>1, <1>2, <1>3

\* Before is a strict total order, and a base's procedures come before the others.
LEMMA OrderFacts ==
    ASSUME TypeOK, NEW s \in Services
    PROVE  /\ \A q, r \in all_procedures(s) : Before(s, q, r) => q # r /\ ~Before(s, r, q)
           /\ \A p, q, r \in all_procedures(s) :
                 Before(s, p, q) /\ Before(s, q, r) => Before(s, p, r)
           /\ \A q, r \in all_procedures(s) : q = r \/ Before(s, q, r) \/ Before(s, r, q)
           /\ \A t \in InList(s) :
                 /\ \A q, r \in all_procedures(t) : Before(t, q, r) <=> Before(s, q, r)
                 /\ \A q \in all_procedures(s), r \in all_procedures(t) :
                       Before(s, q, r) => q \in all_procedures(t)
<1>0. s \in InList(s)
  BY ListFacts
<1>1. \A r \in all_procedures(s) :
         /\ r = <<r[1], r[2]>> /\ r[1] \in InList(s) /\ r[2] \in DOMAIN procedures[r[1]] /\ r[2] \in Nat
         /\ Position(s, r[1]) \in Nat
  BY <1>0, ProcFacts, BaseFacts
<1>2. \A u, v \in InList(s) : Position(s, u) = Position(s, v) => u = v
  BY <1>0, BaseFacts
<1>3. \A q, r \in all_procedures(s) : Before(s, q, r) => q # r /\ ~Before(s, r, q)
  BY <1>1, <1>2 DEF Before
<1>4. \A p, q, r \in all_procedures(s) : Before(s, p, q) /\ Before(s, q, r) => Before(s, p, r)
  BY <1>1, <1>2 DEF Before
<1>5. \A q, r \in all_procedures(s) : q = r \/ Before(s, q, r) \/ Before(s, r, q)
  BY <1>1, <1>2 DEF Before
<1>6. ASSUME NEW t \in InList(s)
      PROVE  /\ \A q, r \in all_procedures(t) : Before(t, q, r) <=> Before(s, q, r)
             /\ \A q \in all_procedures(s), r \in all_procedures(t) :
                   Before(s, q, r) => q \in all_procedures(t)
  <2>1. t \in Services
    BY ListFacts
  <2>2. \A r \in all_procedures(t) : /\ r[1] \in InList(t) /\ r \in all_procedures(s)
                                     /\ Position(t, r[1]) = Position(s, r[1])
    BY <2>1, ProcFacts, BaseFacts
  <2>3. ASSUME NEW q \in all_procedures(s), NEW r \in all_procedures(t), Before(s, q, r)
        PROVE  q \in all_procedures(t)
    <3>1. Position(s, q[1]) <= Position(s, r[1])
      BY <1>1, <2>2, <2>3 DEF Before
    <3>2. q[1] \in InList(t)
      BY <1>1, <2>2, <3>1, BaseFacts
    <3> QED BY <1>1, <2>1, <3>2, ProcFacts
  <2> QED BY <2>2, <2>3 DEF Before
<1> QED BY <1>3, <1>4, <1>5, <1>6

LEMMA LoadedSame ==
    ASSUME UNCHANGED loaded, NEW s, NEW q, NEW r
    PROVE  /\ inheritance_list' = inheritance_list /\ procedures' = procedures
           /\ InList(s)' = InList(s) /\ all_procedures(s)' = all_procedures(s)
           /\ Before(s, q, r)' = Before(s, q, r) /\ ProcName(r)' = ProcName(r)
           /\ Counted' = Counted /\ Clash(s)' = Clash(s)
           /\ NamedAlternatives(s)' = NamedAlternatives(s)
BY DEF loaded, InList, all_procedures, Before, Position, ProcName, Counted, Clash,
       NamedAlternatives

----------------------------------------------------------------------------
\* What the invariant is for.

LEMMA MadeFacts ==
    ASSUME IInv, NEW s \in made
    PROVE  /\ s \in Services /\ s \in DOMAIN unions /\ Len(Members(s)) \in Nat
           /\ \A w \in Unions :
                 /\ DOMAIN unions[s][w].members = 1 .. Len(Members(s))
                 /\ unions[s][w].members \in Seq(MemberType)
                 /\ Len(unions[s][w].members) = Len(Members(s))
                 /\ \A i \in 1 .. Len(Members(s)) :
                       /\ unions[s][w].members[i].src_info = Source(s, i)
                       /\ unions[s][w].members[i].name = ProcName(Source(s, i))
                       /\ unions[s][w].members[i] = MemberFor(Source(s, i), w)
           /\ DOMAIN Members(s) = 1 .. Len(Members(s))
           /\ \A i \in 1 .. Len(Members(s)) :
                 Source(s, i) \in all_procedures(s) /\ Source(s, i) \in DOMAIN structs
           /\ \A r \in all_procedures(s) : \E i \in 1 .. Len(Members(s)) : Source(s, i) = r
<1>1. s \in Services /\ s \in DOMAIN unions
  BY DEF IInv, TypeOK
<1>2. \A w \in Unions : unions[s][w].members \in Seq(MemberType)
  BY <1>1 DEF IInv, UnionTypes
<1>3. "call_union" \in Unions
  BY DEF Unions
<1>4. \A w \in Unions : Len(unions[s][w].members) = Len(Members(s))
  BY <1>1 DEF IInv, UnionMembers, MembersOf
<1>5. Len(Members(s)) \in Nat /\ \A w \in Unions : DOMAIN unions[s][w].members = 1 .. Len(Members(s))
  BY <1>2, <1>3, <1>4 DEF Members
<1>6. \A w \in Unions : \A i \in 1 .. Len(Members(s)) :
         /\ unions[s][w].members[i].src_info = Source(s, i)
         /\ unions[s][w].members[i].name = ProcName(Source(s, i))
         /\ unions[s][w].members[i] = MemberFor(Source(s, i), w)
         /\ Source(s, i) \in all_procedures(s) /\ Source(s, i) \in DOMAIN structs
  <2>1. \A r, w : MemberFor(r, w).src_info = r /\ MemberFor(r, w).name = ProcName(r)
    BY DEF MemberFor
  <2> QED BY <1>1, <1>5, <2>1 DEF IInv, UnionMembers, MembersOf
<1>7. \A r \in all_procedures(s) : \E i \in 1 .. Len(Members(s)) : Source(s, i) = r
  BY <1>3, <1>5 DEF IInv, Complete, Left, Members, Source
<1>8. DOMAIN Members(s) = 1 .. Len(Members(s))
  BY <1>3, <1>5 DEF Members
<1> QED BY <1>1, <1>2, <1>3, <1>4, <1>5, <1>6, <1>7, <1>8

LEMMA InvNumbers ==
    ASSUME IInv
    PROVE  NumbersExtend
<1>1. ASSUME NEW s \in made, NEW t \in made \cap InList(s), NEW w \in Unions
      PROVE  IsPrefixOf(unions[t][w].members, unions[s][w].members)
  <2> DEFINE a == Len(Members(s))
             b == Len(Members(t))
  <2>1. s \in DOMAIN unions /\ t \in DOMAIN unions /\ s \in Services /\ t \in Services
        /\ a \in Nat /\ b \in Nat /\ TypeOK
    BY MadeFacts DEF IInv
  <2>2. \A n \in 1 .. a : n <= b => Source(s, n) = Source(t, n)
    BY <2>1, MadeFacts DEF IInv, Alike
  <2>3. b <= a
    <3> SUFFICES ASSUME a < b PROVE FALSE
      BY <2>1
    <3>1. a + 1 \in 1 .. b
      BY <2>1
    <3>2. Source(t, a + 1) \in all_procedures(t)
      BY <3>1, MadeFacts
    <3>3. Source(t, a + 1) \in all_procedures(s)
      BY <2>1, <3>2, ProcFacts
    <3>4. PICK i \in 1 .. a : Source(s, i) = Source(t, a + 1)
      BY <3>3, MadeFacts
    <3>5. Source(t, i) = Source(t, a + 1) /\ i < a + 1 /\ i \in 1 .. b
      BY <2>1, <2>2, <3>4
    <3>6. Before(t, Source(t, i), Source(t, a + 1))
      BY <2>1, <3>1, <3>5, MadeFacts DEF IInv, Ordered, OrderedOf
    <3> QED BY <2>1, <3>2, <3>5, <3>6, OrderFacts
  <2>4. \A n \in 1 .. b : unions[t][w].members[n] = unions[s][w].members[n]
    <3> TAKE n \in 1 .. b
    <3>1. n \in 1 .. a /\ Source(s, n) = Source(t, n)
      BY <2>1, <2>2, <2>3
    <3> QED BY <2>1, <3>1, MadeFacts
  <2> HIDE DEF a, b
  <2>5. DOMAIN unions[t][w].members = 1 .. b /\ Len(unions[t][w].members) = b
        /\ Len(unions[s][w].members) = a
    BY MadeFacts DEF a, b
  <2> QED BY <2>3, <2>4, <2>5 DEF IsPrefixOf
<1>2. ASSUME NEW s \in made, NEW w \in Unions
      PROVE  LET members == unions[s][w].members IN
             /\ {members[i].src_info : i \in DOMAIN members} = all_procedures(s)
             /\ \A i, j \in DOMAIN members :
                   i < j => Before(s, members[i].src_info, members[j].src_info)
  <2>1. DOMAIN unions[s][w].members = 1 .. Len(Members(s)) /\ DOMAIN Members(s) = 1 .. Len(Members(s))
    BY MadeFacts
  <2>2. \A i \in 1 .. Len(Members(s)) : unions[s][w].members[i].src_info = Source(s, i)
    BY MadeFacts
  <2>3. {unions[s][w].members[i].src_info : i \in DOMAIN unions[s][w].members} = all_procedures(s)
    BY <2>1, <2>2, MadeFacts
  <2>4. \A i, j \in 1 .. Len(Members(s)) : i < j => Before(s, Source(s, i), Source(s, j))
    BY <2>1, MadeFacts DEF IInv, Ordered, OrderedOf
  <2> QED BY <2>1, <2>2, <2>3, <2>4
<1> QED BY <1>1, <1>2 DEF NumbersExtend, InList

\* The slot of a structure, of a procedure and of a union.
LEMMA SlotFacts ==
    ASSUME IInv, NEW s \in Services
    PROVE  /\ IsScope(table[s])
           /\ \A i \in DOMAIN table[s] : SlotOf(s, i)
           /\ \A k \in DOMAIN procedures[s] : \E i \in DOMAIN table[s] :
                 table[s][i] = [name |-> procedures[s][k], def |-> Procedure(<<s, k>>)]
           /\ s \in made => \A w \in Unions : \E i \in DOMAIN table[s] :
                 table[s][i] = [name |-> w, def |-> Union(s, w)]
<1>1. IsScope(table[s]) /\ SlotsOf(s)
  BY DEF IInv, TypeOK, Slots
<1>2. \A i \in DOMAIN table[s] : table[s][i] = [name |-> table[s][i].name, def |-> table[s][i].def]
  BY <1>1, ScopeSlots
<1> QED BY <1>1, <1>2 DEF SlotsOf

LEMMA SlotNames ==
    ASSUME ServicesAssumption, IInv, NEW s \in Services, NEW i \in DOMAIN table[s]
    PROVE  /\ table[s][i].name \in Unions =>
                 \/ table[s][i].def = forward_decl
                 \/ s \in made /\ table[s][i].def = Union(s, table[s][i].name)
                 \/ \E k \in DOMAIN procedures[s] : procedures[s][k] = table[s][i].name
           /\ table[s][i].name \notin Unions => table[s][i].def # forward_decl
<1>1. \A k \in DOMAIN procedures[s], w \in Unions : NameOf[w][procedures[s][k]] \notin Unions
  <2> TAKE k \in DOMAIN procedures[s], w \in Unions
  <2>1. procedures[s] \in Seq(ProcNames)
    BY DEF IInv, TypeOK
  <2>2. procedures[s][k] \in ProcNames
    BY <2>1
  <2>3. NameOf[w] \in [ProcNames -> STRING \ Unions]
    BY DEF ServicesAssumption
  <2> QED BY <2>2, <2>3
<1>2. \A k \in DOMAIN procedures[s] : Procedure(<<s, k>>) # forward_decl
  BY SymbolFacts DEF Unions
<1>3. \A k \in DOMAIN procedures[s], w \in Unions : Struct(<<s, k>>, w) # forward_decl
  BY SymbolFacts
<1>4. SlotOf(s, i)
  BY SlotFacts
<1>5. CASE table[s][i].name \in Unions /\ table[s][i].def = forward_decl
  BY <1>5
<1>6. ASSUME NEW k \in DOMAIN procedures[s],
             table[s][i].name = procedures[s][k], table[s][i].def = Procedure(<<s, k>>)
      PROVE  table[s][i].def # forward_decl /\ \E n \in DOMAIN procedures[s] : procedures[s][n] = table[s][i].name
  BY <1>2, <1>6
<1>7. ASSUME NEW k \in DOMAIN procedures[s], NEW w \in Unions,
             table[s][i].name = NameOf[w][procedures[s][k]], table[s][i].def = Struct(<<s, k>>, w)
      PROVE  table[s][i].def # forward_decl /\ table[s][i].name \notin Unions
  BY <1>1, <1>3, <1>7
<1> QED BY <1>4, <1>6, <1>7 DEF SlotOf

LEMMA InvLookups ==
    ASSUME ServicesAssumption, IInv
    PROVE  LookupsAgree
<1>1. ASSUME NEW r \in DOMAIN structs, NEW w \in Unions
      PROVE  LET scope == table[r[1]] IN
             /\ definition_lookup(scope, Struct(r, w)) = {structs[r][w]}
             /\ name_lookup(scope, NameOf[w][ProcName(r)]) = {structs[r][w]}
  <2> DEFINE scope == table[r[1]]
             n == structs[r][w]
  <2>0. r \in Counted
    BY DEF IInv, TypeOK
  <2>1. PICK s \in Services : \E k \in DOMAIN procedures[s] : r = <<s, k>>
    BY <2>0 DEF Counted
  <2>2. r[1] = s
    BY <2>1
  <2>3. n \in DOMAIN scope /\ scope[n] = [name |-> NameOf[w][ProcName(r)], def |-> Struct(r, w)]
    BY DEF IInv, Structs
  <2>4. \A i, j \in DOMAIN scope : scope[i].name = scope[j].name => i = j
    BY <2>2, SlotFacts, ScopeSlots
  <2>5. name_lookup(scope, NameOf[w][ProcName(r)]) = {n}
    BY <2>3, <2>4 DEF name_lookup
  <2>6. ASSUME NEW i \in DOMAIN scope, scope[i].def = Struct(r, w) PROVE i = n
    <3>1. SlotOf(s, i)
      BY <2>2, SlotFacts
    <3>2. \A k : Struct(r, w) # Procedure(<<s, k>>)
      BY SymbolFacts
    <3>3. Struct(r, w) # forward_decl
      BY SymbolFacts
    <3>4. \A v \in Unions : Struct(r, w) # Union(s, v)
      BY SymbolFacts
    <3>5. \A k, v : v \in Unions /\ Struct(r, w) = Struct(<<s, k>>, v) => r = <<s, k>> /\ v = w
      BY SymbolFacts
    <3>6. PICK k \in DOMAIN procedures[s], v \in Unions :
             structs[<<s, k>>][v] = i /\ scope[i].def = Struct(<<s, k>>, v)
      BY <2>2, <2>6, <3>1, <3>2, <3>3, <3>4 DEF SlotOf
    <3> QED BY <2>6, <3>5, <3>6
  <2>7. definition_lookup(scope, Struct(r, w)) = {n}
    <3>1. DOMAIN scope = 1 .. Len(scope) /\ Len(scope) \in Nat
      BY <2>2, SlotFacts, ScopeSlots
    <3>2. \A j \in 1 .. n - 1 : j \in DOMAIN scope /\ j # n
      BY <2>3, <3>1
    <3> QED BY <2>3, <2>6, <3>2 DEF definition_lookup
  <2> QED BY <2>5, <2>7
<1>2. ASSUME NEW s \in made, NEW w \in Unions
      PROVE  definition_lookup(table[s], Union(s, w)) = name_lookup(table[s], w)
  <2> DEFINE scope == table[s]
  <2>1. s \in Services
    BY DEF IInv, TypeOK
  <2>2. PICK n \in DOMAIN scope : scope[n] = [name |-> w, def |-> Union(s, w)]
    BY <2>1, SlotFacts
  <2>3. \A i, j \in DOMAIN scope : scope[i].name = scope[j].name => i = j
    BY <2>1, SlotFacts, ScopeSlots
  <2>4. name_lookup(scope, w) = {n}
    BY <2>2, <2>3 DEF name_lookup
  <2>5. ASSUME NEW i \in DOMAIN scope, scope[i].def = Union(s, w) PROVE i = n
    <3>1. SlotOf(s, i)
      BY <2>1, SlotFacts
    <3>2. \A k : Union(s, w) # Procedure(<<s, k>>)
      BY SymbolFacts
    <3>3. Union(s, w) # forward_decl
      BY SymbolFacts
    <3>4. \A k, v : v \in Unions => Struct(<<s, k>>, v) # Union(s, w)
      BY SymbolFacts
    <3>5. \A v : v \in Unions /\ Union(s, w) = Union(s, v) => v = w
      BY SymbolFacts
    <3>6. scope[i].name = w
      BY <2>5, <3>1, <3>2, <3>3, <3>4, <3>5 DEF SlotOf
    <3> QED BY <2>2, <2>3, <3>6
  <2>6. definition_lookup(scope, Union(s, w)) = {n}
    <3>1. DOMAIN scope = 1 .. Len(scope) /\ Len(scope) \in Nat
      BY <2>1, SlotFacts, ScopeSlots
    <3>2. \A j \in 1 .. n - 1 : j \in DOMAIN scope /\ j # n
      BY <2>2, <3>1
    <3> QED BY <2>2, <2>5, <3>2 DEF definition_lookup
  <2> QED BY <2>4, <2>6
<1>3. ASSUME NEW s \in made, NEW w \in Unions, NEW i \in DOMAIN unions[s][w].members
      PROVE  LET m == unions[s][w].members[i] IN
             table[m.type.scope][m.type.id].def = Struct(m.src_info, w)
  <2>0. i \in 1 .. Len(Members(s))
    BY MadeFacts
  <2>1. PICK r \in DOMAIN structs : unions[s][w].members[i] = MemberFor(r, w)
    BY <2>0, MadeFacts
  <2>2. table[r[1]][structs[r][w]].def = Struct(r, w)
    <3>1. table[r[1]][structs[r][w]] = [name |-> NameOf[w][ProcName(r)], def |-> Struct(r, w)]
      BY DEF IInv, Structs
    <3> QED BY <3>1
  <2>3. /\ MemberFor(r, w).type.scope = r[1] /\ MemberFor(r, w).type.id = structs[r][w]
        /\ MemberFor(r, w).src_info = r
    BY DEF MemberFor
  <2> QED BY <2>1, <2>2, <2>3
<1> QED BY <1>1, <1>2, <1>3 DEF LookupsAgree

LEMMA InvClashes ==
    ASSUME ServicesAssumption, IInv
    PROVE  ClashesRefused
<1>1. ASSUME NEW s \in made, NEW r \in all_procedures(s), NEW q \in all_procedures(s), NEW w \in Unions,
             r[1] = q[1], ProcName(r) = NameOf[w][ProcName(q)]
      PROVE  FALSE
  <2>1. s \in Services /\ q \in DOMAIN structs
    BY MadeFacts
  <2>2. TypeOK
    BY DEF IInv
  <2>3. r[1] \in Services /\ r = <<r[1], r[2]>> /\ r[2] \in DOMAIN procedures[r[1]]
        /\ ProcName(r) = procedures[r[1]][r[2]]
    BY <2>1, <2>2, ProcFacts
  <2>4. PICK i \in DOMAIN table[r[1]] :
           table[r[1]][i] = [name |-> procedures[r[1]][r[2]], def |-> Procedure(<<r[1], r[2]>>)]
    BY <2>3, SlotFacts
  <2>5. /\ structs[q][w] \in DOMAIN table[r[1]]
        /\ table[r[1]][structs[q][w]] = [name |-> NameOf[w][ProcName(q)], def |-> Struct(q, w)]
    BY <1>1, <2>1 DEF IInv, Structs
  <2>6. i = structs[q][w]
    BY <1>1, <2>3, <2>4, <2>5, SlotFacts, ScopeSlots
  <2>7. Procedure(<<r[1], r[2]>>) # Struct(q, w)
    BY SymbolFacts
  <2> QED BY <2>4, <2>5, <2>6, <2>7
<1>2. ASSUME NEW s \in made, NEW r \in all_procedures(s), NEW q \in all_procedures(s),
             r # q, ProcName(r) = ProcName(q)
      PROVE  FALSE
  <2> DEFINE w == "call_union"
             u == unions[s][w]
  <2>0. w \in Unions
    BY DEF Unions
  <2>1. PICK i \in 1 .. Len(Members(s)) : Source(s, i) = r
    BY MadeFacts
  <2>2. PICK j \in 1 .. Len(Members(s)) : Source(s, j) = q
    BY MadeFacts
  <2>3. u.members[i].name = u.members[j].name /\ i \in DOMAIN u.members /\ j \in DOMAIN u.members
    BY <1>2, <2>0, <2>1, <2>2, MadeFacts
  <2>4. s \in DOMAIN unions
    BY MadeFacts
  <2>5. \A k \in DOMAIN u.members : \E n \in DOMAIN u.scope :
           u.scope[n] = [name |-> u.members[k].name, def |-> Member(k)]
    BY <2>0, <2>4 DEF IInv, UnionSlots, UnionSlotsOf
  <2>6. PICK n \in DOMAIN u.scope : u.scope[n] = [name |-> u.members[i].name, def |-> Member(i)]
    BY <2>3, <2>5
  <2>7. PICK m \in DOMAIN u.scope : u.scope[m] = [name |-> u.members[j].name, def |-> Member(j)]
    BY <2>3, <2>5
  <2>8. IsScope(u.scope)
    BY <2>0, <2>4 DEF IInv, TypeOK
  <2>9. m = n
    BY <2>3, <2>6, <2>7, <2>8, ScopeSlots
  <2>10. i = j
    <3>1. Member(i) = Member(j) => i = j
      BY SymbolFacts DEF Unions
    <3> QED BY <2>6, <2>7, <2>9, <3>1
  <2> QED BY <1>2, <2>1, <2>2, <2>10
<1>3. ASSUME NEW s \in made, NEW k \in DOMAIN procedures[s], procedures[s][k] \in Unions
      PROVE  FALSE
  <2>1. s \in Services
    BY MadeFacts
  <2>2. PICK i \in DOMAIN table[s] :
           table[s][i] = [name |-> procedures[s][k], def |-> Procedure(<<s, k>>)]
    BY <2>1, SlotFacts
  <2>3. PICK j \in DOMAIN table[s] :
           table[s][j] = [name |-> procedures[s][k], def |-> Union(s, procedures[s][k])]
    BY <1>3, <2>1, SlotFacts
  <2>4. i = j
    BY <2>1, <2>2, <2>3, SlotFacts, ScopeSlots
  <2>5. Procedure(<<s, k>>) # Union(s, procedures[s][k])
    BY <1>3, SymbolFacts
  <2> QED BY <2>2, <2>3, <2>4, <2>5
<1>4. \A s \in made : ~Clash(s)
  <2> SUFFICES ASSUME NEW s \in made, Clash(s) PROVE FALSE
    OBVIOUS
  <2>1. CASE \E r, q \in all_procedures(s), w \in Unions :
                r[1] = q[1] /\ ProcName(r) = NameOf[w][ProcName(q)]
    BY <2>1, <1>1
  <2>2. CASE \E r, q \in all_procedures(s) : r # q /\ ProcName(r) = ProcName(q)
    BY <2>2, <1>2
  <2>3. CASE \E k \in DOMAIN procedures[s] : procedures[s][k] \in Unions
    BY <2>3, <1>3
  <2> QED BY <2>1, <2>2, <2>3 DEF Clash
<1>5. ASSUME NEW e \in DOMAIN enums, status # "no_alternatives", NamedAlternatives(e[1])
      PROVE  FALSE
  <2>0. DOMAIN enums \subseteq made \X Unions
    BY DEF IInv, TypeOK
  <2>1. PICK s \in made, w \in Unions : e = <<s, w>>
    BY <2>0
  <2> DEFINE u == unions[s][w]
  <2>2. s \in DOMAIN unions
    BY MadeFacts
  <2>3. PICK r \in all_procedures(s) : ProcName(r) = "alternatives"
    BY <1>5, <2>1 DEF NamedAlternatives
  <2>4. PICK k \in 1 .. Len(Members(s)) : Source(s, k) = r
    BY MadeFacts
  <2>5. k \in DOMAIN u.members /\ u.members[k].name = "alternatives"
    BY <2>3, <2>4, MadeFacts
  <2>6. PICK n \in DOMAIN u.scope : u.scope[n] = [name |-> u.members[k].name, def |-> Member(k)]
    BY <2>2, <2>5 DEF IInv, UnionSlots, UnionSlotsOf
  <2>7. PICK m \in DOMAIN u.scope : u.scope[m] = [name |-> "alternatives", def |-> Alternatives]
    BY <1>5, <2>1, <2>2 DEF IInv, UnionSlots, UnionSlotsOf
  <2>8. IsScope(u.scope)
    BY <2>2 DEF IInv, TypeOK
  <2>9. m = n
    BY <2>5, <2>6, <2>7, <2>8, ScopeSlots
  <2>10. Member(k) # Alternatives
    BY SymbolFacts
  <2> QED BY <2>6, <2>7, <2>9, <2>10
<1> QED BY <1>4, <1>5 DEF ClashesRefused, IInv, Stopped

----------------------------------------------------------------------------
\* Steps.  Nothing is made before the services are loaded.

LEMMA NothingMade ==
    ASSUME structs = <<>>, unions = <<>>, enums = <<>>, made = {}
    PROVE  Structs /\ UnionTypes /\ UnionSlots /\ UnionMembers /\ Ordered /\ Alike /\ Complete
<1>1. DOMAIN structs = {} /\ DOMAIN unions = {}
  OBVIOUS
<1> QED BY <1>1 DEF Structs, UnionTypes, UnionSlots, UnionMembers, Ordered, Alike, Complete

LEMMA NothingMadeNext ==
    ASSUME structs' = <<>>, unions' = <<>>, enums' = <<>>, made' = {}
    PROVE  (Structs /\ UnionTypes /\ UnionSlots /\ UnionMembers /\ Ordered /\ Alike /\ Complete)'
<1>1. DOMAIN structs' = {} /\ DOMAIN unions' = {}
  OBVIOUS
<1> QED BY <1>1 DEF Structs, UnionTypes, UnionSlots, UnionMembers, Ordered, Alike, Complete

\* Every slot stays.
Stays == \A s \in Services : Extends(table[s], table'[s])

LEMMA InitInv ==
    ASSUME ServicesAssumption, Init
    PROVE  IInv
<1>1. /\ structs = <<>> /\ unions = <<>> /\ enums = <<>> /\ made = {} /\ current = <<>>
      /\ status = "loading"
  BY DEF Init
<1>2. \A s \in Services : procedures[s] = <<>> /\ inheritance_list[s] = <<s>> /\ table[s] = NewService
  BY DEF Init
<1>3. TypeOK
  <2>1. procedures \in [Services -> Seq(ProcNames)]
    BY DEF Init
  <2>2. inheritance_list \in [Services -> Seq(Services) \ {<<>>}]
    BY DEF Init
  <2>3. ASSUME NEW s \in Services
        PROVE  LET list == inheritance_list[s] IN
               /\ list[Len(list)] = s
               /\ \A i, j \in DOMAIN list : list[i] = list[j] => i = j
               /\ \A i \in DOMAIN list : inheritance_list[list[i]] = SubSeq(list, 1, i)
    <3>1. PICK list : list = inheritance_list[s]
      OBVIOUS
    <3>2. list \in Seq(Services) /\ Len(list) = 1 /\ DOMAIN list = {1} /\ list[1] = s
      <4>1. list = <<s>>
        BY <1>2, <3>1
      <4> QED BY <4>1
    <3>3. SubSeq(list, 1, 1) = list
      BY <3>2, SubSeqFull
    <3> QED BY <3>1, <3>2, <3>3
  <2>4. \A s \in Services : IsScope(table[s])
    BY <1>2, NewScopes
  <2>5. DOMAIN structs = {} /\ DOMAIN unions = {} /\ DOMAIN enums = {}
    BY <1>1
  <2>6. table \in [Services -> Seq([name : Names, def : Symbols])]
    <3>1. NewService \in Seq(Slot)
      BY NewScopes, ScopeSlots
    <3> QED BY <3>1 DEF Init, Slot
  <2>7. /\ \A s \in DOMAIN unions, w \in Unions : IsScope(unions[s][w].scope)
        /\ DOMAIN structs \subseteq Counted
        /\ made \subseteq DOMAIN unions /\ DOMAIN unions \subseteq Services
        /\ DOMAIN enums \subseteq made \X Unions
        /\ current \in {<<>>} \cup {<<s>> : s \in DOMAIN unions \ made}
        /\ status \in {"loading", "not_loaded", "generating", "clash", "no_alternatives"}
    BY <1>1, <2>5
  <2> QED BY <2>1, <2>2, <2>3, <2>4, <2>6, <2>7 DEF TypeOK
<1>4. ASSUME NEW s \in Services PROVE SlotsOf(s)
  <2>1. DOMAIN procedures[s] = {} /\ s \notin made
    BY <1>1, <1>2
  <2>2. \A i \in DOMAIN table[s] : table[s][i].name \in Unions /\ table[s][i].def = forward_decl
    BY <1>2, NewScopes DEF Unions
  <2>3. \A w \in Unions : \E i \in DOMAIN table[s] : table[s][i].name = w
    BY <1>2, NewScopes DEF Unions
  <2> QED BY <2>1, <2>2, <2>3 DEF SlotsOf, SlotOf
<1>5. Untouched /\ Stopped
  BY <1>1 DEF Untouched, Stopped
<1> QED BY <1>1, <1>3, <1>4, <1>5, NothingMade DEF IInv, Slots

LEMMA ConcatFacts ==
    ASSUME NEW S, NEW a \in Seq(S), NEW b \in Seq(S), NEW ab, ab = a \o b,
           NEW m \in Nat, NEW n \in Nat, m = Len(a), n = Len(b)
    PROVE  /\ ab \in Seq(S) /\ Len(ab) = m + n /\ DOMAIN ab = 1 .. m + n
           /\ \A i \in 1 .. m : ab[i] = a[i]
           /\ \A i \in m + 1 .. m + n : ab[i] = b[i - m] /\ i - m \in 1 .. n
<1>1. ab \in Seq(S) /\ Len(ab) = m + n
  BY ConcatProperties
<1>2. \A i \in 1 .. m + n : ab[i] = IF i <= m THEN a[i] ELSE b[i - m]
  BY ConcatProperties
<1>3. DOMAIN ab = 1 .. m + n
  BY <1>1
<1> QED BY <1>1, <1>2, <1>3

LEMMA SetBaseStep ==
    ASSUME IInv, NEW s \in Services, NEW b \in Services, SetBase(s, b)
    PROVE  IInv' /\ Stays
<1> DEFINE base == inheritance_list[b]
           new == inheritance_list'
<1>1. /\ status = "loading" /\ status' = "loading"
      /\ UNCHANGED <<procedures, table, structs, unions, enums, made, current>>
      /\ structs = <<>> /\ unions = <<>> /\ enums = <<>> /\ made = {} /\ current = <<>>
  BY DEF SetBase, IInv, Untouched
<1>2. /\ \A i \in DOMAIN base : base[i] # s
      /\ new = [t \in Services |-> IF inheritance_list[t][1] = s
                                   THEN base \o inheritance_list[t] ELSE inheritance_list[t]]
  BY DEF SetBase
<1>3. TypeOK
  BY DEF IInv
<1>4. \A t \in Services :
         LET list == inheritance_list[t] IN
         /\ list \in Seq(Services) /\ DOMAIN list = 1 .. Len(list) /\ Len(list) \in Nat \ {0}
         /\ list[Len(list)] = t
         /\ \A i, j \in DOMAIN list : list[i] = list[j] => i = j
         /\ \A i \in DOMAIN list : list[i] \in Services /\ inheritance_list[list[i]] = SubSeq(list, 1, i)
  BY <1>3, ListFacts
\* What is below something has its root.
<1>5. \A t \in Services : \A i \in DOMAIN inheritance_list[t] :
         inheritance_list[inheritance_list[t][i]][1] = inheritance_list[t][1]
  <2> TAKE t \in Services
  <2> TAKE i \in DOMAIN inheritance_list[t]
  <2>1. inheritance_list[t] \in Seq(Services) /\ i \in 1 .. Len(inheritance_list[t])
    BY <1>4
  <2>2. SubSeq(inheritance_list[t], 1, i)[1] = inheritance_list[t][1]
    BY <2>1
  <2> QED BY <1>4, <2>2
<1>6. base[1] # s /\ base \in Seq(Services) /\ DOMAIN base = 1 .. Len(base) /\ Len(base) \in Nat \ {0}
  BY <1>2, <1>4
<1>7. ASSUME NEW t \in Services, inheritance_list[t][1] # s
      PROVE  /\ new[t] \in Seq(Services) \ {<<>>} /\ new[t][Len(new[t])] = t
             /\ \A i, j \in DOMAIN new[t] : new[t][i] = new[t][j] => i = j
             /\ \A i \in DOMAIN new[t] : new[new[t][i]] = SubSeq(new[t], 1, i)
  <2>1. new[t] = inheritance_list[t]
    BY <1>2, <1>7
  <2>2. \A i \in DOMAIN new[t] : new[new[t][i]] = inheritance_list[new[t][i]]
    BY <1>2, <1>4, <1>5, <1>7, <2>1
  <2>3. inheritance_list[t] # <<>>
    BY <1>3 DEF TypeOK
  <2> HIDE DEF new
  <2> QED BY <1>4, <2>1, <2>2, <2>3
<1>8. ASSUME NEW t \in Services, inheritance_list[t][1] = s
      PROVE  /\ new[t] \in Seq(Services) \ {<<>>} /\ new[t][Len(new[t])] = t
             /\ \A i, j \in DOMAIN new[t] : new[t][i] = new[t][j] => i = j
             /\ \A i \in DOMAIN new[t] : new[new[t][i]] = SubSeq(new[t], 1, i)
  <2> DEFINE list == inheritance_list[t]
             m == Len(base)
             n == Len(list)
  <2>1. /\ list \in Seq(Services) /\ DOMAIN list = 1 .. n /\ n \in Nat \ {0} /\ list[n] = t
        /\ \A i, j \in 1 .. n : list[i] = list[j] => i = j
    BY <1>4
  <2>2. new[t] = base \o list
    BY <1>2, <1>8
  <2>3. m \in Nat \ {0} /\ \A i, j \in 1 .. m : base[i] = base[j] => i = j
    BY <1>4, <1>6
  <2>5. \A i \in 1 .. m, j \in 1 .. n : base[i] # list[j]
    <3> TAKE i \in 1 .. m, j \in 1 .. n
    <3>1. inheritance_list[base[i]][1] = base[1]
      BY <1>5, <1>6
    <3>2. inheritance_list[list[j]][1] = s
      BY <1>5, <1>8, <2>1
    <3> QED BY <1>6, <3>1, <3>2
  <2>. /\ base \in Seq(Services) /\ Len(base) = m
    BY <1>6
  <2>. Len(list) = n
    OBVIOUS
  <2> HIDE DEF base, list, new, m, n
  <2>4. /\ new[t] \in Seq(Services) /\ Len(new[t]) = m + n /\ DOMAIN new[t] = 1 .. m + n
        /\ \A i \in 1 .. m : new[t][i] = base[i]
        /\ \A i \in m + 1 .. m + n : new[t][i] = list[i - m] /\ i - m \in 1 .. n
    <3>1. PICK all : all = new[t]
      OBVIOUS
    <3>2. /\ base \in Seq(Services) /\ list \in Seq(Services) /\ all = base \o list
          /\ m \in Nat /\ n \in Nat /\ m = Len(base) /\ n = Len(list)
      BY <2>1, <2>2, <2>3, <3>1
    <3>3. /\ all \in Seq(Services) /\ Len(all) = m + n /\ DOMAIN all = 1 .. m + n
          /\ \A i \in 1 .. m : all[i] = base[i]
          /\ \A i \in m + 1 .. m + n : all[i] = list[i - m] /\ i - m \in 1 .. n
      <4>1. PICK x \in Seq(Services), y \in Seq(Services), k \in Nat, l \in Nat :
               x = base /\ y = list /\ k = m /\ l = n
        BY <3>2
      <4>2. all = x \o y /\ k = Len(x) /\ l = Len(y)
        BY <3>2, <4>1
      <4>3. /\ all \in Seq(Services) /\ Len(all) = k + l /\ DOMAIN all = 1 .. k + l
            /\ \A i \in 1 .. k : all[i] = x[i]
            /\ \A i \in k + 1 .. k + l : all[i] = y[i - k] /\ i - k \in 1 .. l
        BY <4>2, ConcatFacts
      <4> QED BY <4>1, <4>3
    <3> QED BY <3>1, <3>3
  <2>6. new[t][Len(new[t])] = t
    <3>1. m + n \in m + 1 .. m + n /\ (m + n) - m = n
      BY <2>1, <2>3
    <3> QED BY <2>1, <2>4, <3>1
  <2>7. \A i, j \in DOMAIN new[t] : new[t][i] = new[t][j] => i = j
    <3> SUFFICES ASSUME NEW i \in 1 .. m + n, NEW j \in 1 .. m + n, new[t][i] = new[t][j]
                 PROVE  i = j
      BY <2>4
    <3>1. CASE i <= m /\ j <= m
      BY <2>1, <2>3, <2>4, <3>1
    <3>2. CASE i > m /\ j > m
      <4>1. list[i - m] = list[j - m] /\ i - m \in 1 .. n /\ j - m \in 1 .. n
        BY <2>1, <2>3, <2>4, <3>2
      <4>2. i - m = j - m
        BY <2>1, <4>1
      <4> QED BY <2>1, <2>3, <4>2
    <3>3. CASE i <= m /\ j > m
      <4>1. i \in 1 .. m /\ j \in m + 1 .. m + n
        BY <2>1, <2>3, <3>3
      <4> QED BY <2>4, <2>5, <4>1
    <3>4. CASE i > m /\ j <= m
      <4>1. j \in 1 .. m /\ i \in m + 1 .. m + n
        BY <2>1, <2>3, <3>4
      <4> QED BY <2>4, <2>5, <4>1
    <3> QED BY <2>1, <2>3, <3>1, <3>2, <3>3, <3>4
  <2>8. ASSUME NEW i \in 1 .. m PROVE new[new[t][i]] = SubSeq(new[t], 1, i)
    <3>1. new[t][i] = base[i] /\ base[i] \in Services /\ inheritance_list[base[i]][1] # s
      BY <1>4, <1>5, <1>6, <2>4 DEF base, m
    <3>2. new[base[i]] = SubSeq(base, 1, i)
      BY <1>2, <1>4, <1>6, <3>1 DEF base, m, new
    <3>3. 1 \in 1 .. Len(base) /\ i \in 1 .. Len(base)
      BY <2>3
    <3>4. SubSeq(new[t], 1, i) = SubSeq(base, 1, i)
      BY <2>1, <2>2, <3>3, SubSeqOfConcat1
    <3> QED BY <3>1, <3>2, <3>4
  <2>9. ASSUME NEW i \in m + 1 .. m + n PROVE new[new[t][i]] = SubSeq(new[t], 1, i)
    <3> DEFINE j == i - m
    <3>0. j \in 1 .. n /\ i \in 1 .. m + n
      BY <2>1, <2>3
    <3>1. new[t][i] = list[j] /\ j \in 1 .. n /\ list[j] \in Services /\ inheritance_list[list[j]][1] = s
      <4>1. new[t][i] = list[j]
        BY <2>4
      <4>2. list[j] \in Services /\ inheritance_list[list[j]][1] = s
        BY <1>4, <1>5, <1>8, <2>1, <3>0 DEF list
      <4> QED BY <3>0, <4>1, <4>2
    <3>2. new[list[j]] = base \o SubSeq(list, 1, j)
      <4>1. PICK u \in Services : u = list[j]
        BY <3>1
      <4>2. inheritance_list[u] = SubSeq(list, 1, j)
        <5>1. j \in DOMAIN list
          BY <2>1, <3>1
        <5>2. inheritance_list[list[j]] = SubSeq(list, 1, j)
          <6> HIDE DEF j
          <6> QED BY <1>4, <5>1 DEF list
        <5> QED BY <4>1, <5>2
      <4>3. new[u] = base \o inheritance_list[u]
        BY <1>2, <3>1, <4>1 DEF new
      <4> QED BY <4>1, <4>2, <4>3
    <3>3. SubSeq(list, 1, j) \in Seq(Services) /\ Len(SubSeq(list, 1, j)) = j
          /\ \A k \in 1 .. j : SubSeq(list, 1, j)[k] = list[k]
      BY <2>1, <3>1
    <3> HIDE DEF j
    <3>4. /\ new[list[j]] \in Seq(Services) /\ Len(new[list[j]]) = m + j
          /\ \A k \in 1 .. m : new[list[j]][k] = base[k]
          /\ \A k \in m + 1 .. m + j : new[list[j]][k] = list[k - m]
      <4>1. PICK part : part = SubSeq(list, 1, j)
        OBVIOUS
      <4>2. /\ part \in Seq(Services) /\ Len(part) = j /\ j \in Nat \ {0}
            /\ \A k \in 1 .. j : part[k] = list[k]
        BY <2>1, <3>1, <3>3, <4>1
      <4>3. PICK whole : whole = new[list[j]]
        OBVIOUS
      <4>4. /\ base \in Seq(Services) /\ part \in Seq(Services) /\ whole = base \o part
            /\ m \in Nat /\ j \in Nat /\ m = Len(base) /\ j = Len(part)
        BY <2>3, <3>2, <4>1, <4>2, <4>3
      <4>5. /\ whole \in Seq(Services) /\ Len(whole) = m + j /\ DOMAIN whole = 1 .. m + j
            /\ \A k \in 1 .. m : whole[k] = base[k]
            /\ \A k \in m + 1 .. m + j : whole[k] = part[k - m] /\ k - m \in 1 .. j
        <5>1. PICK x \in Seq(Services), y \in Seq(Services), o \in Nat, l \in Nat :
                 x = base /\ y = part /\ o = m /\ l = j
          BY <4>4
        <5>2. whole = x \o y /\ o = Len(x) /\ l = Len(y)
          BY <4>4, <5>1
        <5>3. /\ whole \in Seq(Services) /\ Len(whole) = o + l /\ DOMAIN whole = 1 .. o + l
              /\ \A k \in 1 .. o : whole[k] = x[k]
              /\ \A k \in o + 1 .. o + l : whole[k] = y[k - o] /\ k - o \in 1 .. l
          BY <5>2, ConcatFacts
        <5> QED BY <5>1, <5>3
      <4> QED BY <4>2, <4>3, <4>5
    <3>5. i \in 1 .. Len(new[t]) /\ i = m + j
      BY <2>1, <2>3, <2>4, <3>1 DEF j
    <3>6. SubSeq(new[t], 1, i) \in Seq(Services) /\ Len(SubSeq(new[t], 1, i)) = m + j
          /\ \A k \in 1 .. m + j : SubSeq(new[t], 1, i)[k] = new[t][k]
      BY <2>4, <3>5
    <3>7. \A k \in 1 .. m + j : new[list[j]][k] = new[t][k]
      <4> TAKE k \in 1 .. m + j
      <4>1. CASE k \in 1 .. m
        BY <2>4, <3>4, <4>1
      <4>2. CASE k \in m + 1 .. m + j
        <5>1. k \in m + 1 .. m + n
          BY <2>1, <2>3, <3>1, <4>2
        <5> QED BY <2>4, <3>4, <4>2, <5>1
      <4>3. k \in 1 .. m \/ k \in m + 1 .. m + j
        BY <2>3, <3>1
      <4> QED BY <4>1, <4>2, <4>3
    <3>8. new[list[j]] = SubSeq(new[t], 1, i)
      BY <3>4, <3>6, <3>7, SeqEqual
    <3> QED BY <3>1, <3>8
  <2>10. \A i \in DOMAIN new[t] : new[new[t][i]] = SubSeq(new[t], 1, i)
    <3> TAKE i \in DOMAIN new[t]
    <3>1. i \in 1 .. m \/ i \in m + 1 .. m + n
      BY <2>1, <2>3, <2>4
    <3> QED BY <2>8, <2>9, <3>1
  <2>11. new[t] # <<>>
    BY <2>1, <2>3, <2>4
  <2> QED BY <2>4, <2>6, <2>7, <2>10, <2>11 DEF new
<1>9. TypeOK'
  <2>1. new \in [Services -> Seq(Services) \ {<<>>}]
    BY <1>2, <1>7, <1>8
  <2>2. \A t \in Services :
           /\ new[t][Len(new[t])] = t
           /\ \A i, j \in DOMAIN new[t] : new[t][i] = new[t][j] => i = j
           /\ \A i \in DOMAIN new[t] : new[new[t][i]] = SubSeq(new[t], 1, i)
    BY <1>7, <1>8
  <2> HIDE DEF new
  <2>3. DOMAIN structs = {} /\ DOMAIN unions = {} /\ DOMAIN enums = {}
    BY <1>1
  <2> QED BY <1>1, <1>3, <2>1, <2>2, <2>3 DEF TypeOK, new
<1>10. Slots' /\ Untouched' /\ Stopped'
  BY <1>1 DEF IInv, Slots, SlotsOf, SlotOf, Untouched, Stopped
<1>11. Stays
  BY <1>1 DEF Stays, Extends
<1> QED BY <1>1, <1>9, <1>10, <1>11, NothingMadeNext DEF IInv

\* A slot that stays is still what it was, whatever else is made.
LEMMA SlotKept ==
    ASSUME NEW s, NEW i, SlotOf(s, i), table'[s][i] = table[s][i],
           \A k \in DOMAIN procedures[s] :
              k \in DOMAIN procedures'[s] /\ procedures'[s][k] = procedures[s][k],
           \A r \in DOMAIN structs : r \in DOMAIN structs' /\ structs'[r] = structs[r],
           made \subseteq made'
    PROVE  SlotOf(s, i)'
<1>1. CASE table[s][i].name \in Unions /\ table[s][i].def = forward_decl
  <2>1. table'[s][i].name \in Unions /\ table'[s][i].def = forward_decl
    BY <1>1
  <2> QED BY <2>1 DEF SlotOf
<1>2. ASSUME NEW k \in DOMAIN procedures[s],
             table[s][i].name = procedures[s][k], table[s][i].def = Procedure(<<s, k>>)
      PROVE  SlotOf(s, i)'
  <2>1. table'[s][i].name = procedures'[s][k] /\ table'[s][i].def = Procedure(<<s, k>>)
    BY <1>2
  <2> QED BY <2>1 DEF SlotOf
<1>3. ASSUME NEW k \in DOMAIN procedures[s], NEW w \in Unions,
             <<s, k>> \in DOMAIN structs, structs[<<s, k>>][w] = i,
             table[s][i].name = NameOf[w][procedures[s][k]], table[s][i].def = Struct(<<s, k>>, w)
      PROVE  SlotOf(s, i)'
  <2>1. /\ k \in DOMAIN procedures'[s]
        /\ <<s, k>> \in DOMAIN structs' /\ structs'[<<s, k>>][w] = i
        /\ table'[s][i].name = NameOf[w][procedures'[s][k]] /\ table'[s][i].def = Struct(<<s, k>>, w)
    BY <1>3
  <2> QED BY <2>1 DEF SlotOf
<1>4. CASE s \in made /\ table[s][i].name \in Unions /\ table[s][i].def = Union(s, table[s][i].name)
  <2>1. s \in made' /\ table'[s][i].name \in Unions /\ table'[s][i].def = Union(s, table'[s][i].name)
    BY <1>4
  <2> QED BY <2>1 DEF SlotOf
<1> QED BY <1>1, <1>2, <1>3, <1>4 DEF SlotOf

LEMMA SlotsKept ==
    ASSUME NEW s, SlotsOf(s), table'[s] = table[s], procedures'[s] = procedures[s],
           \A r \in DOMAIN structs : r \in DOMAIN structs' /\ structs'[r] = structs[r],
           made \subseteq made', s \in made' => s \in made
    PROVE  SlotsOf(s)'
<1>1. \A i \in DOMAIN table'[s] : SlotOf(s, i)'
  BY SlotKept DEF SlotsOf
<1>2. \A k \in DOMAIN procedures'[s] : \E i \in DOMAIN table'[s] :
         table'[s][i] = [name |-> procedures'[s][k], def |-> Procedure(<<s, k>>)]
  BY DEF SlotsOf
<1>3. \A w \in Unions : \E i \in DOMAIN table'[s] :
         table'[s][i].name = w /\ (s \in made' => table'[s][i].def = Union(s, w))
  BY DEF SlotsOf
<1> QED BY <1>1, <1>2, <1>3 DEF SlotsOf

LEMMA TablesSame ==
    ASSUME IInv, UNCHANGED <<procedures, table, structs, made>>
    PROVE  Slots' /\ Structs' /\ Stays
<1>1. Slots'
  BY DEF IInv, Slots, SlotsOf, SlotOf
<1>2. Structs'
  BY DEF IInv, Structs, ProcName
<1> QED BY <1>1, <1>2 DEF Stays, Extends

LEMMA ServiceKept ==
    ASSUME NEW s, UNCHANGED loaded,
           \A w \in Unions : unions'[s][w].members = unions[s][w].members,
           \A r \in DOMAIN structs : r \in DOMAIN structs' /\ structs'[r] = structs[r]
    PROVE  /\ Members(s)' = Members(s) /\ \A i : Source(s, i)' = Source(s, i)
           /\ Left(s)' = Left(s)
           /\ OrderedOf(s) => OrderedOf(s)'
           /\ \A w \in Unions : MembersOf(s, w) => MembersOf(s, w)'
<1>1. "call_union" \in Unions
  BY DEF Unions
<1>2. unions'[s]["call_union"].members = unions[s]["call_union"].members
  BY <1>1
<1>3. Members(s)' = Members(s) /\ \A i : Source(s, i)' = Source(s, i)
  BY <1>2 DEF Members, Source
<1>4. Left(s)' = Left(s)
  BY <1>2, LoadedSame DEF Left
<1>5. ASSUME OrderedOf(s) PROVE OrderedOf(s)'
  BY <1>3, <1>5, LoadedSame DEF OrderedOf
<1>6. ASSUME NEW w \in Unions, MembersOf(s, w) PROVE MembersOf(s, w)'
  <2>1. unions'[s][w].members = unions[s][w].members
    OBVIOUS
  <2>2. \A r \in DOMAIN structs : MemberFor(r, w)' = MemberFor(r, w)
    BY LoadedSame DEF MemberFor
  <2> QED BY <1>3, <1>6, <2>1, <2>2, LoadedSame DEF MembersOf
<1> QED BY <1>3, <1>4, <1>5, <1>6

LEMMA UnionsSame ==
    ASSUME IInv, UNCHANGED <<loaded, unions, enums>>, status # "no_alternatives",
           \A r \in DOMAIN structs : r \in DOMAIN structs' /\ structs'[r] = structs[r]
    PROVE  (UnionTypes /\ UnionSlots /\ UnionMembers /\ Ordered /\ Alike)'
<1>1. UnionTypes'
  BY DEF IInv, UnionTypes
<1>2. UnionSlots'
  <2> SUFFICES ASSUME NEW s \in DOMAIN unions, NEW w \in Unions PROVE UnionSlotsOf(s, w)'
    BY DEF UnionSlots
  <2>1. UnionSlotsOf(s, w)
    BY DEF IInv, UnionSlots
  <2> QED BY <2>1 DEF UnionSlotsOf
<1>3. \A s, i : Members(s)' = Members(s) /\ Source(s, i)' = Source(s, i)
  BY ServiceKept
<1>4. UnionMembers'
  BY ServiceKept DEF IInv, UnionMembers
<1>5. Ordered'
  BY ServiceKept DEF IInv, Ordered
<1>6. Alike'
  BY <1>3, LoadedSame DEF IInv, Alike
<1> QED BY <1>1, <1>2, <1>4, <1>5, <1>6

LEMMA TypeSame ==
    ASSUME TypeOK, UNCHANGED loaded,
           table' \in [Services -> Seq(Slot)], \A s \in Services : IsScope(table'[s]),
           \A s \in DOMAIN unions', w \in Unions : IsScope(unions'[s][w].scope),
           DOMAIN structs' \subseteq Counted,
           made' \subseteq DOMAIN unions', DOMAIN unions' \subseteq Services,
           DOMAIN enums' \subseteq made' \X Unions,
           current' = <<>> \/ \E s \in DOMAIN unions' \ made' : current' = <<s>>,
           status' \in {"loading", "not_loaded", "generating", "clash", "no_alternatives"}
    PROVE  TypeOK'
<1>1. Counted' = Counted
  BY LoadedSame
<1>2. current' \in {<<>>} \cup {<<s>> : s \in DOMAIN unions' \ made'}
  OBVIOUS
<1> QED BY <1>1, <1>2 DEF TypeOK, loaded, Slot

LEMMA TypeParts ==
    ASSUME TypeOK
    PROVE  /\ table \in [Services -> Seq(Slot)] /\ \A s \in Services : IsScope(table[s])
           /\ \A s \in DOMAIN unions, w \in Unions : IsScope(unions[s][w].scope)
           /\ DOMAIN structs \subseteq Counted
           /\ made \subseteq DOMAIN unions /\ DOMAIN unions \subseteq Services
           /\ DOMAIN enums \subseteq made \X Unions
           /\ current = <<>> \/ \E s \in DOMAIN unions \ made : current = <<s>>
<1>1. current \in {<<>>} \cup {<<s>> : s \in DOMAIN unions \ made}
  BY DEF TypeOK
<1>2. current = <<>> \/ \E s \in DOMAIN unions \ made : current = <<s>>
  BY <1>1
<1> QED BY <1>2 DEF TypeOK, Slot

LEMMA TypeUnchanged ==
    ASSUME TypeOK, UNCHANGED <<loaded, table, structs, unions, enums, made, current>>,
           status' \in {"loading", "not_loaded", "generating", "clash", "no_alternatives"}
    PROVE  TypeOK'
<1>1. /\ table' \in [Services -> Seq(Slot)] /\ \A s \in Services : IsScope(table'[s])
      /\ \A s \in DOMAIN unions', w \in Unions : IsScope(unions'[s][w].scope)
      /\ DOMAIN structs' \subseteq Counted
      /\ made' \subseteq DOMAIN unions' /\ DOMAIN unions' \subseteq Services
      /\ DOMAIN enums' \subseteq made' \X Unions
      /\ current' = <<>> \/ \E s \in DOMAIN unions' \ made' : current' = <<s>>
  BY TypeParts
<1> QED BY <1>1, TypeSame

\* What is being made is not made.
LEMMA CurrentFacts ==
    ASSUME IInv, current # <<>>
    PROVE  /\ current = <<current[1]>> /\ current[1] \in DOMAIN unions /\ current[1] \notin made
           /\ current[1] \in Services /\ status \notin {"loading", "not_loaded"}
<1>1. \E s \in DOMAIN unions \ made : current = <<s>>
  BY DEF IInv, TypeOK
<1>2. DOMAIN unions \subseteq Services
  BY DEF IInv, TypeOK
<1>3. status \notin {"loading", "not_loaded"}
  BY DEF IInv, Untouched
<1> QED BY <1>1, <1>2, <1>3

LEMMA RefuseStep ==
    ASSUME IInv, NEW how \in {"not_loaded", "clash"}, Refuse(how),
           status \in {"loading", "generating"},
           IF how = "clash" THEN status = "generating" /\ current # <<>> /\ Clash(current[1])
           ELSE status = "loading"
    PROVE  IInv' /\ Stays
<1>1. status' = how /\ UNCHANGED <<loaded, procedures, table, structs, unions, enums, made, current>>
  BY DEF Refuse, loaded
<1>2. TypeOK'
  <2>1. status' \in {"loading", "not_loaded", "generating", "clash", "no_alternatives"}
    BY <1>1
  <2> QED BY <1>1, <2>1, TypeUnchanged DEF IInv
<1>3. (UnionTypes /\ UnionSlots /\ UnionMembers /\ Ordered /\ Alike)'
  BY <1>1, UnionsSame
<1>4. Complete'
  BY <1>1, LoadedSame DEF IInv, Complete, Left
<1>5. Untouched'
  BY <1>1 DEF IInv, Untouched
<1>6. Stopped'
  BY <1>1, LoadedSame DEF Stopped
<1> QED BY <1>1, <1>2, <1>3, <1>4, <1>5, <1>6, TablesSame DEF IInv

LEMMA LoadedStep ==
    ASSUME IInv, Loaded
    PROVE  IInv' /\ Stays
<1>1. /\ status = "loading" /\ status' = "generating"
      /\ UNCHANGED <<loaded, procedures, table, structs, unions, enums, made, current>>
  BY DEF Loaded, loaded
<1>2. TypeOK'
  <2>1. status' \in {"loading", "not_loaded", "generating", "clash", "no_alternatives"}
    BY <1>1
  <2> QED BY <1>1, <2>1, TypeUnchanged DEF IInv
<1>3. (UnionTypes /\ UnionSlots /\ UnionMembers /\ Ordered /\ Alike)'
  BY <1>1, UnionsSame
<1>4. Complete'
  BY <1>1, LoadedSame DEF IInv, Complete, Left
<1>5. Untouched' /\ Stopped'
  BY <1>1 DEF Untouched, Stopped
<1> QED BY <1>1, <1>2, <1>3, <1>4, <1>5, TablesSame DEF IInv

LEMMA AppendFacts ==
    ASSUME NEW S, NEW seq \in Seq(S), NEW x \in S, NEW new, new = Append(seq, x),
           NEW n \in Nat, n = Len(seq)
    PROVE  /\ new \in Seq(S) /\ Len(new) = n + 1 /\ DOMAIN new = 1 .. n + 1
           /\ DOMAIN seq = 1 .. n /\ new[n + 1] = x
           /\ \A i \in 1 .. n : new[i] = seq[i]
BY AppendProperties

LEMMA AddProcedureStep ==
    ASSUME ServicesAssumption, IInv, NEW s \in Services, NEW name \in ProcNames,
           AddProcedure(s, name)
    PROVE  IInv' /\ Stays
<1>0. status = "loading"
  BY DEF AddProcedure
<1>1. CASE Redefines(table[s], name)
  <2>1. Refuse("not_loaded")
    BY <1>1 DEF AddProcedure
  <2> QED BY <1>0, <2>1, RefuseStep
<1>2. CASE ~Redefines(table[s], name)
  <2> DEFINE k == Len(procedures[s]) + 1
             d == define(table[s], name, Procedure(<<s, k>>))
  <2>1. /\ procedures' = [procedures EXCEPT ![s] = Append(@, name)]
        /\ table' = [table EXCEPT ![s] = d]
        /\ UNCHANGED <<inheritance_list, structs, unions, enums, made, current, status>>
    BY <1>2 DEF AddProcedure
  <2>2. structs = <<>> /\ unions = <<>> /\ enums = <<>> /\ made = {} /\ current = <<>>
    BY <1>0 DEF IInv, Untouched
  <2>3. /\ procedures[s] \in Seq(ProcNames) /\ IsScope(table[s])
        /\ procedures \in [Services -> Seq(ProcNames)]
    BY DEF IInv, TypeOK
  <2>4. k \in Nat \ {0} /\ <<s, k>> \in Services \X Nat
    BY <2>3
  <2>5. Procedure(<<s, k>>) \in Symbols /\ name \in Names
    BY <2>4, SymbolTypes DEF Names, Unions
  <2>6. IsScope(d) /\ \E n \in Nat \ {0} : DefinedAt(table[s], d, name, Procedure(<<s, k>>), n)
    BY <1>2, <2>3, <2>5, DefineFacts
  <2>7. /\ procedures'[s] \in Seq(ProcNames) /\ DOMAIN procedures'[s] = 1 .. k
        /\ DOMAIN procedures[s] = 1 .. k - 1
        /\ procedures'[s][k] = name /\ \A i \in 1 .. k - 1 : procedures'[s][i] = procedures[s][i]
    <3>1. PICK list : list = procedures[s]
      OBVIOUS
    <3>2. procedures'[s] = Append(list, name)
      BY <2>1, <2>3, <3>1
    <3>3. list \in Seq(ProcNames) /\ k = Len(list) + 1 /\ DOMAIN list = 1 .. k - 1
      BY <2>3, <3>1
    <3>4. PICK n \in Nat : n = Len(list) /\ k = n + 1 /\ k - 1 = n
      BY <3>3
    <3>5. PICK new : new = procedures'[s]
      OBVIOUS
    <3> HIDE DEF k
    <3>6. list \in Seq(ProcNames) /\ new = Append(list, name) /\ name \in ProcNames
      BY <3>2, <3>3, <3>5
    <3>7. /\ new \in Seq(ProcNames) /\ DOMAIN new = 1 .. n + 1 /\ DOMAIN list = 1 .. n
          /\ new[n + 1] = name /\ \A i \in 1 .. n : new[i] = list[i]
      BY <3>4, <3>6, AppendFacts
    <3> QED BY <3>1, <3>4, <3>5, <3>7
  <2>8. \A t \in Services \ {s} : procedures'[t] = procedures[t] /\ table'[t] = table[t]
    BY <2>1
  <2>9. table'[s] = d
    BY <2>1 DEF IInv, TypeOK
  <2> HIDE DEF k, d
  <2>10. PICK n \in Nat \ {0} : DefinedAt(table[s], d, name, Procedure(<<s, k>>), n)
    BY <2>6
  <2>11. Extends(table[s], d)
    BY <2>10, DefinedExtends
  <2>12. Stays
    BY <2>8, <2>9, <2>11 DEF Stays, Extends
  <2>13. TypeOK'
    <3>1. procedures' \in [Services -> Seq(ProcNames)]
      BY <2>1, <2>3, <2>7
    <3>2. d \in Seq(Slot)
      BY <2>6, ScopeSlots
    <3>3. table' \in [Services -> Seq([name : Names, def : Symbols])]
      BY <2>1, <3>2 DEF IInv, TypeOK, Slot
    <3>4. \A t \in Services : IsScope(table'[t])
      BY <2>6, <2>8, <2>9 DEF IInv, TypeOK
    <3>5. DOMAIN structs' = {} /\ DOMAIN unions' = {} /\ DOMAIN enums' = {}
      BY <2>1, <2>2
    <3> QED BY <2>1, <2>2, <3>1, <3>3, <3>4, <3>5 DEF IInv, TypeOK
  <2>14. ASSUME NEW t \in Services \ {s} PROVE SlotsOf(t)'
    <3>1. SlotsOf(t)
      BY DEF IInv, Slots
    <3>2. procedures'[t] = procedures[t] /\ table'[t] = table[t]
      BY <2>8
    <3> QED BY <2>1, <3>1, <3>2, SlotsKept
  <2>15. SlotsOf(s)'
    <3>1. SlotsOf(s)
      BY DEF IInv, Slots
    <3>2. \A i \in DOMAIN d : SlotOf(s, i)'
      <4> TAKE i \in DOMAIN d
      <4>1. CASE i = n
        <5>1. d[n] = [name |-> procedures'[s][k], def |-> Procedure(<<s, k>>)] /\ k \in DOMAIN procedures'[s]
          BY <2>4, <2>7, <2>10 DEF DefinedAt
        <5> QED BY <2>9, <4>1, <5>1 DEF SlotOf
      <4>2. CASE i # n
        <5>1. i \in DOMAIN table[s] /\ d[i] = table[s][i]
          BY <2>10, <4>2 DEF DefinedAt
        <5>2. SlotOf(s, i)
          BY <3>1, <5>1 DEF SlotsOf
        <5>3. \A j \in DOMAIN procedures[s] : j \in DOMAIN procedures'[s] /\ procedures'[s][j] = procedures[s][j]
          BY <2>4, <2>7
        <5> QED BY <2>1, <2>9, <5>1, <5>2, <5>3, SlotKept
      <4> QED BY <4>1, <4>2
    <3>3. ASSUME NEW j \in DOMAIN procedures'[s]
          PROVE  \E i \in DOMAIN d : d[i] = [name |-> procedures'[s][j], def |-> Procedure(<<s, j>>)]
      <4>1. CASE j = k
        BY <2>7, <2>10, <4>1 DEF DefinedAt
      <4>2. CASE j # k
        <5>1. j \in DOMAIN procedures[s] /\ procedures'[s][j] = procedures[s][j]
          BY <2>4, <2>7, <4>2
        <5>2. PICK i \in DOMAIN table[s] :
                 table[s][i] = [name |-> procedures[s][j], def |-> Procedure(<<s, j>>)]
          BY <3>1, <5>1 DEF SlotsOf
        <5>3. is_defined(table[s], i)
          <6>1. Procedure(<<s, j>>) # forward_decl
            BY SymbolFacts DEF Unions
          <6> QED BY <5>2, <6>1 DEF is_defined
        <5> QED BY <2>11, <5>1, <5>2, <5>3 DEF Extends
      <4> QED BY <4>1, <4>2
    <3>4. \A w \in Unions : \E i \in DOMAIN d : d[i].name = w
      BY <2>11, <3>1 DEF SlotsOf, Extends
    <3> QED BY <2>1, <2>2, <2>9, <3>2, <3>3, <3>4 DEF SlotsOf
  <2>16. Slots'
    BY <2>14, <2>15 DEF Slots
  <2>17. Untouched' /\ Stopped'
    BY <1>0, <2>1, <2>2 DEF Untouched, Stopped
  <2> QED BY <2>1, <2>2, <2>12, <2>13, <2>16, <2>17, NothingMadeNext DEF IInv
<1> QED BY <1>1, <1>2

LEMMA WithFacts ==
    ASSUME NEW f, NEW k, NEW x
    PROVE  /\ DOMAIN With(f, k, x) = DOMAIN f \cup {k} /\ With(f, k, x)[k] = x
           /\ \A j \in DOMAIN f : j # k => With(f, k, x)[j] = f[j]
BY DEF With

LEMMA BeginUnionsStep ==
    ASSUME IInv, NEW s \in Services, BeginUnions(s)
    PROVE  IInv' /\ Stays
<1> DEFINE new == [w \in Unions |-> NewUnion]
<1>1. /\ status = "generating" /\ s \notin made /\ unions' = With(unions, s, new)
      /\ current' = <<s>>
      /\ UNCHANGED <<loaded, procedures, table, structs, enums, made, status>>
  BY DEF BeginUnions, loaded
<1>3. \A w \in Unions : new[w] = NewUnion
  OBVIOUS
<1>4. new \in [Unions -> [scope : Seq(Slot), members : Seq(MemberType)]]
  BY NewScopes
<1> HIDE DEF new
<1>2. /\ DOMAIN unions' = DOMAIN unions \cup {s} /\ unions'[s] = new
      /\ \A t \in DOMAIN unions : t # s => unions'[t] = unions[t]
  <2>1. /\ DOMAIN With(unions, s, new) = DOMAIN unions \cup {s} /\ With(unions, s, new)[s] = new
        /\ \A t \in DOMAIN unions : t # s => With(unions, s, new)[t] = unions[t]
    BY DEF With
  <2> QED BY <1>1, <2>1
<1>5. "call_union" \in Unions
  BY DEF Unions
<1>6. Members(s)' = <<>> /\ DOMAIN Members(s)' = {} /\ Len(Members(s)') = 0
  BY <1>2, <1>3, <1>5, NewScopes DEF Members
<1>7. \A t, i : t \in DOMAIN unions /\ t # s =>
         Members(t)' = Members(t) /\ Source(t, i)' = Source(t, i)
  BY <1>2 DEF Members, Source
<1>8. TypeOK'
  <2>1. \A t \in DOMAIN unions', w \in Unions : IsScope(unions'[t][w].scope)
    BY <1>2, <1>3, NewScopes DEF IInv, TypeOK
  <2> QED BY <1>1, <1>2, <2>1, TypeSame DEF IInv, TypeOK, Slot
<1>9. UnionTypes'
  BY <1>2, <1>4 DEF IInv, UnionTypes
<1>10. UnionSlots'
  <2> SUFFICES ASSUME NEW t \in DOMAIN unions', NEW w \in Unions PROVE UnionSlotsOf(t, w)'
    BY DEF UnionSlots
  <2>1. CASE t = s
    <3>1. unions'[s][w] = NewUnion
      BY <1>2, <1>3
    <3>2. <<s, w>> \notin DOMAIN enums'
      BY <1>1 DEF IInv, TypeOK
    <3>3. DOMAIN NewUnion.members = {}
      BY NewScopes
    <3> QED BY <2>1, <3>1, <3>2, <3>3, NewScopes DEF UnionSlotsOf
  <2>2. CASE t # s
    <3>1. UnionSlotsOf(t, w)
      BY <1>2, <2>2 DEF IInv, UnionSlots
    <3> QED BY <1>1, <1>2, <2>2, <3>1 DEF UnionSlotsOf
  <2> QED BY <2>1, <2>2
<1>11. UnionMembers'
  <2> SUFFICES ASSUME NEW t \in DOMAIN unions', NEW w \in Unions PROVE MembersOf(t, w)'
    BY DEF UnionMembers
  <2>1. CASE t = s
    <3>1. unions'[t][w].members = <<>>
      BY <1>2, <1>3, <2>1, NewScopes
    <3>2. DOMAIN unions'[t][w].members = {}
      BY <3>1
    <3> QED BY <1>6, <2>1, <3>1, <3>2 DEF MembersOf
  <2>2. CASE t # s
    BY <1>1, <1>2, <2>2, ServiceKept DEF IInv, UnionMembers
  <2> QED BY <2>1, <2>2
<1>12. Ordered'
  <2> SUFFICES ASSUME NEW t \in DOMAIN unions' PROVE OrderedOf(t)'
    BY DEF Ordered
  <2>1. CASE t = s
    BY <1>6, <2>1 DEF OrderedOf
  <2>2. CASE t # s
    BY <1>1, <1>2, <2>2, ServiceKept DEF IInv, Ordered
  <2> QED BY <2>1, <2>2
<1>13. Alike'
  <2>1. \A t : InList(t)' = InList(t)
    BY <1>1, LoadedSame
  <2> QED BY <1>2, <1>6, <1>7, <2>1 DEF IInv, Alike
<1>14. Complete'
  <2>1. \A t \in made : t # s /\ t \in DOMAIN unions /\ unions'[t] = unions[t]
    BY <1>1, <1>2 DEF IInv, TypeOK
  <2> QED BY <1>1, <2>1, ServiceKept DEF IInv, Complete
<1>15. Untouched' /\ Stopped'
  BY <1>1 DEF Untouched, Stopped
<1> QED BY <1>1, <1>8, <1>9, <1>10, <1>11, <1>12, <1>13, <1>14, <1>15, TablesSame DEF IInv

----------------------------------------------------------------------------
\* Structures.

LEMMA DefineTwice ==
    ASSUME NEW scope, IsScope(scope), NEW m \in Names, NEW n \in Names, m # n,
           NEW x \in Symbols, NEW y \in Symbols, x # forward_decl,
           ~Redefines(scope, m), ~Redefines(define(scope, m, x), n),
           NEW both, both = define(define(scope, m, x), n, y)
    PROVE  /\ IsScope(both) /\ Extends(scope, both)
           /\ \E i, j \in DOMAIN both :
                 /\ i # j
                 /\ both[i] = [name |-> m, def |-> x] /\ name_lookup(both, m) = {i}
                 /\ both[j] = [name |-> n, def |-> y] /\ name_lookup(both, n) = {j}
                 /\ i \in DOMAIN scope => scope[i] = [name |-> m, def |-> forward_decl]
                 /\ j \in DOMAIN scope => scope[j] = [name |-> n, def |-> forward_decl]
                 /\ \A k \in DOMAIN both \ {i, j} : k \in DOMAIN scope /\ both[k] = scope[k]
<1> DEFINE first == define(scope, m, x)
<1>1. PICK i \in Nat \ {0} : DefinedAt(scope, first, m, x, i)
  BY DefineFacts
<1>2. IsScope(first)
  BY DefineFacts
<1>3. both = define(first, n, y) /\ ~Redefines(first, n)
  OBVIOUS
<1> HIDE DEF first
<1>4. PICK j \in Nat \ {0} : DefinedAt(first, both, n, y, j)
  BY <1>2, <1>3, DefineFacts
<1>5. IsScope(both)
  BY <1>2, <1>3, DefineFacts
<1>6. Extends(scope, both)
  BY <1>1, <1>4, DefinedExtends, ExtendsTwice
<1>7. i # j
  <2>1. first[i].name = m /\ i \in DOMAIN first
    BY <1>1 DEF DefinedAt
  <2>2. j \in DOMAIN first => first[j].name = n
    BY <1>4 DEF DefinedAt
  <2> QED BY <2>1, <2>2
<1>8. i \in DOMAIN both /\ both[i] = [name |-> m, def |-> x]
  BY <1>1, <1>4, <1>7 DEF DefinedAt
<1>9. j \in DOMAIN both /\ both[j] = [name |-> n, def |-> y] /\ name_lookup(both, n) = {j}
  BY <1>4 DEF DefinedAt
<1>10. name_lookup(both, m) = {i}
  BY <1>5, <1>8, ScopeSlots DEF name_lookup
<1>11. i \in DOMAIN scope => scope[i] = [name |-> m, def |-> forward_decl]
  BY <1>1 DEF DefinedAt
<1>12. j \in DOMAIN scope => scope[j] = [name |-> n, def |-> forward_decl]
  BY <1>1, <1>4, <1>7 DEF DefinedAt
<1>13. \A k \in DOMAIN both \ {i, j} : k \in DOMAIN scope /\ both[k] = scope[k]
  BY <1>1, <1>4 DEF DefinedAt
<1> QED BY <1>5, <1>6, <1>7, <1>8, <1>9, <1>10, <1>11, <1>12, <1>13

\* A name in the scope of a service that is defined and is not to be defined again.
LEMMA StructClash ==
    ASSUME ServicesAssumption, IInv, NEW c \in Services, NEW r \in all_procedures(c),
           r \notin DOMAIN structs, NEW w \in Unions,
           Redefines(table[r[1]], NameOf[w][ProcName(r)])
    PROVE  Clash(c)
<1> DEFINE s == r[1]
           name == NameOf[w][ProcName(r)]
<1>1. TypeOK
  BY DEF IInv
<1>2. /\ s \in Services /\ r = <<s, r[2]>> /\ r[2] \in DOMAIN procedures[s]
      /\ ProcName(r) \in ProcNames /\ s \in InList(c)
  BY <1>1, ProcFacts
<1>3. PICK i \in DOMAIN table[s] : table[s][i].name = name /\ table[s][i].def # forward_decl
  BY DEF Redefines, name_lookup, is_defined
<1>4. name \notin Unions
  <2>1. NameOf[w] \in [ProcNames -> STRING \ Unions]
    BY DEF ServicesAssumption
  <2> QED BY <1>2, <2>1
<1>5. SlotOf(s, i)
  BY <1>2, SlotFacts
<1>6. \A k \in DOMAIN procedures[s] :
         /\ <<s, k>> \in all_procedures(c) /\ ProcName(<<s, k>>) = procedures[s][k]
         /\ ProcName(<<s, k>>) \in ProcNames
  <2> TAKE k \in DOMAIN procedures[s]
  <2>1. <<s, k>> \in all_procedures(c)
    BY <1>1, <1>2, ProcFacts
  <2>2. ProcName(<<s, k>>) = procedures[s][k] /\ ProcName(<<s, k>>) \in ProcNames
    BY <1>1, <2>1, ProcFacts
  <2> QED BY <2>1, <2>2
<1>7. ASSUME NEW k \in DOMAIN procedures[s], table[s][i].name = procedures[s][k]
      PROVE  Clash(c)
  <2>1. ProcName(<<s, k>>) = name /\ <<s, k>>[1] = r[1] /\ <<s, k>> \in all_procedures(c)
    BY <1>3, <1>6, <1>7
  <2> QED BY <2>1 DEF Clash
<1>8. ASSUME NEW k \in DOMAIN procedures[s], NEW v \in Unions,
             <<s, k>> \in DOMAIN structs, table[s][i].name = NameOf[v][procedures[s][k]]
      PROVE  Clash(c)
  <2>1. NameOf[v][ProcName(<<s, k>>)] = NameOf[w][ProcName(r)]
    BY <1>3, <1>6, <1>8
  <2>2. ProcName(<<s, k>>) = ProcName(r)
    BY <1>2, <1>6, <2>1 DEF ServicesAssumption
  <2> QED BY <1>6, <1>8, <2>2 DEF Clash
<1> QED BY <1>3, <1>4, <1>5, <1>7, <1>8 DEF SlotOf

LEMMA MakeStructsStep ==
    ASSUME ServicesAssumption, IInv, Generating, NEW r \in all_procedures(current[1]), MakeStructs(r)
    PROVE  IInv' /\ Stays
<1> DEFINE c == current[1]
           s == r[1]
           m == NameOf["call_union"][ProcName(r)]
           n == NameOf["return_union"][ProcName(r)]
           x == Struct(r, "call_union")
           y == Struct(r, "return_union")
           first == define(table[s], m, x)
           both == define(first, n, y)
<1>1. /\ status = "generating" /\ current # <<>> /\ c \in Services /\ c \in DOMAIN unions
      /\ r \notin DOMAIN structs /\ TypeOK
  BY CurrentFacts DEF Generating, MakeStructs, IInv
<1>2. /\ s \in Services /\ r = <<s, r[2]>> /\ r[2] \in DOMAIN procedures[s] /\ r[2] \in Nat
      /\ ProcName(r) \in ProcNames /\ ProcName(r) = procedures[s][r[2]]
  BY <1>1, ProcFacts
<1>3. "call_union" \in Unions /\ "return_union" \in Unions /\ "call_union" # "return_union"
  BY DEF Unions
<1>4. m # n /\ m \in Names /\ n \in Names /\ m \notin Unions /\ n \notin Unions
  <2>1. NameOf["call_union"] \in [ProcNames -> STRING \ Unions] /\ NameOf["return_union"] \in [ProcNames -> STRING \ Unions]
    BY <1>3 DEF ServicesAssumption
  <2>2. m # n
    BY <1>2, <1>3 DEF ServicesAssumption
  <2> QED BY <1>2, <1>3, <2>1, <2>2 DEF Names
<1>5. r \in Services \X Nat
  BY <1>2
<1>6. x \in Symbols /\ y \in Symbols /\ x # forward_decl /\ y # forward_decl
  BY <1>3, <1>5, SymbolTypes, SymbolFacts
<1>7. IsScope(table[s])
  BY <1>2, SlotFacts
<1>8. CASE Redefines(table[s], m)
  <2>1. Refuse("clash")
    BY <1>8 DEF MakeStructs
  <2>2. Clash(c)
    BY <1>1, <1>3, <1>8, StructClash
  <2> QED BY <1>1, <2>1, <2>2, RefuseStep
<1>9. CASE ~Redefines(table[s], m) /\ Redefines(first, n)
  <2>1. Refuse("clash")
    BY <1>9 DEF MakeStructs
  <2>2. PICK i \in Nat \ {0} : DefinedAt(table[s], first, m, x, i)
    BY <1>4, <1>6, <1>7, <1>9, DefineFacts
  <2>3. PICK j \in DOMAIN first : first[j].name = n /\ first[j].def # forward_decl
    BY <1>9 DEF Redefines, name_lookup, is_defined
  <2>4. j # i
    BY <1>4, <2>2, <2>3 DEF DefinedAt
  <2>5. j \in DOMAIN table[s] /\ table[s][j] = first[j]
    BY <2>2, <2>4 DEF DefinedAt
  <2>6. Redefines(table[s], n)
    BY <2>3, <2>5 DEF Redefines, name_lookup, is_defined
  <2>7. Clash(c)
    BY <1>1, <1>3, <2>6, StructClash
  <2> QED BY <1>1, <2>1, <2>7, RefuseStep
<1>10. CASE ~Redefines(table[s], m) /\ ~Redefines(first, n)
  <2> DEFINE new == [w \in Unions |-> CHOOSE i \in name_lookup(both, NameOf[w][ProcName(r)]) : TRUE]
  <2>1. /\ table' = [table EXCEPT ![s] = both] /\ structs' = With(structs, r, new)
        /\ UNCHANGED <<loaded, procedures, unions, enums, made, current, status>>
    BY <1>10 DEF MakeStructs, loaded
  <2>2. /\ IsScope(both) /\ Extends(table[s], both)
        /\ \E i, j \in DOMAIN both :
              /\ i # j
              /\ both[i] = [name |-> m, def |-> x] /\ name_lookup(both, m) = {i}
              /\ both[j] = [name |-> n, def |-> y] /\ name_lookup(both, n) = {j}
              /\ i \in DOMAIN table[s] => table[s][i] = [name |-> m, def |-> forward_decl]
              /\ j \in DOMAIN table[s] => table[s][j] = [name |-> n, def |-> forward_decl]
              /\ \A k \in DOMAIN both \ {i, j} : k \in DOMAIN table[s] /\ both[k] = table[s][k]
    BY <1>4, <1>6, <1>7, <1>10, DefineTwice
  <2> HIDE DEF both, x, y, m, n
  <2>3. PICK i \in DOMAIN both, j \in DOMAIN both :
           /\ i # j
           /\ both[i] = [name |-> m, def |-> x] /\ name_lookup(both, m) = {i}
           /\ both[j] = [name |-> n, def |-> y] /\ name_lookup(both, n) = {j}
           /\ i \in DOMAIN table[s] => table[s][i] = [name |-> m, def |-> forward_decl]
           /\ j \in DOMAIN table[s] => table[s][j] = [name |-> n, def |-> forward_decl]
           /\ \A k \in DOMAIN both \ {i, j} : k \in DOMAIN table[s] /\ both[k] = table[s][k]
    BY <2>2
  \* Forward declarations have other names, so both are new.
  <2>4. i \notin DOMAIN table[s] /\ j \notin DOMAIN table[s]
    <3>1. \A k \in DOMAIN table[s] : table[s][k].name \notin Unions => table[s][k].def # forward_decl
      BY <1>2, SlotNames
    <3> QED BY <1>4, <2>3, <3>1
  <2>5. new["call_union"] = i /\ new["return_union"] = j
    BY <1>3, <2>3 DEF m, n
  <2> HIDE DEF new
  <2>6. /\ DOMAIN structs' = DOMAIN structs \cup {r} /\ structs'[r] = new
        /\ \A q \in DOMAIN structs : q # r /\ structs'[q] = structs[q]
    <3>1. /\ DOMAIN With(structs, r, new) = DOMAIN structs \cup {r} /\ With(structs, r, new)[r] = new
          /\ \A q \in DOMAIN structs : q # r => With(structs, r, new)[q] = structs[q]
      BY DEF With
    <3> QED BY <1>1, <2>1, <3>1
  <2>7. \A q \in DOMAIN structs : q \in DOMAIN structs' /\ structs'[q] = structs[q]
    BY <2>6
  <2>8. table'[s] = both /\ \A t \in Services \ {s} : table'[t] = table[t]
    BY <1>1, <1>2, <2>1 DEF TypeOK
  <2>9. \A k \in DOMAIN table[s] : k \in DOMAIN both /\ both[k] = table[s][k]
    <3>1. \A k \in DOMAIN table[s] : k \in DOMAIN both
      BY <2>2 DEF Extends
    <3> QED BY <2>3, <2>4, <3>1
  <2>10. Stays
    BY <2>2, <2>8 DEF Stays, Extends
  <2>11. TypeOK'
    <3>1. \A t \in Services : IsScope(table'[t])
      BY <1>1, <2>2, <2>8 DEF TypeOK
    <3>2. both \in Seq(Slot)
      BY <2>2, ScopeSlots
    <3>3. table' \in [Services -> Seq(Slot)]
      BY <1>1, <2>1, <3>2 DEF TypeOK, Slot
    <3>4. r \in Counted
      BY <1>2 DEF Counted
    <3>5. DOMAIN structs' \subseteq Counted
      BY <1>1, <2>6, <3>4 DEF TypeOK
    <3>6. /\ \A t \in DOMAIN unions', w \in Unions : IsScope(unions'[t][w].scope)
          /\ made' \subseteq DOMAIN unions' /\ DOMAIN unions' \subseteq Services
          /\ DOMAIN enums' \subseteq made' \X Unions
          /\ current' = <<>> \/ \E t \in DOMAIN unions' \ made' : current' = <<t>>
          /\ status' \in {"loading", "not_loaded", "generating", "clash", "no_alternatives"}
      BY <1>1, <2>1, TypeParts
    <3> QED BY <1>1, <2>1, <3>1, <3>3, <3>5, <3>6, TypeSame
  <2>12. ASSUME NEW t \in Services \ {s} PROVE SlotsOf(t)'
    BY <2>1, <2>7, <2>8, SlotsKept DEF IInv, Slots
  <2>13. SlotsOf(s)'
    <3>1. SlotsOf(s)
      BY <1>2 DEF IInv, Slots
    <3>2. \A k \in DOMAIN both : SlotOf(s, k)'
      <4> TAKE k \in DOMAIN both
      <4>1. CASE k = i
        <5>1. r[2] \in DOMAIN procedures'[s] /\ r \in DOMAIN structs' /\ structs'[r]["call_union"] = k
          BY <1>2, <2>1, <2>5, <2>6, <4>1
        <5>2. table'[s][k].name = m /\ table'[s][k].def = x
          BY <2>3, <2>8, <4>1
        <5>3. m = NameOf["call_union"][procedures'[s][r[2]]] /\ x = Struct(<<s, r[2]>>, "call_union")
          BY <1>2, <2>1 DEF m, x
        <5>4. <<s, r[2]>> \in DOMAIN structs' /\ structs'[<<s, r[2]>>]["call_union"] = k
          BY <1>2, <5>1
        <5> QED BY <1>3, <5>1, <5>2, <5>3, <5>4 DEF SlotOf
      <4>2. CASE k = j
        <5>1. r[2] \in DOMAIN procedures'[s] /\ r \in DOMAIN structs' /\ structs'[r]["return_union"] = k
          BY <1>2, <2>1, <2>5, <2>6, <4>2
        <5>2. table'[s][k].name = n /\ table'[s][k].def = y
          BY <2>3, <2>8, <4>2
        <5>3. n = NameOf["return_union"][procedures'[s][r[2]]] /\ y = Struct(<<s, r[2]>>, "return_union")
          BY <1>2, <2>1 DEF n, y
        <5>4. <<s, r[2]>> \in DOMAIN structs' /\ structs'[<<s, r[2]>>]["return_union"] = k
          BY <1>2, <5>1
        <5> QED BY <1>3, <5>1, <5>2, <5>3, <5>4 DEF SlotOf
      <4>3. CASE k \notin {i, j}
        <5>1. k \in DOMAIN table[s] /\ table'[s][k] = table[s][k]
          BY <2>3, <2>8, <4>3
        <5>2. SlotOf(s, k)
          BY <3>1, <5>1 DEF SlotsOf
        <5> QED BY <2>1, <2>7, <5>1, <5>2, SlotKept
      <4> QED BY <4>1, <4>2, <4>3
    <3>3. \A k \in DOMAIN procedures[s] : \E l \in DOMAIN both :
             both[l] = [name |-> procedures[s][k], def |-> Procedure(<<s, k>>)]
      <4> TAKE k \in DOMAIN procedures[s]
      <4>1. PICK l \in DOMAIN table[s] :
               table[s][l] = [name |-> procedures[s][k], def |-> Procedure(<<s, k>>)]
        BY <3>1 DEF SlotsOf
      <4>2. l \in DOMAIN both /\ both[l] = table[s][l]
        BY <2>9
      <4> QED BY <4>1, <4>2
    <3>4. \A w \in Unions : \E l \in DOMAIN both :
             both[l].name = w /\ (s \in made => both[l].def = Union(s, w))
      BY <2>9, <3>1 DEF SlotsOf
    <3> QED BY <2>1, <2>8, <3>2, <3>3, <3>4 DEF SlotsOf
  <2>14. Slots'
    BY <2>12, <2>13 DEF Slots
  <2>15. Structs'
    <3> SUFFICES ASSUME NEW q \in DOMAIN structs', NEW w \in Unions
                 PROVE  /\ structs'[q][w] \in DOMAIN table'[q[1]]
                        /\ table'[q[1]][structs'[q][w]] =
                              [name |-> NameOf[w][ProcName(q)'], def |-> Struct(q, w)]
      BY DEF Structs
    <3>0. \A p : ProcName(p)' = ProcName(p)
      BY <2>1, LoadedSame
    <3>1. CASE q = r
      <4>1. w = "call_union" \/ w = "return_union"
        BY DEF Unions
      <4> QED BY <2>3, <2>5, <2>6, <2>8, <3>0, <3>1, <4>1 DEF m, n, x, y
    <3>2. CASE q # r
      <4>1. q \in DOMAIN structs /\ structs'[q] = structs[q] /\ q[1] \in Services
        <5>1. q \in DOMAIN structs
          BY <2>6, <3>2
        <5>2. q \in Counted
          BY <1>1, <5>1 DEF TypeOK
        <5> QED BY <2>6, <5>1, <5>2 DEF Counted
      <4>2. /\ structs[q][w] \in DOMAIN table[q[1]]
            /\ table[q[1]][structs[q][w]] = [name |-> NameOf[w][ProcName(q)], def |-> Struct(q, w)]
        BY <4>1 DEF IInv, Structs
      <4> QED BY <2>8, <2>9, <3>0, <4>1, <4>2
    <3> QED BY <3>1, <3>2
  <2>16. (UnionTypes /\ UnionSlots /\ UnionMembers /\ Ordered /\ Alike)'
    BY <1>1, <2>1, <2>7, UnionsSame
  <2>17. Complete'
    <3>1. \A t : Left(t)' = Left(t)
      BY <2>1, LoadedSame DEF Left
    <3> QED BY <2>1, <3>1 DEF IInv, Complete
  <2>18. Untouched' /\ Stopped'
    BY <1>1, <2>1 DEF Untouched, Stopped
  <2> QED BY <2>10, <2>11, <2>14, <2>15, <2>16, <2>17, <2>18 DEF IInv
<1> QED BY <1>8, <1>9, <1>10

----------------------------------------------------------------------------
\* Unions.

LEMMA EndUnionsStep ==
    ASSUME ServicesAssumption, IInv, Generating, EndUnions
    PROVE  IInv' /\ Stays
<1>0. PICK s : s = current[1]
  OBVIOUS
<1> DEFINE x == Union(s, "call_union")
           y == Union(s, "return_union")
           first == define(table[s], "call_union", x)
           both == define(first, "return_union", y)
<1>1. /\ status = "generating" /\ current = <<s>> /\ s \in Services /\ s \in DOMAIN unions
      /\ s \notin made /\ Left(s) = {} /\ TypeOK
  BY <1>0, CurrentFacts DEF Generating, EndUnions, IInv
<1>2. /\ "call_union" \in Unions /\ "return_union" \in Unions /\ "call_union" # "return_union"
      /\ "call_union" \in Names /\ "return_union" \in Names
  BY DEF Unions, Names
<1>3. x \in Symbols /\ y \in Symbols /\ x # forward_decl /\ y # forward_decl
  <2>1. Union(s, "call_union") \in Symbols /\ Union(s, "return_union") \in Symbols
    BY <1>1, <1>2 DEF Union, Symbols
  <2>2. Union(s, "call_union") # forward_decl /\ Union(s, "return_union") # forward_decl
    BY <1>2, SymbolFacts
  <2> QED BY <2>1, <2>2
<1>4. IsScope(table[s])
  BY <1>1, SlotFacts
\* What is defined under such a name in the scope of s is a procedure.
<1>5. ASSUME NEW w \in Unions, Redefines(table[s], w) PROVE Clash(s)
  <2>1. PICK i \in DOMAIN table[s] : table[s][i].name = w /\ table[s][i].def # forward_decl
    BY <1>5 DEF Redefines, name_lookup, is_defined
  <2>2. PICK k \in DOMAIN procedures[s] : procedures[s][k] = w
    BY <1>1, <2>1, SlotNames
  <2> QED BY <2>2 DEF Clash
<1>6. CASE Redefines(table[s], "call_union")
  <2>1. Refuse("clash")
    BY <1>0, <1>6 DEF EndUnions
  <2>2. Clash(s)
    BY <1>2, <1>5, <1>6
  <2> QED BY <1>0, <1>1, <2>1, <2>2, RefuseStep DEF Generating
<1>7. CASE ~Redefines(table[s], "call_union") /\ Redefines(first, "return_union")
  <2>1. Refuse("clash")
    BY <1>0, <1>7 DEF EndUnions
  <2>2. PICK i \in Nat \ {0} : DefinedAt(table[s], first, "call_union", x, i)
    BY <1>2, <1>3, <1>4, <1>7, DefineFacts
  <2>3. PICK j \in DOMAIN first : first[j].name = "return_union" /\ first[j].def # forward_decl
    BY <1>7 DEF Redefines, name_lookup, is_defined
  <2>4. j # i
    BY <1>2, <2>2, <2>3 DEF DefinedAt
  <2>5. j \in DOMAIN table[s] /\ table[s][j] = first[j]
    BY <2>2, <2>4 DEF DefinedAt
  <2>6. Redefines(table[s], "return_union")
    BY <2>3, <2>5 DEF Redefines, name_lookup, is_defined
  <2>7. Clash(s)
    BY <1>2, <1>5, <2>6
  <2> QED BY <1>0, <1>1, <2>1, <2>7, RefuseStep DEF Generating
<1>8. CASE ~Redefines(table[s], "call_union") /\ ~Redefines(first, "return_union")
  <2>1. /\ table' = [table EXCEPT ![s] = both] /\ made' = made \cup {s} /\ current' = <<>>
        /\ UNCHANGED <<loaded, procedures, structs, unions, enums, status>>
    BY <1>0, <1>8 DEF EndUnions, loaded
  <2>2. /\ IsScope(both) /\ Extends(table[s], both)
        /\ \E i, j \in DOMAIN both :
              /\ both[i] = [name |-> "call_union", def |-> x]
              /\ both[j] = [name |-> "return_union", def |-> y]
              /\ \A k \in DOMAIN both \ {i, j} : k \in DOMAIN table[s] /\ both[k] = table[s][k]
    <3>1. PICK scope : scope = table[s]
      OBVIOUS
    <3> HIDE DEF x, y
    <3>2. IsScope(scope) /\ ~Redefines(scope, "call_union")
          /\ ~Redefines(define(scope, "call_union", x), "return_union")
          /\ both = define(define(scope, "call_union", x), "return_union", y)
      BY <1>4, <1>8, <3>1
    <3> HIDE DEF both
    <3>3. IsScope(both) /\ Extends(scope, both)
      BY <1>2, <1>3, <3>2, DefineTwice
    <3>4. \E i, j \in DOMAIN both :
                 /\ i # j
                 /\ both[i] = [name |-> "call_union", def |-> x] /\ name_lookup(both, "call_union") = {i}
                 /\ both[j] = [name |-> "return_union", def |-> y] /\ name_lookup(both, "return_union") = {j}
                 /\ i \in DOMAIN scope => scope[i] = [name |-> "call_union", def |-> forward_decl]
                 /\ j \in DOMAIN scope => scope[j] = [name |-> "return_union", def |-> forward_decl]
                 /\ \A k \in DOMAIN both \ {i, j} : k \in DOMAIN scope /\ both[k] = scope[k]
      BY <1>2, <1>3, <3>2, DefineTwice
    <3> QED BY <3>1, <3>3, <3>4
  <2> HIDE DEF both, x, y
  <2>3. PICK i \in DOMAIN both, j \in DOMAIN both :
           /\ both[i] = [name |-> "call_union", def |-> x]
           /\ both[j] = [name |-> "return_union", def |-> y]
           /\ \A k \in DOMAIN both \ {i, j} : k \in DOMAIN table[s] /\ both[k] = table[s][k]
    BY <2>2
  <2>4. table'[s] = both /\ \A t \in Services \ {s} : table'[t] = table[t]
    BY <1>1, <2>1 DEF TypeOK
  <2>5. \A k \in DOMAIN table[s] : k \in DOMAIN both /\ (table[s][k].def # forward_decl => both[k] = table[s][k])
    BY <2>2 DEF Extends, is_defined
  <2>6. Stays
    BY <2>2, <2>4 DEF Stays, Extends
  <2>7. TypeOK'
    <3>1. \A t \in Services : IsScope(table'[t])
      BY <1>1, <2>2, <2>4 DEF TypeOK
    <3>2. both \in Seq(Slot)
      BY <2>2, ScopeSlots
    <3>3. table' \in [Services -> Seq(Slot)]
      BY <1>1, <2>1, <3>2 DEF TypeOK, Slot
    <3>4. /\ \A t \in DOMAIN unions', w \in Unions : IsScope(unions'[t][w].scope)
          /\ made' \subseteq DOMAIN unions' /\ DOMAIN unions' \subseteq Services
          /\ DOMAIN enums' \subseteq made' \X Unions /\ DOMAIN structs' \subseteq Counted
          /\ current' = <<>>
          /\ status' \in {"loading", "not_loaded", "generating", "clash", "no_alternatives"}
      <4>1. made \cup {s} \subseteq DOMAIN unions /\ DOMAIN enums \subseteq (made \cup {s}) \X Unions
        BY <1>1, TypeParts
      <4> QED BY <1>1, <2>1, <4>1, TypeParts
    <3> QED BY <1>1, <2>1, <3>1, <3>3, <3>4, TypeSame
  <2>8. ASSUME NEW t \in Services \ {s} PROVE SlotsOf(t)'
    BY <2>1, <2>4, SlotsKept DEF IInv, Slots
  <2>9. SlotsOf(s)'
    <3>1. SlotsOf(s)
      BY <1>1 DEF IInv, Slots
    <3>2. \A k \in DOMAIN both : SlotOf(s, k)'
      <4> TAKE k \in DOMAIN both
      <4>1. CASE k = i
        <5>1. table'[s][k].name = "call_union" /\ table'[s][k].def = Union(s, "call_union") /\ s \in made'
          BY <2>1, <2>3, <2>4, <4>1 DEF x
        <5> QED BY <1>2, <5>1 DEF SlotOf
      <4>2. CASE k = j
        <5>1. table'[s][k].name = "return_union" /\ table'[s][k].def = Union(s, "return_union") /\ s \in made'
          BY <2>1, <2>3, <2>4, <4>2 DEF y
        <5> QED BY <1>2, <5>1 DEF SlotOf
      <4>3. CASE k \notin {i, j}
        <5>1. k \in DOMAIN table[s] /\ table'[s][k] = table[s][k]
          BY <2>3, <2>4, <4>3
        <5>2. SlotOf(s, k)
          BY <3>1, <5>1 DEF SlotsOf
        <5> QED BY <2>1, <5>1, <5>2, SlotKept
      <4> QED BY <4>1, <4>2, <4>3
    <3>3. \A k \in DOMAIN procedures[s] : \E l \in DOMAIN both :
             both[l] = [name |-> procedures[s][k], def |-> Procedure(<<s, k>>)]
      <4> TAKE k \in DOMAIN procedures[s]
      <4>1. PICK l \in DOMAIN table[s] :
               table[s][l] = [name |-> procedures[s][k], def |-> Procedure(<<s, k>>)]
        BY <3>1 DEF SlotsOf
      <4>2. Procedure(<<s, k>>) # forward_decl
        BY SymbolFacts DEF Unions
      <4>3. l \in DOMAIN both /\ both[l] = table[s][l]
        BY <2>5, <4>1, <4>2
      <4> QED BY <4>1, <4>3
    <3>4. \A w \in Unions : \E l \in DOMAIN both : both[l].name = w /\ both[l].def = Union(s, w)
      <4>1. \A w \in Unions : w = "call_union" \/ w = "return_union"
        BY DEF Unions
      <4> QED BY <2>3, <4>1 DEF x, y
    <3> QED BY <2>1, <2>4, <3>2, <3>3, <3>4 DEF SlotsOf
  <2>10. Slots'
    BY <2>8, <2>9 DEF Slots
  <2>11. Structs'
    <3> SUFFICES ASSUME NEW q \in DOMAIN structs', NEW w \in Unions
                 PROVE  /\ structs'[q][w] \in DOMAIN table'[q[1]]
                        /\ table'[q[1]][structs'[q][w]] =
                              [name |-> NameOf[w][ProcName(q)'], def |-> Struct(q, w)]
      BY DEF Structs
    <3>0. ProcName(q)' = ProcName(q)
      BY <2>1, LoadedSame
    <3>1. q \in DOMAIN structs /\ structs'[q] = structs[q] /\ q[1] \in Services
      <4>1. q \in Counted
        BY <1>1, <2>1 DEF TypeOK
      <4> QED BY <2>1, <4>1 DEF Counted
    <3>2. /\ structs[q][w] \in DOMAIN table[q[1]]
          /\ table[q[1]][structs[q][w]] = [name |-> NameOf[w][ProcName(q)], def |-> Struct(q, w)]
      BY <3>1 DEF IInv, Structs
    <3>3. table[q[1]][structs[q][w]].def # forward_decl
      <4>1. Struct(q, w) # forward_decl
        BY SymbolFacts
      <4> QED BY <3>2, <4>1
    <3> QED BY <2>4, <2>5, <3>0, <3>1, <3>2, <3>3
  <2>12. (UnionTypes /\ UnionSlots /\ UnionMembers /\ Ordered /\ Alike)'
    BY <1>1, <2>1, UnionsSame
  <2>13. Complete'
    <3>1. \A t : Left(t)' = Left(t)
      BY <2>1, LoadedSame DEF Left
    <3> QED BY <1>1, <2>1, <3>1 DEF IInv, Complete
  <2>14. Untouched' /\ Stopped'
    BY <1>1, <2>1 DEF Untouched, Stopped
  <2> QED BY <2>6, <2>7, <2>10, <2>11, <2>12, <2>13, <2>14 DEF IInv
<1> QED BY <1>6, <1>7, <1>8

LEMMA GetEnumStep ==
    ASSUME IInv, NEW s \in Services, NEW w \in Unions, GetEnum(s, w)
    PROVE  IInv' /\ Stays
<1> DEFINE scope == unions[s][w].scope
           members == unions[s][w].members
           d == define(scope, "alternatives", Alternatives)
           new == [i \in DOMAIN members |-> [name |-> members[i].name, value |-> i - 1]]
<1>1. /\ status = "generating" /\ s \in made /\ <<s, w>> \notin DOMAIN enums
      /\ s \in DOMAIN unions /\ TypeOK
  BY MadeFacts DEF GetEnum, IInv
<1>2. /\ enums' = With(enums, <<s, w>>, new)
      /\ UNCHANGED <<loaded, procedures, table, structs, made, current>>
  BY DEF GetEnum, loaded
<1> HIDE DEF new
<1>3. DOMAIN enums' = DOMAIN enums \cup {<<s, w>>}
  BY <1>2 DEF With
<1>4. IsScope(scope) /\ UnionSlotsOf(s, w)
  BY <1>1 DEF TypeOK, IInv, UnionSlots
<1>5. "alternatives" \in Names /\ Alternatives \in Symbols
  BY DEF Names, Alternatives, Symbols
<1>6. \A q \in DOMAIN structs : q \in DOMAIN structs' /\ structs'[q] = structs[q]
  BY <1>2
<1>7. /\ table' \in [Services -> Seq(Slot)] /\ \A t \in Services : IsScope(table'[t])
      /\ DOMAIN structs' \subseteq Counted
      /\ made' \subseteq DOMAIN unions /\ DOMAIN unions \subseteq Services
      /\ current' = <<>>
      /\ \A t \in DOMAIN unions, v \in Unions : IsScope(unions[t][v].scope)
  BY <1>1, <1>2 DEF TypeOK, Slot, GetEnum
<1>8. DOMAIN enums' \subseteq made' \X Unions
  <2>1. DOMAIN enums \subseteq made \X Unions
    BY <1>1 DEF TypeOK
  <2>2. <<s, w>> \in made \X Unions /\ made' = made
    BY <1>1, <1>2
  <2> QED BY <1>3, <2>1, <2>2
<1>9. CASE Redefines(scope, "alternatives")
  <2>1. status' = "no_alternatives" /\ unions' = unions
    BY <1>9 DEF GetEnum
  <2>2. PICK i \in DOMAIN scope : scope[i].name = "alternatives" /\ scope[i].def # forward_decl
    BY <1>9 DEF Redefines, name_lookup, is_defined
  <2>3. PICK k \in DOMAIN members : scope[i] = [name |-> members[k].name, def |-> Member(k)]
    BY <1>1, <1>4, <2>2 DEF UnionSlotsOf
  <2>4. k \in 1 .. Len(Members(s)) /\ members[k].name = "alternatives"
    BY <1>1, <2>2, <2>3, MadeFacts
  <2>5. Source(s, k) \in all_procedures(s) /\ ProcName(Source(s, k)) = "alternatives"
    BY <1>1, <2>4, MadeFacts
  <2>6. NamedAlternatives(s)'
    <3>1. NamedAlternatives(s)
      BY <2>5 DEF NamedAlternatives
    <3> QED BY <1>2, <3>1, LoadedSame
  <2>7. Stopped'
    <3>1. <<s, w>> \in DOMAIN enums' /\ <<s, w>>[1] = s
      BY <1>3
    <3> QED BY <2>1, <2>6, <3>1 DEF Stopped
  <2>8. TypeOK'
    <3>1. \A t \in DOMAIN unions', v \in Unions : IsScope(unions'[t][v].scope)
      BY <1>7, <2>1
    <3>2. made' \subseteq DOMAIN unions' /\ DOMAIN unions' \subseteq Services
      BY <1>7, <2>1
    <3> QED BY <1>1, <1>2, <1>7, <1>8, <2>1, <3>1, <3>2, TypeSame
  <2>9. UnionTypes' /\ Untouched'
    BY <1>1, <1>2, <2>1 DEF IInv, UnionTypes, Untouched
  <2>10. UnionSlots'
    <3> SUFFICES ASSUME NEW t \in DOMAIN unions, NEW v \in Unions PROVE UnionSlotsOf(t, v)'
      BY <2>1 DEF UnionSlots
    <3>1. UnionSlotsOf(t, v)
      BY DEF IInv, UnionSlots
    <3> QED BY <1>3, <2>1, <3>1 DEF UnionSlotsOf
  <2>11. (UnionMembers /\ Ordered)'
    BY <1>2, <1>6, <2>1, ServiceKept DEF IInv, UnionMembers, Ordered
  <2>12. Alike'
    <3>1. \A t, n : Members(t)' = Members(t) /\ Source(t, n)' = Source(t, n) /\ InList(t)' = InList(t)
      BY <1>2, <1>6, <2>1, ServiceKept, LoadedSame
    <3> QED BY <2>1, <3>1 DEF IInv, Alike
  <2>13. Complete'
    BY <1>2, <1>6, <2>1, ServiceKept DEF IInv, Complete
  <2> QED BY <1>2, <2>7, <2>8, <2>9, <2>10, <2>11, <2>12, <2>13, TablesSame DEF IInv
<1>10. CASE ~Redefines(scope, "alternatives")
  <2>1. status' = status /\ unions' = [unions EXCEPT ![s][w].scope = d]
    BY <1>10 DEF GetEnum
  <2>2. PICK n \in Nat \ {0} : DefinedAt(scope, d, "alternatives", Alternatives, n)
    BY <1>4, <1>5, <1>10, DefineFacts
  <2>3. IsScope(d)
    BY <1>4, <1>5, <1>10, DefineFacts
  <2> HIDE DEF d
  <2>4. /\ DOMAIN unions' = DOMAIN unions
        /\ \A t \in DOMAIN unions : t # s => unions'[t] = unions[t]
        /\ unions'[s] = [unions[s] EXCEPT ![w].scope = d]
    BY <1>1, <2>1
  <2>5. /\ unions[s] \in [Unions -> [scope : Seq(Slot), members : Seq(MemberType)]]
        /\ d \in Seq(Slot)
    BY <1>1, <2>3, ScopeSlots DEF IInv, UnionTypes
  <2>6. /\ unions'[s] \in [Unions -> [scope : Seq(Slot), members : Seq(MemberType)]]
        /\ \A v \in Unions : v # w => unions'[s][v] = unions[s][v]
        /\ unions'[s][w] = [unions[s][w] EXCEPT !.scope = d]
    BY <2>4, <2>5
  <2>7. unions'[s][w].scope = d /\ unions'[s][w].members = members
    BY <2>5, <2>6
  <2>8. \A t \in DOMAIN unions, v \in Unions : unions'[t][v].members = unions[t][v].members
    <3> TAKE t \in DOMAIN unions, v \in Unions
    <3>1. CASE t = s /\ v = w
      BY <2>7, <3>1
    <3>2. CASE t = s /\ v # w
      BY <2>6, <3>2
    <3>3. CASE t # s
      BY <2>4, <3>3
    <3> QED BY <3>1, <3>2, <3>3
  <2>9. TypeOK'
    <3>1. made' \subseteq DOMAIN unions' /\ DOMAIN unions' \subseteq Services
      BY <1>7, <2>4
    <3>2. \A t \in DOMAIN unions', v \in Unions : IsScope(unions'[t][v].scope)
      <4> TAKE t \in DOMAIN unions', v \in Unions
      <4>1. IsScope(unions[t][v].scope)
        BY <1>7, <2>4
      <4>2. CASE t = s /\ v = w
        BY <2>3, <2>7, <4>2
      <4>3. CASE t = s /\ v # w
        BY <2>6, <4>1, <4>3
      <4>4. CASE t # s
        BY <2>4, <4>1, <4>4
      <4> QED BY <4>2, <4>3, <4>4
    <3> QED BY <1>1, <1>2, <1>7, <1>8, <2>1, <3>1, <3>2, TypeSame
  <2>10. UnionTypes' /\ Untouched'
    BY <1>1, <1>2, <2>1, <2>4, <2>6 DEF IInv, UnionTypes, Untouched
  <2>11. UnionSlots'
    <3> SUFFICES ASSUME NEW t \in DOMAIN unions, NEW v \in Unions PROVE UnionSlotsOf(t, v)'
      BY <2>4 DEF UnionSlots
    <3>1. UnionSlotsOf(t, v)
      BY DEF IInv, UnionSlots
    <3>2. CASE <<t, v>> # <<s, w>>
      <4>1. unions'[t][v] = unions[t][v]
        BY <2>4, <2>6, <3>2
      <4>2. <<t, v>> \in DOMAIN enums' <=> <<t, v>> \in DOMAIN enums
        BY <1>3, <3>2
      <4>3. status' # "no_alternatives" /\ status # "no_alternatives"
        BY <1>1, <2>1
      <4> QED BY <3>1, <4>1, <4>2, <4>3 DEF UnionSlotsOf
    <3>3. CASE <<t, v>> = <<s, w>>
      <4>1. <<s, w>> \in DOMAIN enums'
        BY <1>3
      <4>2. ASSUME NEW i \in DOMAIN d
            PROVE  \/ d[i].name = "alternatives" /\ d[i].def = Alternatives
                   \/ \E k \in DOMAIN members : d[i] = [name |-> members[k].name, def |-> Member(k)]
        <5>1. CASE i = n
          BY <2>2, <5>1 DEF DefinedAt
        <5>2. CASE i # n
          <6>1. i \in DOMAIN scope /\ d[i] = scope[i] /\ name_lookup(d, "alternatives") = {n}
            BY <2>2, <5>2 DEF DefinedAt
          <6>2. d[i].name # "alternatives"
            BY <5>2, <6>1 DEF name_lookup
          <6> QED BY <1>4, <6>1, <6>2 DEF UnionSlotsOf
        <5> QED BY <5>1, <5>2
      <4>3. ASSUME NEW k \in DOMAIN members
            PROVE  \E i \in DOMAIN d : d[i] = [name |-> members[k].name, def |-> Member(k)]
        <5>1. PICK i \in DOMAIN scope : scope[i] = [name |-> members[k].name, def |-> Member(k)]
          BY <1>4 DEF UnionSlotsOf
        <5>2. Member(k) # forward_decl
          BY SymbolFacts DEF Unions
        <5>3. d[i] = scope[i] /\ i \in DOMAIN d
          BY <2>2, <5>1, <5>2, DefinedExtends DEF Extends, is_defined
        <5> QED BY <5>1, <5>3
      <4>4. \E i \in DOMAIN d : d[i] = [name |-> "alternatives", def |-> Alternatives]
        BY <2>2 DEF DefinedAt
      <4>5. t = s /\ v = w
        BY <3>3
      <4> QED BY <2>7, <4>1, <4>2, <4>3, <4>4, <4>5 DEF UnionSlotsOf
    <3> QED BY <3>2, <3>3
  <2>12. (UnionMembers /\ Ordered)'
    BY <1>2, <1>6, <2>4, <2>8, ServiceKept DEF IInv, UnionMembers, Ordered
  <2>13. Alike'
    <3>1. \A t \in DOMAIN unions : \A i :
             Members(t)' = Members(t) /\ Source(t, i)' = Source(t, i) /\ InList(t)' = InList(t)
      BY <1>2, <1>6, <2>8, ServiceKept, LoadedSame
    <3> QED BY <2>4, <3>1 DEF IInv, Alike
  <2>14. Complete'
    <3>1. made \subseteq DOMAIN unions
      BY <1>1 DEF TypeOK
    <3> QED BY <1>2, <1>6, <2>8, <3>1, ServiceKept DEF IInv, Complete
  <2>15. Stopped'
    BY <1>1, <2>1 DEF Stopped
  <2> QED BY <1>2, <2>9, <2>10, <2>11, <2>12, <2>13, <2>14, <2>15, TablesSame DEF IInv
<1> QED BY <1>9, <1>10

\* The next procedure comes after those that have a member and is not one of them, and
\* all that come before it are.
LEMMA NextFacts ==
    ASSUME IInv, NEW c \in DOMAIN unions, NEW r \in all_procedures(c), IsNext(c, r)
    PROVE  /\ DOMAIN Members(c) = 1 .. Len(Members(c)) /\ Len(Members(c)) \in Nat
           /\ \A i \in DOMAIN Members(c) :
                 /\ Source(c, i) \in all_procedures(c) /\ Source(c, i) # r
                 /\ Before(c, Source(c, i), r)
           /\ \A q \in all_procedures(c) :
                 Before(c, q, r) => \E i \in DOMAIN Members(c) : Source(c, i) = q
           /\ \A q \in all_procedures(c) :
                 q = r \/ Before(c, r, q) \/ \E i \in DOMAIN Members(c) : Source(c, i) = q
<1>1. c \in Services /\ TypeOK /\ "call_union" \in Unions
  BY DEF IInv, TypeOK, Unions
<1>2. Members(c) \in Seq(MemberType)
  BY <1>1 DEF IInv, UnionTypes, Members
<1>3. DOMAIN Members(c) = 1 .. Len(Members(c)) /\ Len(Members(c)) \in Nat
  BY <1>2
<1>4. Left(c) = all_procedures(c) \ {Source(c, i) : i \in DOMAIN Members(c)}
  BY DEF Left, Members, Source
<1>5. \A i \in DOMAIN Members(c) : Source(c, i) \in all_procedures(c) /\ Source(c, i) # r
  <2>1. \A i \in DOMAIN Members(c) : Source(c, i) \in all_procedures(c)
    BY <1>1 DEF IInv, UnionMembers, MembersOf, Members
  <2>2. r \in Left(c)
    BY DEF IsNext
  <2> QED BY <1>4, <2>1, <2>2
<1>6. OrderedOf(c)
  BY DEF IInv, Ordered
<1>7. \A i \in DOMAIN Members(c) : Before(c, Source(c, i), r)
  <2> TAKE i \in DOMAIN Members(c)
  <2>1. ~Before(c, r, Source(c, i))
    <3> SUFFICES ASSUME Before(c, r, Source(c, i)) PROVE FALSE
      OBVIOUS
    <3>1. PICK j \in 1 .. i - 1 : Source(c, j) = r
      BY <1>6 DEF OrderedOf
    <3>2. j \in DOMAIN Members(c)
      BY <1>3, <3>1
    <3> QED BY <1>5, <3>1, <3>2
  <2> QED BY <1>1, <1>5, <2>1, OrderFacts
<1>8. \A q \in all_procedures(c) :
         q = r \/ Before(c, r, q) \/ \E i \in DOMAIN Members(c) : Source(c, i) = q
  BY <1>4 DEF IsNext
<1>9. \A q \in all_procedures(c) :
         Before(c, q, r) => \E i \in DOMAIN Members(c) : Source(c, i) = q
  BY <1>1, <1>8, OrderFacts
<1> QED BY <1>3, <1>5, <1>7, <1>8, <1>9

LEMMA AddMembersStep ==
    ASSUME IInv, Generating, NEW r \in all_procedures(current[1]), AddMembers(r)
    PROVE  IInv' /\ Stays
<1>0. PICK c : c = current[1]
  OBVIOUS
<1> DEFINE name == ProcName(r)
           scope(w) == unions[c][w].scope
           members(w) == unions[c][w].members
<1>1. /\ status = "generating" /\ current = <<c>> /\ c \in Services /\ c \in DOMAIN unions
      /\ c \notin made /\ TypeOK /\ r \in all_procedures(c) /\ IsNext(c, r) /\ r \in DOMAIN structs
  BY <1>0, CurrentFacts DEF Generating, AddMembers, IInv
<1>2. /\ r = <<r[1], r[2]>> /\ r[1] \in Services /\ r[2] \in Nat /\ name \in ProcNames
      /\ name \in Names
  BY <1>1, ProcFacts DEF Names
<1>3. PICK N \in Nat : N = Len(Members(c))
  BY <1>1, NextFacts
<1>4. /\ DOMAIN Members(c) = 1 .. N /\ N \in Nat
      /\ \A i \in 1 .. N : Source(c, i) \in all_procedures(c) /\ Source(c, i) # r
  BY <1>1, <1>3, NextFacts
<1>5. "call_union" \in Unions
  BY DEF Unions
<1>6. ASSUME NEW w \in Unions
      PROVE  /\ members(w) \in Seq(MemberType) /\ Len(members(w)) = N /\ DOMAIN members(w) = 1 .. N
             /\ \A i \in 1 .. N : /\ members(w)[i] = MemberFor(Source(c, i), w)
                                  /\ members(w)[i].name = ProcName(Source(c, i))
                                  /\ Source(c, i) \in DOMAIN structs
             /\ IsScope(scope(w)) /\ UnionSlotsOf(c, w) /\ <<c, w>> \notin DOMAIN enums
  <2>1. members(w) \in Seq(MemberType) /\ MembersOf(c, w)
    BY <1>1 DEF IInv, UnionTypes, UnionMembers
  <2>2. Len(members(w)) = N
    BY <1>3, <2>1 DEF MembersOf
  <2>3. DOMAIN members(w) = 1 .. N
    BY <2>1, <2>2
  <2>4. \A i \in 1 .. N : members(w)[i] = MemberFor(Source(c, i), w) /\ Source(c, i) \in DOMAIN structs
    BY <2>1, <2>3 DEF MembersOf
  <2>5. \A q : MemberFor(q, w).name = ProcName(q)
    BY DEF MemberFor
  <2>6. UnionSlotsOf(c, w) /\ IsScope(scope(w)) /\ <<c, w>> \notin DOMAIN enums
    BY <1>1 DEF IInv, UnionSlots, TypeOK
  <2> QED BY <2>1, <2>2, <2>3, <2>4, <2>5, <2>6
<1>7. CASE \E w \in Unions : Redefines(scope(w), name)
  <2>1. Refuse("clash")
    BY <1>0, <1>7 DEF AddMembers
  <2>2. PICK w \in Unions : Redefines(scope(w), name)
    BY <1>7
  <2>3. PICK i \in DOMAIN scope(w) : scope(w)[i].name = name /\ scope(w)[i].def # forward_decl
    BY <2>2 DEF Redefines, name_lookup, is_defined
  <2>4. PICK k \in DOMAIN members(w) : scope(w)[i] = [name |-> members(w)[k].name, def |-> Member(k)]
    BY <1>6, <2>3 DEF UnionSlotsOf
  <2>5. k \in 1 .. N /\ ProcName(Source(c, k)) = name
    <3>1. k \in 1 .. N
      BY <1>6
    <3>2. members(w)[k].name = ProcName(Source(c, k))
      BY <1>6, <3>1
    <3>3. scope(w)[i].name = members(w)[k].name
      BY <2>4
    <3> QED BY <2>3, <3>1, <3>2, <3>3
  <2>6. Clash(c)
    BY <1>1, <1>4, <2>5 DEF Clash
  <2> QED BY <1>0, <1>1, <2>1, <2>6, RefuseStep
<1>8. CASE ~ \E w \in Unions : Redefines(scope(w), name)
  <2>1. /\ unions' = [unions EXCEPT ![c] =
                         [w \in Unions |->
                            add_member(@[w], name, [scope |-> r[1], id |-> structs[r][w]], r)]]
        /\ UNCHANGED <<loaded, procedures, table, structs, enums, made, current, status>>
    BY <1>0, <1>8 DEF AddMembers, loaded
  <2>2. /\ DOMAIN unions' = DOMAIN unions
        /\ \A t \in DOMAIN unions : t # c => unions'[t] = unions[t]
    BY <1>1, <2>1
  <2> DEFINE d == [w \in Unions |-> define(scope(w), name, Member(N + 1))]
             grown == [w \in Unions |-> Append(members(w), MemberFor(r, w))]
  <2>3. unions'[c] = [w \in Unions |-> [scope |-> d[w], members |-> grown[w]]]
    <3>1. unions'[c] = [w \in Unions |->
             add_member(unions[c][w], name, [scope |-> r[1], id |-> structs[r][w]], r)]
      BY <1>1, <2>1
    <3>2. \A w \in Unions : Len(unions[c][w].members) + 1 = N + 1
      BY <1>6
    <3>3. \A w \in Unions :
             add_member(unions[c][w], name, [scope |-> r[1], id |-> structs[r][w]], r) =
                [scope |-> d[w], members |-> grown[w]]
      BY <3>2 DEF add_member, MemberFor
    <3> QED BY <3>1, <3>3
  <2>4. \A w \in Unions : /\ d[w] = define(scope(w), name, Member(N + 1))
                           /\ grown[w] = Append(members(w), MemberFor(r, w))
    OBVIOUS
  <2> HIDE DEF d, grown
  <2>5. \A w \in Unions : unions'[c][w].scope = d[w] /\ unions'[c][w].members = grown[w]
    BY <2>3
  <2>6. \A q \in DOMAIN structs : q \in DOMAIN structs' /\ structs'[q] = structs[q]
    BY <2>1
  <2>7. Member(N + 1) \in Symbols /\ Member(N + 1) # forward_decl
    <3>1. N + 1 \in Nat
      BY <1>4
    <3> QED BY <3>1 DEF Member, Symbols, forward_decl
  <2>8. ASSUME NEW w \in Unions
        PROVE  /\ unions'[c][w].scope = d[w] /\ IsScope(d[w])
               /\ \E n \in Nat \ {0} : DefinedAt(scope(w), d[w], name, Member(N + 1), n)
    <3>1. PICK sc : sc = scope(w)
      OBVIOUS
    <3>2. PICK symbol : symbol = Member(N + 1)
      OBVIOUS
    <3>3. IsScope(sc) /\ ~Redefines(sc, name) /\ symbol \in Symbols
      BY <1>6, <1>8, <2>7, <3>1, <3>2
    <3>4. d[w] = define(sc, name, symbol)
      BY <2>4, <3>1, <3>2
    <3>5. IsScope(define(sc, name, symbol)) /\ \E n \in Nat \ {0} : DefinedAt(sc, define(sc, name, symbol), name, symbol, n)
      BY <1>2, <3>3, DefineFacts
    <3>6. unions'[c][w].scope = d[w]
      BY <2>5
    <3> QED BY <3>1, <3>2, <3>4, <3>5, <3>6
  <2>9. ASSUME NEW w \in Unions
        PROVE  /\ unions'[c][w].members \in Seq(MemberType)
               /\ Len(unions'[c][w].members) = N + 1 /\ DOMAIN unions'[c][w].members = 1 .. N + 1
               /\ unions'[c][w].members[N + 1] = MemberFor(r, w)
               /\ \A i \in 1 .. N : unions'[c][w].members[i] = members(w)[i]
    <3>1. MemberFor(r, w) \in MemberType
      <4>1. structs[r][w] \in DOMAIN table[r[1]]
        BY <1>1 DEF IInv, Structs
      <4>2. structs[r][w] \in Nat
        BY <1>2, <4>1, SlotFacts, ScopeSlots
      <4>3. r \in Services \X Nat
        BY <1>2
      <4> QED BY <1>2, <4>2, <4>3 DEF MemberFor, MemberType
    <3>2. PICK new : new = unions'[c][w].members
      OBVIOUS
    <3>3. PICK old : old = members(w)
      OBVIOUS
    <3>4. new = Append(old, MemberFor(r, w))
      BY <2>4, <2>5, <3>2, <3>3
    <3>5. old \in Seq(MemberType) /\ N = Len(old)
      BY <1>6, <3>3
    <3>6. /\ new \in Seq(MemberType) /\ Len(new) = N + 1 /\ DOMAIN new = 1 .. N + 1
          /\ new[N + 1] = MemberFor(r, w) /\ \A i \in 1 .. N : new[i] = old[i]
      BY <3>1, <3>4, <3>5, AppendFacts
    <3> QED BY <3>2, <3>3, <3>6
  <2>10. /\ DOMAIN Members(c)' = 1 .. N + 1 /\ Len(Members(c)') = N + 1
        /\ Source(c, N + 1)' = r
        /\ \A i \in 1 .. N : Source(c, i)' = Source(c, i)
    <3>1. \A w : MemberFor(r, w).src_info = r
      BY DEF MemberFor
    <3>2. DOMAIN Members(c)' = 1 .. N + 1 /\ Len(Members(c)') = N + 1
      BY <1>5, <2>9 DEF Members
    <3>3. Source(c, N + 1)' = r
      <4>1. unions'[c]["call_union"].members[N + 1].src_info = r
        BY <1>5, <2>9, <3>1
      <4>2. inheritance_list' = inheritance_list
        BY <2>1 DEF loaded
      <4> QED BY <4>1 DEF Members, Source
    <3>4. \A i \in 1 .. N : Source(c, i)' = Source(c, i)
      BY <1>5, <2>9 DEF Members, Source
    <3> QED BY <3>2, <3>3, <3>4
  <2>11. \A t \in DOMAIN unions : t # c =>
           /\ \A i : Members(t)' = Members(t) /\ Source(t, i)' = Source(t, i)
           /\ Left(t)' = Left(t)
           /\ OrderedOf(t)' /\ \A w \in Unions : MembersOf(t, w)'
    BY <2>1, <2>2, <2>6, ServiceKept DEF IInv, Ordered, UnionMembers
  <2>12. TypeOK'
    <3>1. \A t \in DOMAIN unions', w \in Unions : IsScope(unions'[t][w].scope)
      <4> TAKE t \in DOMAIN unions', w \in Unions
      <4>1. CASE t = c
        BY <2>8, <4>1
      <4>2. CASE t # c
        BY <1>1, <2>2, <4>2 DEF TypeOK
      <4> QED BY <4>1, <4>2
    <3>2. /\ table' \in [Services -> Seq(Slot)] /\ \A t \in Services : IsScope(table'[t])
          /\ DOMAIN structs' \subseteq Counted
      BY <1>1, <2>1 DEF TypeOK, Slot
    <3>3. /\ made' \subseteq DOMAIN unions' /\ DOMAIN unions' \subseteq Services
          /\ DOMAIN enums' \subseteq made' \X Unions
      BY <1>1, <2>1, <2>2 DEF TypeOK
    <3>4. \E t \in DOMAIN unions' \ made' : current' = <<t>>
      BY <1>1, <2>1, <2>2
    <3> QED BY <1>1, <2>1, <3>1, <3>2, <3>3, <3>4, TypeSame
  <2>13. UnionTypes'
    <3>1. ASSUME NEW w \in Unions
          PROVE  unions'[c][w] \in [scope : Seq(Slot), members : Seq(MemberType)]
      <4>1. d[w] \in Seq(Slot)
        BY <2>8, ScopeSlots
      <4>2. grown[w] \in Seq(MemberType)
        BY <2>5, <2>9
      <4> QED BY <2>3, <4>1, <4>2
    <3>3. unions'[c] \in [Unions -> [scope : Seq(Slot), members : Seq(MemberType)]]
      BY <2>3, <3>1
    <3> QED BY <2>2, <3>3 DEF IInv, UnionTypes
  <2>14. ASSUME NEW w \in Unions PROVE UnionSlotsOf(c, w)'
    <3> DEFINE e == d[w]
               new == unions'[c][w].members
    <3>1. PICK n \in Nat \ {0} : DefinedAt(scope(w), e, name, Member(N + 1), n)
      BY <2>8
    <3> HIDE DEF e
    <3>2. new[N + 1].name = name /\ N + 1 \in 1 .. N + 1 /\ \A i \in 1 .. N : i \in 1 .. N + 1
      <4>1. MemberFor(r, w).name = name
        BY DEF MemberFor
      <4> QED BY <1>4, <2>9, <4>1
    <3>3. DOMAIN new = 1 .. N + 1 /\ \A i \in 1 .. N : new[i] = members(w)[i]
      BY <2>9
    <3>4. unions'[c][w].scope = e
      BY <2>8 DEF e
    <3> HIDE DEF new
    <3>5. e[n] = [name |-> new[N + 1].name, def |-> Member(N + 1)] /\ n \in DOMAIN e
      BY <3>1, <3>2 DEF DefinedAt
    <3>6. ASSUME NEW i \in DOMAIN e
          PROVE  \/ e[i].name = "alternatives" /\ e[i].def = forward_decl
                 \/ \E k \in 1 .. N + 1 : e[i] = [name |-> new[k].name, def |-> Member(k)]
      <4>1. CASE i = n
        BY <3>2, <3>5, <4>1
      <4>2. CASE i # n
        <5>1. i \in DOMAIN scope(w) /\ e[i] = scope(w)[i]
          BY <3>1, <4>2 DEF DefinedAt
        <5>2. \/ scope(w)[i].name = "alternatives" /\ scope(w)[i].def = forward_decl
              \/ \E k \in 1 .. N : scope(w)[i] = [name |-> members(w)[k].name, def |-> Member(k)]
          BY <1>6, <5>1 DEF UnionSlotsOf
        <5> QED BY <3>2, <3>3, <5>1, <5>2
      <4> QED BY <4>1, <4>2
    <3>7. ASSUME NEW k \in 1 .. N + 1
          PROVE  \E i \in DOMAIN e : e[i] = [name |-> new[k].name, def |-> Member(k)]
      <4>1. CASE k = N + 1
        BY <3>5, <4>1
      <4>2. CASE k # N + 1
        <5>1. k \in 1 .. N /\ new[k] = members(w)[k]
          BY <1>4, <3>3, <4>2
        <5>2. PICK i \in DOMAIN scope(w) : scope(w)[i] = [name |-> members(w)[k].name, def |-> Member(k)]
          BY <1>6, <5>1 DEF UnionSlotsOf
        <5>3. Member(k) # forward_decl
          BY DEF Member, forward_decl
        <5>4. Extends(scope(w), e)
          BY <3>1, DefinedExtends
        <5> QED BY <5>1, <5>2, <5>3, <5>4 DEF Extends, is_defined
      <4> QED BY <4>1, <4>2
    <3>8. <<c, w>> \notin DOMAIN enums'
      BY <1>6, <2>1
    <3> QED BY <3>3, <3>4, <3>6, <3>7, <3>8 DEF UnionSlotsOf, new
  <2>15. UnionSlots'
    <3> SUFFICES ASSUME NEW t \in DOMAIN unions', NEW w \in Unions PROVE UnionSlotsOf(t, w)'
      BY DEF UnionSlots
    <3>1. CASE t # c
      <4>1. UnionSlotsOf(t, w) /\ unions'[t][w] = unions[t][w]
        BY <2>2, <3>1 DEF IInv, UnionSlots
      <4>2. enums' = enums /\ status' = status
        BY <2>1
      <4> QED BY <4>1, <4>2 DEF UnionSlotsOf
    <3> QED BY <2>14, <3>1
  <2>16. UnionMembers'
    <3>1. ASSUME NEW w \in Unions PROVE MembersOf(c, w)'
      <4>1. \A q \in all_procedures(c) : q \in all_procedures(c)'
        BY <2>1, LoadedSame
      <4>2. \A q : MemberFor(q, w)' = MemberFor(q, w)
        BY <2>1, LoadedSame DEF MemberFor
      <4>3. ASSUME NEW i \in 1 .. N + 1
            PROVE  /\ Source(c, i)' \in all_procedures(c)' /\ Source(c, i)' \in DOMAIN structs'
                   /\ unions'[c][w].members[i] = MemberFor(Source(c, i)', w)
        <5>1. CASE i = N + 1
          <6>1. Source(c, i)' = r
            BY <2>10, <5>1
          <6>2. unions'[c][w].members[i] = MemberFor(r, w)
            BY <2>9, <5>1
          <6> QED BY <1>1, <2>1, <4>1, <6>1, <6>2
        <5>2. CASE i # N + 1
          <6>1. i \in 1 .. N
            BY <1>4, <5>2
          <6>2. Source(c, i)' = Source(c, i)
            BY <2>10, <6>1
          <6>3. Source(c, i) \in all_procedures(c)' /\ Source(c, i) \in DOMAIN structs'
            BY <1>4, <1>6, <2>1, <4>1, <6>1
          <6>4. unions'[c][w].members[i] = MemberFor(Source(c, i), w)
            BY <1>6, <2>9, <6>1
          <6> QED BY <6>2, <6>3, <6>4
        <5> QED BY <5>1, <5>2
      <4> QED BY <2>9, <2>10, <4>2, <4>3 DEF MembersOf
    <3> QED BY <2>2, <2>11, <3>1 DEF UnionMembers
  <2>17. \A t : InList(t)' = InList(t) /\ all_procedures(t)' = all_procedures(t)
    BY <2>1, LoadedSame
  <2>18. Ordered'
    <3>1. ASSUME NEW j \in 1 .. N + 1
          PROVE  /\ \A i \in 1 .. N + 1 : i < j => Before(c, Source(c, i)', Source(c, j)')
                 /\ \A q \in all_procedures(c) :
                       Before(c, q, Source(c, j)') => \E i \in 1 .. j - 1 : Source(c, i)' = q
      <4>1. CASE j = N + 1
        <5>1. \A i \in 1 .. N + 1 : i < j => i \in 1 .. N
          BY <1>4, <4>1
        <5>2. 1 .. j - 1 = 1 .. N
          BY <1>4, <4>1
        <5>3. Source(c, j)' = r
          BY <2>10, <4>1
        <5>4. \A i \in 1 .. N : Source(c, i)' = Source(c, i) /\ Before(c, Source(c, i), r)
          BY <1>1, <1>4, <2>10, NextFacts
        <5>5. \A q \in all_procedures(c) : Before(c, q, r) => \E i \in 1 .. N : Source(c, i) = q
          BY <1>1, <1>4, NextFacts
        <5> QED BY <5>1, <5>2, <5>3, <5>4, <5>5
      <4>2. CASE j # N + 1
        <5>1. j \in 1 .. N
          BY <1>4, <4>2
        <5>2. \A i \in 1 .. N + 1 : i < j => i \in 1 .. N
          BY <1>4, <5>1
        <5>3. \A i \in 1 .. j - 1 : i \in 1 .. N
          BY <1>4, <5>1
        <5>4. OrderedOf(c)
          BY <1>1 DEF IInv, Ordered
        <5>5. Source(c, j)' = Source(c, j) /\ j \in DOMAIN Members(c)
          BY <1>4, <2>10, <5>1
        <5>6. ASSUME NEW i \in 1 .. N + 1, i < j PROVE Before(c, Source(c, i)', Source(c, j)')
          <6>1. i \in DOMAIN Members(c) /\ Source(c, i)' = Source(c, i)
            BY <1>4, <2>10, <5>2, <5>6
          <6>2. Before(c, Source(c, i), Source(c, j))
            BY <5>4, <5>5, <5>6, <6>1 DEF OrderedOf
          <6> QED BY <5>5, <6>1, <6>2
        <5>7. ASSUME NEW q \in all_procedures(c), Before(c, q, Source(c, j)')
              PROVE  \E i \in 1 .. j - 1 : Source(c, i)' = q
          <6>1. Before(c, q, Source(c, j))
            BY <5>5, <5>7
          <6>2. PICK i \in 1 .. j - 1 : Source(c, i) = q
            BY <5>4, <5>5, <6>1 DEF OrderedOf
          <6>3. Source(c, i)' = Source(c, i)
            BY <2>10, <5>3
          <6> QED BY <6>2, <6>3
        <5> QED BY <5>6, <5>7
      <4> QED BY <4>1, <4>2
    <3>2. \A q, p : Before(c, q, p)' = Before(c, q, p)
      BY <2>1, LoadedSame
    <3>3. OrderedOf(c)'
      <4>1. inheritance_list' = inheritance_list
        BY <2>1 DEF loaded
      <4>2. \A i, j \in DOMAIN Members(c)' : i < j => Before(c, Source(c, i), Source(c, j))'
        BY <2>10, <3>1, <4>1 DEF Before, Position
      <4>3. \A j \in DOMAIN Members(c)' : \A q \in all_procedures(c)' :
               Before(c, q, Source(c, j))' => \E i \in 1 .. j - 1 : Source(c, i)' = q
        <5> SUFFICES ASSUME NEW j \in 1 .. N + 1, NEW q \in all_procedures(c),
                            Before(c, q, Source(c, j))'
                     PROVE  \E i \in 1 .. j - 1 : Source(c, i)' = q
          BY <2>10, <2>17
        <5>1. PICK y : y = Source(c, j)'
          OBVIOUS
        <5>2. Before(c, q, y)
          BY <4>1, <5>1 DEF Before, Position
        <5> QED BY <3>1, <5>1, <5>2
      <4> QED BY <4>2, <4>3 DEF OrderedOf
    <3> QED BY <2>2, <2>11, <3>3 DEF Ordered
  \* What has its turn is what has this place in a base that is further on, and in what
  \* extends the service.
  <2>19. ASSUME NEW t \in DOMAIN unions, t \in InList(c), t # c, N + 1 \in DOMAIN Members(t)
         PROVE  Source(t, N + 1) = r
    <3> DEFINE y == Source(t, N + 1)
    <3>1. /\ t \in Services /\ DOMAIN Members(t) = 1 .. Len(Members(t)) /\ Len(Members(t)) \in Nat
          /\ OrderedOf(t) /\ y \in all_procedures(t)
      <4>1. t \in Services /\ Members(t) \in Seq(MemberType) /\ MembersOf(t, "call_union")
        BY <1>1, <1>5, <2>19 DEF IInv, TypeOK, UnionTypes, UnionMembers, Members
      <4>2. y \in all_procedures(t)
        BY <2>19, <4>1 DEF MembersOf, Members
      <4> QED BY <2>19, <4>1, <4>2 DEF IInv, Ordered
    <3>2. \A i \in 1 .. N : i \in DOMAIN Members(t) /\ i < N + 1 /\ Source(c, i) = Source(t, i)
      <4>1. \A i \in 1 .. N : i \in DOMAIN Members(t) /\ i < N + 1
        BY <1>4, <2>19, <3>1
      <4> QED BY <1>1, <1>4, <2>19, <4>1 DEF IInv, Alike
    <3>3. y \in all_procedures(c)
      BY <1>1, <2>19, <3>1, ProcFacts
    <3>4. \A i \in 1 .. N : Source(t, i) # y
      <4> TAKE i \in 1 .. N
      <4>1. Before(t, Source(t, i), y)
        BY <2>19, <3>1, <3>2 DEF OrderedOf
      <4>2. Source(t, i) \in all_procedures(t)
        BY <1>5, <2>19, <3>2 DEF IInv, UnionMembers, MembersOf, Members
      <4> QED BY <1>1, <3>1, <4>1, <4>2, OrderFacts
    <3>5. ~Before(c, r, y)
      <4> SUFFICES ASSUME Before(c, r, y) PROVE FALSE
        OBVIOUS
      <4>1. r \in all_procedures(t)
        BY <1>1, <2>19, <3>1, OrderFacts
      <4>2. Before(t, r, y)
        BY <1>1, <2>19, <3>1, <4>1, OrderFacts
      <4>3. PICK i \in 1 .. N : Source(t, i) = r
        <5>1. \E i \in 1 .. N + 1 - 1 : Source(t, i) = r
          BY <2>19, <3>1, <4>1, <4>2 DEF OrderedOf
        <5> QED BY <5>1
      <4>4. i \in 1 .. N
        BY <1>4, <4>3
      <4> QED BY <1>4, <3>2, <4>3, <4>4
    <3>6. y = r \/ \E i \in 1 .. N : Source(c, i) = y
      BY <1>1, <1>4, <3>3, <3>5, NextFacts
    <3> QED BY <3>2, <3>4, <3>6
  <2>20. ASSUME NEW s \in DOMAIN unions, c \in InList(s), s # c, N + 1 \in DOMAIN Members(s)
         PROVE  Source(s, N + 1) = r
    <3> DEFINE y == Source(s, N + 1)
    <3>1. /\ s \in Services /\ DOMAIN Members(s) = 1 .. Len(Members(s)) /\ Len(Members(s)) \in Nat
          /\ OrderedOf(s) /\ y \in all_procedures(s)
      <4>1. s \in Services /\ Members(s) \in Seq(MemberType) /\ MembersOf(s, "call_union")
        BY <1>1, <1>5, <2>20 DEF IInv, TypeOK, UnionTypes, UnionMembers, Members
      <4>2. y \in all_procedures(s)
        BY <2>20, <4>1 DEF MembersOf, Members
      <4> QED BY <2>20, <4>1, <4>2 DEF IInv, Ordered
    <3>2. \A i \in 1 .. N : i \in DOMAIN Members(s) /\ i < N + 1 /\ Source(c, i) = Source(s, i)
      <4>1. \A i \in 1 .. N : i \in DOMAIN Members(s) /\ i < N + 1
        BY <1>4, <2>20, <3>1
      <4> QED BY <1>1, <1>4, <2>20, <4>1 DEF IInv, Alike
    <3>3. r \in all_procedures(s)
      BY <1>1, <2>20, <3>1, ProcFacts
    <3>4. \A i \in 1 .. N : Source(c, i) # y
      <4> TAKE i \in 1 .. N
      <4>1. Before(s, Source(s, i), y)
        BY <2>20, <3>1, <3>2 DEF OrderedOf
      <4>2. Source(s, i) \in all_procedures(s)
        BY <1>5, <2>20, <3>2 DEF IInv, UnionMembers, MembersOf, Members
      <4>3. Source(s, i) # y
        BY <1>1, <3>1, <4>1, <4>2, OrderFacts
      <4> QED BY <3>2, <4>3
    <3>5. ~Before(s, r, y)
      <4> SUFFICES ASSUME Before(s, r, y) PROVE FALSE
        OBVIOUS
      <4>3. PICK i \in 1 .. N : Source(s, i) = r
        <5>1. \E i \in 1 .. N + 1 - 1 : Source(s, i) = r
          BY <2>20, <3>1, <3>3 DEF OrderedOf
        <5> QED BY <5>1
      <4>4. i \in 1 .. N
        BY <1>4, <4>3
      <4> QED BY <1>4, <3>2, <4>3, <4>4
    <3>6. ~Before(s, y, r)
      <4> SUFFICES ASSUME Before(s, y, r) PROVE FALSE
        OBVIOUS
      <4>1. y \in all_procedures(c)
        BY <1>1, <2>20, <3>1, OrderFacts
      <4>2. Before(c, y, r)
        BY <1>1, <2>20, <3>1, <4>1, OrderFacts
      <4>3. PICK i \in 1 .. N : Source(c, i) = y
        BY <1>1, <1>4, <4>1, <4>2, NextFacts
      <4> QED BY <3>4, <4>3
    <3> QED BY <1>1, <3>1, <3>3, <3>5, <3>6, OrderFacts
  <2>21. Alike'
    <3> SUFFICES ASSUME NEW s \in DOMAIN unions, NEW t \in DOMAIN unions, t \in InList(s),
                        NEW n \in DOMAIN Members(s)' \cap DOMAIN Members(t)'
                 PROVE  Source(s, n)' = Source(t, n)'
      BY <2>2, <2>17 DEF Alike
    <3>1. CASE s = t
      BY <3>1
    <3>2. CASE s # c /\ t # c
      BY <2>11, <3>2 DEF IInv, Alike
    <3>3. CASE s = c /\ t # c
      <4>1. n \in DOMAIN Members(t) /\ Source(t, n)' = Source(t, n)
        BY <2>11, <3>3
      <4>2. n \in 1 .. N + 1
        BY <2>10, <3>3
      <4>3. CASE n = N + 1
        BY <2>10, <2>19, <3>3, <4>1, <4>3
      <4>4. CASE n # N + 1
        <5>1. n \in 1 .. N
          BY <1>4, <4>2, <4>4
        <5>2. Source(c, n) = Source(t, n)
          BY <1>4, <3>3, <4>1, <5>1 DEF IInv, Alike
        <5> QED BY <2>10, <3>3, <4>1, <5>1, <5>2
      <4> QED BY <4>3, <4>4
    <3>4. CASE s # c /\ t = c
      <4>1. n \in DOMAIN Members(s) /\ Source(s, n)' = Source(s, n)
        BY <2>11, <3>4
      <4>2. n \in 1 .. N + 1
        BY <2>10, <3>4
      <4>3. CASE n = N + 1
        BY <2>10, <2>20, <3>4, <4>1, <4>3
      <4>4. CASE n # N + 1
        <5>1. n \in 1 .. N
          BY <1>4, <4>2, <4>4
        <5>2. Source(s, n) = Source(c, n)
          BY <1>4, <3>4, <4>1, <5>1 DEF IInv, Alike
        <5> QED BY <2>10, <3>4, <4>1, <5>1, <5>2
      <4> QED BY <4>3, <4>4
    <3> QED BY <3>1, <3>2, <3>3, <3>4
  <2>22. Complete'
    <3>1. \A t \in made : t \in DOMAIN unions /\ t # c
      BY <1>1 DEF TypeOK
    <3> QED BY <2>1, <2>11, <3>1 DEF IInv, Complete
  <2>23. Untouched' /\ Stopped'
    BY <1>1, <2>1 DEF Untouched, Stopped
  <2> QED BY <2>1, <2>12, <2>13, <2>15, <2>16, <2>18, <2>21, <2>22, <2>23, TablesSame DEF IInv
<1> QED BY <1>7, <1>8

----------------------------------------------------------------------------
\* Every step.

LEMMA StepInv ==
    ASSUME ServicesAssumption, IInv, [Next]_vars
    PROVE  IInv' /\ Stays
<1>1. ASSUME NEW s \in Services, NEW b \in Services, SetBase(s, b) PROVE IInv' /\ Stays
  BY <1>1, SetBaseStep
<1>2. ASSUME NEW s \in Services, NEW name \in ProcNames, AddProcedure(s, name) PROVE IInv' /\ Stays
  BY <1>2, AddProcedureStep
<1>3. CASE Loaded
  BY <1>3, LoadedStep
<1>4. ASSUME NEW s \in Services, BeginUnions(s) PROVE IInv' /\ Stays
  BY <1>4, BeginUnionsStep
<1>5. ASSUME Generating, NEW r \in all_procedures(current[1]), MakeStructs(r) PROVE IInv' /\ Stays
  BY <1>5, MakeStructsStep
<1>6. ASSUME Generating, NEW r \in all_procedures(current[1]), AddMembers(r) PROVE IInv' /\ Stays
  BY <1>6, AddMembersStep
<1>7. CASE Generating /\ EndUnions
  BY <1>7, EndUnionsStep
<1>8. ASSUME NEW s \in Services, NEW w \in Unions, GetEnum(s, w) PROVE IInv' /\ Stays
  BY <1>8, GetEnumStep
<1>9. CASE UNCHANGED vars
  <2>1. UNCHANGED <<loaded, procedures, table, structs, unions, enums, made, current, status>>
    BY <1>9 DEF vars, loaded
  <2>2. TypeOK'
    <3>1. TypeOK /\ status \in {"loading", "not_loaded", "generating", "clash", "no_alternatives"}
      BY DEF IInv, TypeOK
    <3> QED BY <2>1, <3>1, TypeUnchanged
  <2>3. (UnionMembers /\ Ordered)'
    BY <2>1, ServiceKept DEF IInv, UnionMembers, Ordered
  <2>4. Alike'
    <3>1. \A t, i : Members(t)' = Members(t) /\ Source(t, i)' = Source(t, i) /\ InList(t)' = InList(t)
      BY <2>1, ServiceKept, LoadedSame
    <3> QED BY <2>1, <3>1 DEF IInv, Alike
  <2>5. Complete'
    BY <2>1, ServiceKept DEF IInv, Complete
  <2>6. UnionTypes' /\ Untouched'
    BY <2>1 DEF IInv, UnionTypes, Untouched
  <2>7. UnionSlots'
    <3> SUFFICES ASSUME NEW t \in DOMAIN unions, NEW w \in Unions PROVE UnionSlotsOf(t, w)'
      BY <2>1 DEF UnionSlots
    <3>1. UnionSlotsOf(t, w)
      BY DEF IInv, UnionSlots
    <3> QED BY <2>1, <3>1 DEF UnionSlotsOf
  <2>8. Stopped'
    <3>1. \A s : Clash(s)' = Clash(s) /\ NamedAlternatives(s)' = NamedAlternatives(s)
      BY <2>1, LoadedSame
    <3> QED BY <2>1, <3>1 DEF IInv, Stopped, Clash, NamedAlternatives, ProcName, all_procedures, loaded
  <2> QED BY <2>1, <2>2, <2>3, <2>4, <2>5, <2>6, <2>7, <2>8, TablesSame DEF IInv
<1> QED BY <1>1, <1>2, <1>3, <1>4, <1>5, <1>6, <1>7, <1>8, <1>9 DEF Next

THEOREM Invariance == Spec => []IInv
<1>1. Init => IInv
  BY ServicesAssumption, InitInv
<1>2. IInv /\ [Next]_vars => IInv'
  BY ServicesAssumption, StepInv
<1> QED BY <1>1, <1>2, PTL DEF Spec

\* Scopes, unions and lists of bases keep their shape: no name is in a scope twice, and
\* the list of a service begins with that of each of its bases (TypeOK).
THEOREM ServicesTyped == Spec => []TypeOK
<1>1. IInv => TypeOK
  BY DEF IInv
<1> QED BY <1>1, Invariance, PTL

\* The alternatives of a service begin with those of every base and count its procedures
\* in their order, whatever is asked for first (service.cpp:99-131).
THEOREM NumbersExtended == Spec => []NumbersExtend
<1>1. IInv => NumbersExtend
  BY InvNumbers
<1> QED BY <1>1, Invariance, PTL

\* The handle of a structure or a union, its name and its definition lead to one slot
\* (scope.cpp:30-58).
THEOREM LookupsAreTheSame == Spec => []LookupsAgree
<1>1. IInv => LookupsAgree
  BY ServicesAssumption, InvLookups
<1> QED BY <1>1, Invariance, PTL

\* What is refused while unions are made is refused for the names of the service and its
\* bases alone, and is always refused for them (scope.cpp:73-85).
THEOREM ClashesAreRefused == Spec => []ClashesRefused
<1>1. IInv => ClashesRefused
  BY ServicesAssumption, InvClashes
<1> QED BY <1>1, Invariance, PTL

\* A handle stays good (scope.hpp:81-91).
THEOREM HandlesStay == Spec => SlotsStay
<1>1. IInv /\ [Next]_vars =>
         [\A s \in Services : \A i \in DOMAIN table[s] :
             /\ i \in DOMAIN table'[s]
             /\ table'[s][i].name = table[s][i].name
             /\ is_defined(table[s], i) => table'[s][i] = table[s][i]]_vars
  BY ServicesAssumption, StepInv DEF Stays, Extends
<1> QED BY <1>1, Invariance, PTL DEF Spec, SlotsStay
=============================================================================
