---------------------------- MODULE Instances_proofs ----------------------------
(***************************************************************************)
(* What Instances keeps.  A class is in the scope of its generic exactly   *)
(* when it was generated for one of the modules so far, and what a section *)
(* waits for is of the generated module, unless a class made of a generic  *)
(* of another module asked for it.                                         *)
(***************************************************************************)
EXTENDS Instances, SequenceTheorems, TLAPS

Inst == {n \in Names : IsInstance(n)}
Users == {n \in Inst : n.base \in Generics}
Work == [name : Names, key : BOOLEAN]

\* What a class of an instance depends on, and all that is gone through for it.
KeysOf == [n \in Users |-> Keys(MembersOf(n))]
WorkOf == [n \in Users |-> Wires(MembersOf(n)) \o Keys(MembersOf(n))]
\* What is gone through for the declarations of a module.
WorkFor == [types \in Declared |-> Wires(types) \o Keys(types)]
\* The instances that asking for the keys of a type asks for.
KeyCalls == [n \in Names |-> Resolved(n) \o category_calls(n)]

----------------------------------------------------------------------------
\* The inductive invariant.

\* The state has its types.
Typed ==
    /\ parent \in [Generics -> Modules]
    /\ uses \in [Modules -> Declared]
    /\ name_ins \in [Modules -> Seq(Inst)]
    /\ symbols \in [Modules -> SUBSET Users]
    /\ at \in DOMAIN Order /\ asked \in Modules
    /\ work \in Seq(Work) /\ pending \in Seq(Inst)
    /\ waited \in SUBSET (Modules \X Users) /\ defined \in SUBSET (Modules \X Users)
    /\ ins \in Nat /\ ins_end \in Nat /\ upto \in [Modules -> Nat]
    /\ status \in {"generating", "undefined", "redefined", "unresolved", "done"}

\* No list holds an instance twice, and each loop ends in its list.
Lists ==
    /\ \A m \in Modules :
          /\ upto[m] <= Len(name_ins[m])
          /\ \A i, j \in DOMAIN name_ins[m] : name_ins[m][i] = name_ins[m][j] => i = j
    /\ ins = 0 => ins_end = 0
    /\ ins > 0 => ins_end = upto[current]
    /\ ins <= ins_end + 1

\* The instances of users that the loop has gone past, and what was generated of all modules.
Past == {n \in {name_ins[current][k] : k \in 1 .. ins - 1} : n.base \in Generics}
AllClasses == [i \in DOMAIN Order |-> Classes(i)]

\* A scope holds what was generated of its generics.
InScope ==
    \A m \in Modules, n \in Users :
        n \in symbols[m] <=>
           /\ parent[n.base] = m
           /\ n \in Past \/ \E i \in 1 .. at - 1 : n \in AllClasses[i]

\* Nothing is generated for two modules.
Apart ==
    /\ \A i, j \in 1 .. at - 1 : i # j => AllClasses[i] \cap AllClasses[j] = {}
    /\ status # "redefined" => \A i \in 1 .. at - 1 : AllClasses[i] \cap Past = {}
    /\ status = "redefined" => \E i \in 1 .. at - 1 : AllClasses[i] \cap AllClasses[at] # {}
    /\ status = "done" => ins > ins_end

\* The definitions are those of what the loop has gone past.
Defined ==
    /\ \A key \in defined : key[1] = current /\ key[2] \in symbols[parent[key[2].base]]
    /\ status # "redefined" => \A n \in Past : <<current, n>> \in defined

\* Of the classes in a set, some for the module m: one is made of a generic of another
\* module, and depends on the instance e.
Depends(n, e) == e.name.base \in Generics /\ \E v \in DOMAIN KeysOf[n] : KeysOf[n][v] = e
Foreign(set, m) == \E n \in set, e \in Work : parent[n.base] # m /\ Depends(n, e)

\* What is waited for was asked for, in the generated module or for such a class.
Waiting ==
    \A key \in waited :
       /\ Is(key[2], name_ins[key[1]]) \/ (key[1] = asked /\ Is(key[2], pending))
       /\ key[1] # current => Foreign(Past, current)

\* Another module is asked for the members of a class of its generic.
Asked ==
    asked # current =>
       \E n \in Past :
          /\ parent[n.base] = asked
          /\ \A w \in DOMAIN work : work[w].key =>
                \E v \in DOMAIN KeysOf[n] : KeysOf[n][v] = work[w]

\* And all that such classes need is waited for.
Elsewhere ==
    /\ status # "redefined" =>
          \A n \in Past, e \in Work :
             parent[n.base] # current /\ Depends(n, e) =>
                \/ <<parent[n.base], e.name>> \in waited
                \/ asked = parent[n.base] /\ Is(e, work)
    /\ \A i \in 1 .. at - 1 : ~Foreign(AllClasses[i], Order[i])
    /\ status = "unresolved" =>
          Foreign(AllClasses[at], current) \/ Len(name_ins[current]) > upto[current]
    /\ status = "done" => ~Foreign(AllClasses[at], current)

IInv == Typed /\ Lists /\ InScope /\ Apart /\ Defined /\ Waiting /\ Asked /\ Elsewhere

----------------------------------------------------------------------------
\* What generic types lead to.

LEMMA KeysTyped ==
    ASSUME NEW n \in Users
    PROVE  /\ MembersOf(n) \in Seq(Names)
           /\ KeysOf[n] = Keys(MembersOf(n))
           /\ KeysOf[n] \in Seq([name : Names, key : {TRUE}])
<1>1. n \in Names /\ n.base \in Generics
  BY DEF Users, Inst
<1>2. MembersOf(n) \in Seq(Names)
  BY <1>1, InstancesAssumption
<1>3. MembersOf(n) \in {MembersOf(k) : k \in {k \in Names : k.base \in Generics}}
  BY <1>1
<1>4. Keys(MembersOf(n)) \in Seq([name : Names, key : {TRUE}])
  BY <1>3, InstancesAssumption
<1> QED BY <1>2, <1>4 DEF KeysOf

\* The wire types of some members come first, and then their keys.
LEMMA WorkIs ==
    ASSUME NEW ks \in Seq([name : Names, key : {TRUE}]), NEW types \in Seq(Names),
           NEW ws, ws = Wires(types) \o ks
    PROVE  /\ ws \in Seq(Work)
           /\ \A w \in DOMAIN ws : ws[w].key => \E v \in DOMAIN ks : ks[v] = ws[w]
           /\ \A v \in DOMAIN ks : Is(ks[v], ws)
<1>1. PICK us : us = Wires(types)
  OBVIOUS
<1>2. us \in Seq(Work) /\ \A w \in DOMAIN us : ~us[w].key
  <2>1. us = [i \in DOMAIN types |-> [name |-> types[i], key |-> FALSE]]
    BY <1>1 DEF Wires
  <2>2. DOMAIN types = 1 .. Len(types) /\ Len(types) \in Nat /\ DOMAIN us = DOMAIN types
    BY <2>1
  <2>3. \A n \in Names : [name |-> n, key |-> FALSE] \in Work
    BY Zenon DEF Work
  <2>4. \A i \in DOMAIN types : types[i] \in Names /\ us[i] = [name |-> types[i], key |-> FALSE]
    BY <2>1
  <2>5. us \in [1 .. Len(types) -> Work]
    <3>1. \A i \in DOMAIN types : us[i] \in Work
      BY <2>3, <2>4
    <3>2. us = [i \in DOMAIN us |-> us[i]]
      BY <2>1, Zenon
    <3> QED BY <3>1, <3>2, <2>2, Zenon
  <2>6. us \in Seq(Work)
    BY <2>2, <2>5, SeqDef
  <2>7. \A w \in DOMAIN us : ~us[w].key
    BY <2>2, <2>4
  <2> QED BY <2>6, <2>7
<1>3. ks \in Seq(Work)
  <2>1. [name : Names, key : {TRUE}] \subseteq Work
    BY DEF Work
  <2> QED BY <2>1, SeqMonotonic
<1>4. ws = us \o ks
  BY <1>1, Zenon
<1>5. ws \in Seq(Work) /\ Len(ws) = Len(us) + Len(ks)
  BY <1>2, <1>3, <1>4
<1>6. \A w \in 1 .. Len(us) + Len(ks) :
         ws[w] = IF w <= Len(us) THEN us[w] ELSE ks[w - Len(us)]
  BY <1>2, <1>3, <1>4
<1>7. \A w \in DOMAIN ws : ws[w].key => \E v \in DOMAIN ks : ks[v] = ws[w]
  <2> SUFFICES ASSUME NEW w \in DOMAIN ws, ws[w].key PROVE \E v \in DOMAIN ks : ks[v] = ws[w]
    OBVIOUS
  <2>1. w > Len(us) /\ w \in 1 .. Len(us) + Len(ks)
    BY <1>2, <1>5, <1>6
  <2>2. w - Len(us) \in DOMAIN ks /\ ks[w - Len(us)] = ws[w]
    BY <2>1, <1>2, <1>6
  <2> QED BY <2>2
<1>8. \A v \in DOMAIN ks : Is(ks[v], ws)
  <2> SUFFICES ASSUME NEW v \in DOMAIN ks PROVE Is(ks[v], ws)
    OBVIOUS
  <2>1. Len(us) + v \in DOMAIN ws /\ ws[Len(us) + v] = ks[v]
    BY <1>2, <1>5, <1>6
  <2> QED BY <2>1 DEF Is
<1> QED BY <1>5, <1>7, <1>8

LEMMA WorkTyped ==
    ASSUME NEW n \in Users
    PROVE  /\ WorkOf[n] = Wires(MembersOf(n)) \o Keys(MembersOf(n))
           /\ WorkOf[n] \in Seq(Work)
           /\ \A w \in DOMAIN WorkOf[n] :
                 WorkOf[n][w].key => \E v \in DOMAIN KeysOf[n] : KeysOf[n][v] = WorkOf[n][w]
           /\ \A v \in DOMAIN KeysOf[n] : Is(KeysOf[n][v], WorkOf[n])
<1>1. WorkOf[n] = Wires(MembersOf(n)) \o Keys(MembersOf(n))
  BY DEF WorkOf
<1>2. /\ MembersOf(n) \in Seq(Names) /\ KeysOf[n] = Keys(MembersOf(n))
      /\ KeysOf[n] \in Seq([name : Names, key : {TRUE}])
  BY KeysTyped
<1>3. PICK types \in Seq(Names), ks \in Seq([name : Names, key : {TRUE}]) :
         types = MembersOf(n) /\ ks = KeysOf[n]
  BY <1>2, Zenon
<1>4. PICK ws : ws = WorkOf[n] /\ ws = Wires(types) \o ks
  BY <1>1, <1>2, <1>3, Zenon
<1>5. /\ ws \in Seq(Work)
      /\ \A w \in DOMAIN ws : ws[w].key => \E v \in DOMAIN ks : ks[v] = ws[w]
      /\ \A v \in DOMAIN ks : Is(ks[v], ws)
  BY <1>4, WorkIs, Zenon
<1> QED BY <1>1, <1>3, <1>4, <1>5

LEMMA WorkForTyped ==
    ASSUME NEW types \in Declared
    PROVE  /\ WorkFor[types] = Wires(types) \o Keys(types)
           /\ WorkFor[types] \in Seq(Work)
<1>1. types \in Seq(Names)
  BY DEF Declared
<1>2. Keys(types) \in Seq([name : Names, key : {TRUE}])
  BY InstancesAssumption
<1>3. WorkFor[types] = Wires(types) \o Keys(types)
  BY DEF WorkFor
<1>4. WorkFor[types] \in Seq(Work)
  BY <1>1, <1>2, <1>3, WorkIs, Zenon
<1> QED BY <1>3, <1>4

\* What is asked for is an instance, among it what the key is of.
LEMMA CallsTyped ==
    ASSUME NEW n \in Names
    PROVE  /\ wire_calls[n] \in Seq(Inst)
           /\ KeyCalls[n] = Resolved(n) \o category_calls(n)
           /\ KeyCalls[n] \in Seq(Inst)
           /\ n.base \in Generics => n \in Users /\ Is(n, KeyCalls[n])
<1>1. wire_calls[n] \in Seq(Inst) /\ category_calls(n) \in Seq(Inst)
  BY InstancesAssumption DEF Inst
<1>2. KeyCalls[n] = Resolved(n) \o category_calls(n)
  BY DEF KeyCalls
<1>3. Resolved(n) \in Seq(Inst)
  <2>1. CASE IsInstance(n)
    <3>1. n \in Inst
      BY <2>1 DEF Inst
    <3> QED BY <2>1, <3>1 DEF Resolved
  <2>2. CASE ~IsInstance(n)
    BY <2>2 DEF Resolved
  <2> QED BY <2>1, <2>2
<1>4. KeyCalls[n] \in Seq(Inst)
  BY <1>1, <1>2, <1>3
<1>5. ASSUME n.base \in Generics PROVE n \in Users /\ Is(n, KeyCalls[n])
  <2>1. IsInstance(n)
    BY <1>5, InstancesAssumption
  <2>2. PICK rest \in Seq(Inst) : rest = category_calls(n)
    BY <1>1
  <2>3. KeyCalls[n] = <<n>> \o rest /\ n \in Inst
    BY <1>2, <2>1, <2>2 DEF Resolved, Inst
  <2>4. 1 \in DOMAIN KeyCalls[n] /\ KeyCalls[n][1] = n
    BY <2>3, <2>2
  <2> QED BY <2>1, <2>4, <1>5 DEF Is, Users, Inst
<1> QED BY <1>1, <1>2, <1>4, <1>5

----------------------------------------------------------------------------
\* What was generated.

LEMMA OrderFacts ==
    /\ Order \in Seq(Modules) /\ Len(Order) \in Nat \ {0} /\ DOMAIN Order = 1 .. Len(Order)
    /\ \A i \in DOMAIN Order : Order[i] \in Modules
    /\ \A i, j \in DOMAIN Order : Order[i] = Order[j] => i = j
BY InstancesAssumption DEF Order

LEMMA ClassFacts ==
    ASSUME NEW i \in DOMAIN Order
    PROVE  /\ AllClasses[i] = Classes(i)
           /\ \A n : n \in AllClasses[i] <=>
                 n.base \in Generics /\ \E k \in 1 .. upto[Order[i]] : n = name_ins[Order[i]][k]
<1>1. AllClasses[i] = Classes(i)
  BY DEF AllClasses
<1>2. \A n : n \in Classes(i) <=>
         n.base \in Generics /\ \E k \in 1 .. upto[Order[i]] : n = name_ins[Order[i]][k]
  BY Zenon DEF Classes
<1> QED BY <1>1, <1>2

LEMMA PastFacts ==
    \A n : n \in Past <=> n.base \in Generics /\ \E k \in 1 .. ins - 1 : n = name_ins[current][k]
BY Zenon DEF Past

\* The classes of modules are instances of what users wrote.
LEMMA ClassesTyped ==
    ASSUME Typed, Lists
    PROVE  /\ Past \subseteq Users
           /\ \A i \in DOMAIN Order : AllClasses[i] \subseteq Users
<1>1. ASSUME NEW m \in Modules, NEW k \in 1 .. upto[m]
      PROVE  k \in DOMAIN name_ins[m] /\ name_ins[m][k] \in Inst
  BY <1>1 DEF Typed, Lists
<1>2. current \in Modules /\ ins - 1 <= upto[current]
  BY OrderFacts DEF Typed, Lists, current
<1>3. ASSUME NEW n \in Past PROVE n \in Users
  <2>1. PICK k \in 1 .. ins - 1 : n = name_ins[current][k]
    BY <1>3, PastFacts
  <2>2. k \in 1 .. upto[current]
    BY <2>1, <1>2 DEF Typed
  <2> QED BY <1>1, <1>2, <1>3, <2>1, <2>2, PastFacts DEF Users
<1>4. ASSUME NEW i \in DOMAIN Order, NEW n \in AllClasses[i] PROVE n \in Users
  <2>1. PICK k \in 1 .. upto[Order[i]] : n = name_ins[Order[i]][k]
    BY <1>4, ClassFacts
  <2> QED BY <1>1, <1>4, <2>1, OrderFacts, ClassFacts DEF Users
<1> QED BY <1>3, <1>4

\* Before the emitter, all that the loop was to go through is past.
LEMMA PastAll ==
    ASSUME Typed, Lists, ins > ins_end, ins > 0
    PROVE  AllClasses[at] = Past
<1>1. at \in DOMAIN Order /\ ins - 1 = upto[current]
  BY DEF Typed, Lists
<1>2. \A n : n \in AllClasses[at] <=> n \in Past
  BY <1>1, ClassFacts, PastFacts DEF current
<1> QED BY <1>2, Zenon

\* A list that only grows leaves what was generated as it was.
LEMMA GrowthKeeps ==
    ASSUME Typed, Lists, upto' = upto, at' = at, ins' = ins,
           \A m \in Modules : \A k \in DOMAIN name_ins[m] : name_ins'[m][k] = name_ins[m][k]
    PROVE  AllClasses' = AllClasses /\ Past' = Past /\ current' = current
<1>1. current' = current /\ current \in Modules /\ ins - 1 <= upto[current]
  BY OrderFacts DEF Typed, Lists, current
<1>2. ASSUME NEW m \in Modules, NEW k \in 1 .. upto[m] PROVE name_ins'[m][k] = name_ins[m][k]
  BY <1>2 DEF Typed, Lists
<1>3. Past' = Past
  <2>1. ins \in Nat /\ upto[current] \in Nat
    BY <1>1 DEF Typed
  <2>2. \A k \in 1 .. ins - 1 : k \in 1 .. upto[current]
    BY <1>1, <2>1
  <2>3. \A k \in 1 .. ins - 1 : name_ins'[current][k] = name_ins[current][k]
    BY <1>1, <1>2, <2>2
  <2> QED BY <1>1, <2>3 DEF Past
<1>4. ASSUME NEW i \in DOMAIN Order PROVE Classes(i)' = Classes(i)
  BY <1>2, OrderFacts DEF Classes
<1>5. AllClasses' = AllClasses
  BY <1>4, Zenon DEF AllClasses
<1> QED BY <1>1, <1>3, <1>5

----------------------------------------------------------------------------
\* The first state.

LEMMA Starts == ASSUME Init PROVE IInv
<1>1. at = 1 /\ current = Order[1] /\ current \in Modules /\ asked = current /\ 1 \in DOMAIN Order
  BY OrderFacts DEF Init, current
<1>2. uses \in [Modules -> Declared]
  <2>1. PICK some \in [Range(Order) -> Declared] :
           uses = [m \in Modules |-> IF m \in Range(Order) THEN some[m] ELSE <<>>]
    BY DEF Init
  <2>2. <<>> \in Declared
    <3>1. <<>> \in [1 .. 0 -> {n \in Names : n.base # "ptr"}] /\ 0 \in 0 .. MaxUses
      BY InstancesAssumption
    <3> QED BY <3>1, Zenon DEF Declared
  <2>3. \A m \in Range(Order) : some[m] \in Declared
    BY <2>1
  <2> QED BY <2>1, <2>2, <2>3
<1>3. work = WorkFor[uses[current]] /\ work \in Seq(Work)
  BY <1>1, <1>2, WorkForTyped DEF Init
<1>4. Typed
  BY <1>1, <1>2, <1>3 DEF Init, Typed
<1>5. Past = {}
  BY DEF Init, Past
<1>6. Lists
  BY DEF Init, Lists
<1>7. \A i : i \notin 1 .. at - 1
  BY <1>1
<1>8. InScope
  BY <1>5, <1>7, Zenon DEF Init, InScope
<1>9. Apart
  BY <1>7 DEF Init, Apart
<1>10. Defined
  BY <1>5 DEF Init, Defined
<1>11. Waiting /\ Asked
  BY <1>1 DEF Init, Waiting, Asked
<1>12. Elsewhere
  BY <1>5, <1>7 DEF Init, Elsewhere
<1> QED BY <1>4, <1>6, <1>8, <1>9, <1>10, <1>11, <1>12 DEF IInv

----------------------------------------------------------------------------
\* The steps.

\* An instance that is in a list of its own after all.
LEMMA AskKeeps == ASSUME IInv, create_or_get_instantiation PROVE IInv'
<1> USE DEF IInv
<1>1. PICK n \in Inst : n = Head(pending)
  BY DEF Typed, create_or_get_instantiation
<1>2. PICK old \in Seq(Inst) : old = name_ins[asked] /\ Len(old) \in Nat
  BY DEF Typed
<1>3. PICK new \in Seq(Inst) :
         /\ name_ins' = [name_ins EXCEPT ![asked] = new]
         /\ new = IF Is(n, old) THEN old ELSE Append(old, n)
  <2>1. CASE Is(n, old)
    <3>1. name_ins' = name_ins
      BY <1>1, <1>2, <2>1 DEF create_or_get_instantiation
    <3>2. name_ins' = [name_ins EXCEPT ![asked] = old]
      BY <1>2, <3>1 DEF Typed
    <3> QED BY <2>1, <3>2
  <2>2. CASE ~Is(n, old)
    <3>1. name_ins' = [name_ins EXCEPT ![asked] = Append(old, n)]
      BY <1>1, <1>2, <2>2 DEF create_or_get_instantiation
    <3>2. Append(old, n) \in Seq(Inst)
      BY <1>1, <1>2
    <3> QED BY <2>2, <3>1, <3>2, Zenon
  <2> QED BY <2>1, <2>2
<1>4. /\ Len(new) \in Nat /\ Len(new) >= Len(old) /\ Is(n, new)
      /\ \A k \in DOMAIN old : k \in DOMAIN new /\ new[k] = old[k]
      /\ \A i, j \in DOMAIN new : new[i] = new[j] => i = j
  <2>1. \A i, j \in DOMAIN old : old[i] = old[j] => i = j
    BY <1>2 DEF Typed, Lists
  <2>2. CASE Is(n, old)
    BY <1>2, <1>3, <2>1, <2>2
  <2>3. CASE ~Is(n, old)
    <3>1. /\ Len(new) = Len(old) + 1 /\ DOMAIN new = 1 .. Len(old) + 1
          /\ new[Len(old) + 1] = n /\ \A k \in 1 .. Len(old) : new[k] = old[k]
      BY <1>2, <1>3, <2>3
    <3> QED BY <1>2, <2>1, <2>3, <3>1 DEF Is
  <2> QED BY <2>2, <2>3
<1>5. /\ UNCHANGED <<input, symbols, at, asked, work, waited, defined, ins, ins_end, upto>>
      /\ pending' = Tail(pending) /\ pending # <<>>
      /\ status = "generating" /\ status' \in {"generating", "undefined"}
  BY DEF create_or_get_instantiation
<1>6. /\ \A m \in Modules : \A k \in DOMAIN name_ins[m] :
            k \in DOMAIN name_ins'[m] /\ name_ins'[m][k] = name_ins[m][k]
      /\ \A m \in Modules : Len(name_ins'[m]) \in Nat /\ Len(name_ins'[m]) >= Len(name_ins[m])
      /\ Is(n, name_ins'[asked])
  BY <1>2, <1>3, <1>4 DEF Typed
<1>7. AllClasses' = AllClasses /\ Past' = Past /\ current' = current
  BY <1>5, <1>6, GrowthKeeps
<1>8. Typed'
  <2>1. pending' \in Seq(Inst)
    BY <1>5 DEF Typed
  <2>2. name_ins' \in [Modules -> Seq(Inst)]
    BY <1>3 DEF Typed
  <2> QED BY <1>5, <2>1, <2>2 DEF Typed, input
<1>9. Lists'
  <2>1. \A m \in Modules : \A i, j \in DOMAIN name_ins'[m] :
           name_ins'[m][i] = name_ins'[m][j] => i = j
    BY <1>3, <1>4 DEF Typed, Lists
  <2>2. \A m \in Modules : upto'[m] <= Len(name_ins'[m])
    BY <1>5, <1>6 DEF Typed, Lists
  <2> QED BY <1>5, <1>7, <2>1, <2>2 DEF Lists
<1>10. InScope'
  BY <1>5, <1>7 DEF InScope, input
<1>11. Apart'
  BY <1>5, <1>7 DEF Apart
<1>12. Defined'
  BY <1>5, <1>7 DEF Defined, input
<1>13. Waiting'
  <2>1. \A m \in Modules : \A k : Is(k, name_ins[m]) => Is(k, name_ins'[m])
    BY <1>6, Zenon DEF Is
  <2>2. ASSUME NEW k \in Inst, Is(k, pending) PROVE k = n \/ Is(k, pending')
    <3>1. PICK i \in DOMAIN pending : pending[i] = k
      BY <2>2 DEF Is
    <3>2. CASE i = 1
      BY <1>1, <3>1, <3>2 DEF Typed
    <3>3. CASE i # 1
      <4>1. i - 1 \in DOMAIN pending' /\ pending'[i - 1] = k
        BY <1>5, <3>1, <3>3 DEF Typed
      <4> QED BY <4>1 DEF Is
    <3> QED BY <3>2, <3>3
  <2>3. ASSUME NEW key \in waited
        PROVE  Is(key[2], name_ins'[key[1]]) \/ (key[1] = asked /\ Is(key[2], pending'))
    <3>1. key[1] \in Modules /\ key[2] \in Inst
      BY <2>3 DEF Typed, Users
    <3>2. Is(key[2], name_ins[key[1]]) \/ (key[1] = asked /\ Is(key[2], pending))
      BY <2>3 DEF Waiting
    <3> QED BY <1>6, <2>1, <2>2, <3>1, <3>2
  <2>4. Foreign(Past, current)' <=> Foreign(Past, current)
    BY <1>5, <1>7 DEF Foreign, input
  <2>5. waited' = waited /\ asked' = asked /\ current' = current
    BY <1>5, <1>7
  <2>6. Waiting
    OBVIOUS
  <2> QED BY <2>3, <2>4, <2>5, <2>6, Zenon DEF Waiting
<1>14. Elsewhere'
  BY <1>5, <1>7 DEF Elsewhere, Foreign, input
<1>15. Asked'
  BY <1>5, <1>7 DEF Asked, input
<1> QED BY <1>8, <1>9, <1>10, <1>11, <1>12, <1>13, <1>14, <1>15

\* What is asked for keys is for the classes that wait for it.
LEMMA GoThroughKeeps == ASSUME IInv, GoThrough PROVE IInv'
<1> USE DEF IInv
<1>1. PICK e \in Work : e = Head(work)
  BY DEF Typed, GoThrough
<1>2. PICK n \in Names : n = e.name
  BY DEF Work
<1>3. /\ UNCHANGED <<input, name_ins, symbols, at, asked, defined, ins, ins_end, upto, status>>
      /\ pending = <<>> /\ work # <<>> /\ work' = Tail(work) /\ status = "generating"
      /\ e.key => /\ pending' = KeyCalls[n]
                  /\ waited' = IF n.base \in Generics THEN waited \cup {<<asked, n>>} ELSE waited
      /\ ~e.key => pending' = wire_calls[n] /\ waited' = waited
  BY <1>1, <1>2, CallsTyped DEF GoThrough
<1>4. /\ wire_calls[n] \in Seq(Inst) /\ KeyCalls[n] \in Seq(Inst)
      /\ n.base \in Generics => n \in Users /\ Is(n, KeyCalls[n])
  BY CallsTyped
<1>5. /\ waited \subseteq waited' /\ pending' \in Seq(Inst)
      /\ \A key \in waited' : key \in waited \/ (/\ key = <<asked, n>> /\ e.key /\ n \in Users
                                                  /\ Is(n, pending'))
      /\ e.key /\ n.base \in Generics => <<asked, n>> \in waited'
  BY <1>3, <1>4, e.key \in BOOLEAN DEF Work
<1>6. /\ work' \in Seq(Work)
      /\ \A w \in DOMAIN work' : w + 1 \in DOMAIN work /\ work'[w] = work[w + 1]
      /\ \A w \in DOMAIN work : work[w] = e \/ Is(work[w], work')
      /\ 1 \in DOMAIN work /\ work[1] = e
  <2>1. /\ work' \in Seq(Work) /\ Len(work) \in Nat /\ Len(work') = Len(work) - 1
        /\ \A w \in 1 .. Len(work) - 1 : work'[w] = work[w + 1]
        /\ 1 \in DOMAIN work /\ work[1] = e
    BY <1>1, <1>3 DEF Typed
  <2>2. \A w \in DOMAIN work' : w + 1 \in DOMAIN work /\ work'[w] = work[w + 1]
    BY <2>1 DEF Typed
  <2>3. ASSUME NEW w \in DOMAIN work, work[w] # e PROVE Is(work[w], work')
    <3>1. w - 1 \in DOMAIN work' /\ work'[w - 1] = work[w]
      BY <2>1, <2>3 DEF Typed
    <3> QED BY <3>1 DEF Is
  <2> QED BY <2>1, <2>2, <2>3
<1>7. AllClasses' = AllClasses /\ Past' = Past /\ current' = current
  BY <1>3 DEF AllClasses, Classes, Past, current
<1>8. Typed'
  <2>1. waited' \in SUBSET (Modules \X Users)
    BY <1>5 DEF Typed
  <2> QED BY <1>3, <1>5, <1>6, <2>1 DEF Typed, input
<1>9. Lists'
  BY <1>3, <1>7 DEF Lists
<1>10. InScope' /\ Apart'
  BY <1>3, <1>7 DEF InScope, Apart, input
<1>11. Defined'
  BY <1>3, <1>7 DEF Defined, input
<1>12. Foreign(Past, current)' <=> Foreign(Past, current)
  BY <1>3, <1>7 DEF Foreign, input
<1>13. Waiting'
  <2>1. ASSUME NEW key \in waited'
        PROVE  Is(key[2], name_ins[key[1]]) \/ (key[1] = asked /\ Is(key[2], pending'))
    <3>1. CASE key \in waited
      BY <1>3, <3>1 DEF Waiting, Is
    <3>2. CASE key \notin waited
      BY <1>5, <2>1, <3>2
    <3> QED BY <3>1, <3>2
  <2>2. ASSUME NEW key \in waited', key[1] # current PROVE Foreign(Past, current)
    <3>1. CASE key \in waited
      BY <2>2, <3>1 DEF Waiting
    <3>2. CASE key \notin waited
      <4>1. key[1] = asked /\ e.key /\ n \in Users
        BY <1>5, <2>2, <3>2
      <4>2. PICK c \in Past : /\ parent[c.base] = asked
                              /\ \E v \in DOMAIN KeysOf[c] : KeysOf[c][v] = e
        BY <1>6, <2>2, <4>1 DEF Asked
      <4>3. Depends(c, e) /\ parent[c.base] # current
        BY <1>2, <2>2, <4>1, <4>2 DEF Depends, Users
      <4> QED BY <4>3 DEF Foreign
    <3> QED BY <3>1, <3>2
  <2>3. name_ins' = name_ins /\ asked' = asked
    BY <1>3
  <2> QED BY <1>7, <1>12, <2>1, <2>2, <2>3, Zenon DEF Waiting
<1>14. Asked'
  <2>1. ASSUME NEW c \in Past, NEW w \in DOMAIN work', work'[w].key,
               \A v \in DOMAIN work : work[v].key =>
                  \E u \in DOMAIN KeysOf[c] : KeysOf[c][u] = work[v]
        PROVE  \E u \in DOMAIN KeysOf[c] : KeysOf[c][u] = work'[w]
    BY <1>6, <2>1
  <2>2. asked' = asked /\ parent' = parent
    BY <1>3 DEF input
  <2>3. Asked
    OBVIOUS
  <2> QED BY <1>7, <2>1, <2>2, <2>3 DEF Asked
<1>15. Elsewhere'
  <2>1. ASSUME NEW c \in Past, NEW k \in Work, parent[c.base] # current, Depends(c, k)
        PROVE  \/ <<parent[c.base], k.name>> \in waited'
               \/ asked = parent[c.base] /\ Is(k, work')
    <3>1. \/ <<parent[c.base], k.name>> \in waited
          \/ asked = parent[c.base] /\ Is(k, work)
      BY <1>3, <2>1 DEF Elsewhere
    <3>2. CASE <<parent[c.base], k.name>> \in waited
      BY <1>5, <3>2
    <3>3. CASE asked = parent[c.base] /\ Is(k, work) /\ k # e
      BY <1>6, <3>3 DEF Is
    <3>4. CASE asked = parent[c.base] /\ k = e
      <4>1. c \in Users
        BY ClassesTyped
      <4>2. KeysOf[c] \in Seq([name : Names, key : {TRUE}])
        BY <4>1, KeysTyped
      <4>3. PICK v \in DOMAIN KeysOf[c] : KeysOf[c][v] = e /\ n.base \in Generics
        BY <1>2, <2>1, <3>4 DEF Depends
      <4>4. KeysOf[c][v] \in [name : Names, key : {TRUE}]
        BY <4>2, <4>3, LenProperties
      <4>5. e.key = TRUE
        BY <4>3, <4>4
      <4>6. e.key
        BY <4>5, Zenon
      <4> QED BY <1>2, <1>5, <3>4, <4>3, <4>6
    <3> QED BY <3>1, <3>2, <3>3, <3>4
  <2>2. /\ status' = status /\ at' = at /\ parent' = parent /\ asked' = asked
        /\ name_ins' = name_ins /\ upto' = upto
    BY <1>3 DEF input
  <2>3. Elsewhere
    OBVIOUS
  <2> QED BY <1>7, <2>1, <2>2, <2>3 DEF Elsewhere, Foreign
<1> QED BY <1>8, <1>9, <1>10, <1>11, <1>13, <1>14, <1>15

\* Nothing is past yet, and the end of the list was not looked at before.
LEMMA StartKeeps == ASSUME IInv, StartInstances PROVE IInv'
<1> USE DEF IInv
<1>1. /\ UNCHANGED <<input, name_ins, symbols, at, asked, work, pending, waited, defined, status>>
      /\ ins = 0 /\ ins' = 1 /\ ins_end' = Len(name_ins[current]) /\ status = "generating"
      /\ upto' = [upto EXCEPT ![current] = Len(name_ins[current])]
  BY DEF StartInstances, Free
<1>2. Past = {} /\ Past' = {} /\ current' = current /\ current \in Modules /\ at \in DOMAIN Order
  BY <1>1, OrderFacts DEF Past, current, Typed
<1>3. Len(name_ins[current]) \in Nat
  BY <1>2 DEF Typed
<1>4. \A i \in 1 .. at - 1 : i \in DOMAIN Order /\ AllClasses'[i] = AllClasses[i]
  <2> SUFFICES ASSUME NEW i \in 1 .. at - 1
               PROVE  i \in DOMAIN Order /\ AllClasses'[i] = AllClasses[i]
    OBVIOUS
  <2>1. i \in DOMAIN Order /\ Order[i] # current /\ Order[i] \in Modules
    BY <1>2, OrderFacts DEF current
  <2>2. upto'[Order[i]] = upto[Order[i]]
    BY <1>1, <2>1 DEF Typed
  <2>3. Classes(i)' = Classes(i)
    BY <1>1, <2>2 DEF Classes
  <2>4. AllClasses'[i] = Classes(i)' /\ AllClasses[i] = Classes(i)
    BY <2>1, Zenon DEF AllClasses
  <2> QED BY <2>1, <2>3, <2>4
<1>5. Typed'
  BY <1>1, <1>3 DEF Typed, input
<1>6. Lists'
  BY <1>1, <1>2, <1>3 DEF Lists, Typed
<1>7. InScope'
  BY <1>1, <1>2, <1>4 DEF InScope, input
<1>8. Apart'
  BY <1>1, <1>2, <1>4 DEF Apart
<1>9. Defined'
  BY <1>1, <1>2 DEF Defined, input
<1>10. Foreign(Past, current)' <=> Foreign(Past, current)
  BY <1>2 DEF Foreign
<1>11. Waiting'
  BY <1>1, <1>2, <1>10, Zenon DEF Waiting
<1>12. Asked'
  BY <1>1, <1>2 DEF Asked
<1>13. Elsewhere'
  BY <1>1, <1>2, <1>4 DEF Elsewhere, Foreign, input
<1> QED BY <1>5, <1>6, <1>7, <1>8, <1>9, <1>11, <1>12, <1>13

\* A class goes into the scope of its generic, unless it is there: it was not made for this
\* module, whose list has it once.
LEMMA GenerateKeeps == ASSUME IInv, GenerateInstance PROVE IInv'
<1> USE DEF IInv
<1>1. /\ UNCHANGED <<input, name_ins, at, pending, waited, ins_end, upto>>
      /\ status = "generating" /\ pending = <<>> /\ work = <<>> /\ ins \in 1 .. ins_end
      /\ ins' = ins + 1
  BY DEF GenerateInstance, Free, Iterating
<1>2. PICK n : n = name_ins[current][ins]
  OBVIOUS
<1>3. PICK mod : mod = parent[n.base]
  OBVIOUS
<1>4. /\ current \in Modules /\ current' = current /\ at \in DOMAIN Order
      /\ ins \in DOMAIN name_ins[current] /\ ins \in 1 .. upto[current] /\ n \in Inst
  <2>1. current \in Modules /\ current' = current
    BY <1>1, OrderFacts DEF Typed, current
  <2>2. ins \in 1 .. upto[current]
    BY <1>1 DEF Lists, Typed
  <2>3. ins \in DOMAIN name_ins[current]
    BY <2>1, <2>2 DEF Lists, Typed
  <2>4. n \in Inst
    BY <1>2, <2>1, <2>3 DEF Typed
  <2> QED BY <2>1, <2>2, <2>3, <2>4 DEF Typed
<1>5. AllClasses' = AllClasses
  BY <1>1 DEF AllClasses, Classes
<1>6. \A c : c \in Past' <=> c \in Past \/ (c = n /\ n.base \in Generics)
  <2>1. Past' = {c \in {name_ins[current][k] : k \in 1 .. ins} : c.base \in Generics}
    BY <1>1, <1>4 DEF Past
  <2>2. \A k : k \in 1 .. ins <=> k \in 1 .. ins - 1 \/ k = ins
    BY <1>1
  <2> QED BY <1>2, <2>1, <2>2, PastFacts
<1>7. Past \subseteq Users /\ n \notin Past
  <2>1. ASSUME NEW k \in 1 .. ins - 1 PROVE name_ins[current][k] # n
    <3>1. k \in DOMAIN name_ins[current] /\ k # ins
      BY <1>1, <1>4, <2>1 DEF Lists, Typed
    <3> QED BY <1>2, <1>4, <3>1 DEF Lists
  <2> QED BY <2>1, ClassesTyped, PastFacts
<1>8. /\ current' = current /\ at' = at /\ parent' = parent /\ uses' = uses
      /\ name_ins' = name_ins /\ waited' = waited /\ pending' = <<>> /\ upto' = upto
      /\ ins_end' = ins_end
  BY <1>1, <1>4 DEF input
<1>9. Lists'
  BY <1>1, <1>4, <1>8 DEF Lists, Typed
<1>10. \A key \in waited : Is(key[2], name_ins[key[1]])
  BY <1>1 DEF Waiting, Is
<1>11. Foreign(Past, current) => Foreign(Past', current)
  BY <1>6, Zenon DEF Foreign
<1>12. Waiting'
  <2>1. \A key \in waited : key[1] # current => Foreign(Past', current)
    BY <1>11, Zenon DEF Waiting
  <2>2. Foreign(Past', current) <=> Foreign(Past, current)'
    BY <1>8 DEF Foreign
  <2> QED BY <1>8, <1>10, <2>1, <2>2, Zenon DEF Waiting
<1>13. CASE n.base \notin Generics
  <2>1. UNCHANGED <<symbols, asked, work, defined, status>>
    BY <1>2, <1>13 DEF GenerateInstance
  <2>2. Past' = Past
    BY <1>6, <1>13
  <2>3. Typed'
    BY <1>1, <1>8, <2>1 DEF Typed
  <2>4. InScope' /\ Apart'
    BY <1>1, <1>5, <1>8, <2>1, <2>2 DEF InScope, Apart
  <2>5. Defined'
    BY <1>8, <2>1, <2>2 DEF Defined
  <2>6. Asked' /\ Elsewhere'
    BY <1>5, <1>8, <2>1, <2>2 DEF Asked, Elsewhere, Foreign
  <2> QED BY <1>9, <1>12, <2>1, <2>3, <2>4, <2>5, <2>6
<1>14. CASE n.base \in Generics /\ n \in symbols[mod]
  <2>1. UNCHANGED <<symbols, asked, work, defined>> /\ status' = "redefined"
    BY <1>2, <1>3, <1>14 DEF GenerateInstance
  <2>2. n \in Users /\ mod \in Modules
    BY <1>3, <1>4, <1>14 DEF Users, Typed
  <2>3. PICK i \in 1 .. at - 1 : n \in AllClasses[i]
    BY <1>7, <1>14, <2>2 DEF InScope
  <2>4. n \in AllClasses[at]
    BY <1>2, <1>4, <1>14, ClassFacts DEF current
  <2>5. Typed'
    BY <1>1, <1>8, <2>1 DEF Typed
  <2>6. InScope'
    <3>1. ASSUME NEW m \in Modules, NEW c \in Users
          PROVE  c \in symbols[m] <=> /\ parent[c.base] = m
                                      /\ c \in Past' \/ \E k \in 1 .. at - 1 : c \in AllClasses[k]
      BY <1>3, <1>6, <1>14, <2>3 DEF InScope
    <3> QED BY <1>5, <1>8, <2>1, <3>1 DEF InScope
  <2>7. Apart'
    <3>1. \A j, k \in 1 .. at - 1 : j # k => AllClasses[j] \cap AllClasses[k] = {}
      BY DEF Apart
    <3> QED BY <1>5, <1>8, <2>1, <2>3, <2>4, <3>1 DEF Apart
  <2>8. Defined'
    BY <1>8, <2>1 DEF Defined
  <2>9. Asked'
    BY <1>6, <1>8, <2>1 DEF Asked
  <2>10. Elsewhere'
    BY <1>5, <1>8, <2>1 DEF Elsewhere, Foreign
  <2> QED BY <1>9, <1>12, <1>14, <2>5, <2>6, <2>7, <2>8, <2>9, <2>10
<1>15. CASE n.base \in Generics /\ n \notin symbols[mod]
  <2>1. /\ symbols' = [symbols EXCEPT ![mod] = @ \cup {n}] /\ asked' = mod /\ status' = status
        /\ work' = Wires(MembersOf(n)) \o Keys(MembersOf(n))
        /\ defined' = defined \cup {<<current, n>>}
    BY <1>2, <1>3, <1>15 DEF GenerateInstance
  <2>2. n \in Users /\ mod \in Modules
    BY <1>3, <1>4, <1>15 DEF Users, Typed
  <2>3. /\ work' = WorkOf[n] /\ WorkOf[n] \in Seq(Work)
        /\ \A w \in DOMAIN WorkOf[n] :
              WorkOf[n][w].key => \E v \in DOMAIN KeysOf[n] : KeysOf[n][v] = WorkOf[n][w]
        /\ \A v \in DOMAIN KeysOf[n] : Is(KeysOf[n][v], WorkOf[n])
    BY <2>1, <2>2, WorkTyped
  <2>4. \A m \in Modules : \A c : c \in symbols'[m] <=> c \in symbols[m] \/ (m = mod /\ c = n)
    BY <2>1 DEF Typed
  <2>5. Typed'
    <3>1. symbols' \in [Modules -> SUBSET Users]
      BY <2>1, <2>2 DEF Typed
    <3>2. defined' \in SUBSET (Modules \X Users)
      BY <1>4, <2>1, <2>2 DEF Typed
    <3>3. work' \in Seq(Work)
      BY <2>3
    <3> QED BY <1>1, <1>8, <2>1, <2>2, <3>1, <3>2, <3>3 DEF Typed
  <2>6. InScope'
    <3>1. ASSUME NEW m \in Modules, NEW c \in Users
          PROVE  c \in symbols'[m] <=> /\ parent[c.base] = m
                                       /\ c \in Past' \/ \E k \in 1 .. at - 1 : c \in AllClasses[k]
      BY <1>3, <1>6, <1>15, <2>4 DEF InScope
    <3> QED BY <1>5, <1>8, <3>1 DEF InScope
  <2>7. Apart'
    <3>1. \A i \in 1 .. at - 1 : n \notin AllClasses[i]
      BY <1>3, <1>15, <2>2 DEF InScope
    <3>2. \A i \in 1 .. at - 1 : AllClasses[i] \cap Past' = {}
      BY <1>1, <1>6, <3>1 DEF Apart
    <3> QED BY <1>1, <1>5, <1>8, <2>1, <3>2 DEF Apart
  <2>8. Defined'
    <3>1. ASSUME NEW key \in defined'
          PROVE  key[1] = current /\ key[2] \in symbols'[parent[key[2].base]]
      <4>1. CASE key \in defined
        <5>1. key[2] \in Users /\ parent[key[2].base] \in Modules
          BY <4>1 DEF Typed, Users
        <5> QED BY <2>4, <4>1, <5>1 DEF Defined
      <4>2. CASE key = <<current, n>>
        BY <1>3, <2>2, <2>4, <4>2
      <4> QED BY <2>1, <4>1, <4>2
    <3>2. \A c \in Past' : <<current, c>> \in defined'
      BY <1>1, <1>6, <2>1 DEF Defined
    <3> QED BY <1>8, <3>1, <3>2 DEF Defined
  <2>9. Asked'
    BY <1>3, <1>6, <1>8, <1>15, <2>1, <2>3 DEF Asked
  <2>10. Elsewhere'
    <3>1. ASSUME NEW c \in Past', NEW e \in Work, parent[c.base] # current, Depends(c, e)
          PROVE  \/ <<parent[c.base], e.name>> \in waited
                 \/ asked' = parent[c.base] /\ Is(e, work')
      <4>1. CASE c \in Past
        <5>1. ~Is(e, work)
          BY <1>1 DEF Is
        <5> QED BY <1>1, <3>1, <4>1, <5>1 DEF Elsewhere
      <4>2. CASE c = n
        BY <1>3, <2>1, <2>3, <3>1, <4>2 DEF Depends
      <4> QED BY <1>6, <4>1, <4>2
    <3>2. \A i \in 1 .. at - 1 : ~Foreign(AllClasses[i], Order[i])
      BY DEF Elsewhere
    <3> QED BY <1>1, <1>5, <1>8, <2>1, <3>1, <3>2 DEF Elsewhere, Foreign
  <2> QED BY <1>9, <1>12, <1>15, <2>5, <2>6, <2>7, <2>8, <2>9, <2>10
<1> QED BY <1>13, <1>14, <1>15

\* A definition that is not there is one of another module, or came up too late; and where
\* all are there, no class depended on another module.
LEMMA EmitKeeps == ASSUME IInv, Emit PROVE IInv'
<1> USE DEF IInv
<1>1. /\ UNCHANGED <<input, name_ins, symbols, pending, upto>>
      /\ status = "generating" /\ pending = <<>> /\ work = <<>> /\ ins > 0 /\ ins \notin 1 .. ins_end
  BY DEF Emit, Free, Iterating
<1>2. AllClasses[at] = Past /\ ins > ins_end
  <2>1. ins > ins_end
    BY <1>1 DEF Typed
  <2> QED BY <1>1, <2>1, PastAll
<1>3. AllClasses' = AllClasses
  BY <1>1 DEF AllClasses, Classes
<1>4. current = Order[at] /\ current \in Modules /\ at \in DOMAIN Order
  BY OrderFacts DEF Typed, current
<1>5. \A key \in waited : Is(key[2], name_ins[key[1]])
  BY <1>1 DEF Waiting, Is
<1>6. waited \subseteq defined => ~Foreign(AllClasses[at], current)
  <2> SUFFICES ASSUME waited \subseteq defined,
                      NEW n \in Past, NEW e \in Work, parent[n.base] # current, Depends(n, e)
               PROVE  FALSE
    BY <1>2 DEF Foreign
  <2>1. ~Is(e, work)
    BY <1>1 DEF Is
  <2>2. <<parent[n.base], e.name>> \in defined
    BY <1>1, <2>1 DEF Elsewhere
  <2> QED BY <2>2 DEF Defined
<1>7. CASE ~(waited \subseteq defined)
  <2>1. UNCHANGED <<at, asked, work, waited, defined, ins, ins_end>> /\ status' = "unresolved"
    BY <1>7 DEF Emit
  <2>2. Past' = Past /\ current' = current
    BY <1>1, <2>1 DEF Past, current
  <2>3. Foreign(AllClasses[at], current) \/ Len(name_ins[current]) > upto[current]
    <3>1. PICK key \in waited : key \notin defined
      BY <1>7
    <3>2. CASE key[1] # current
      BY <1>2, <3>1, <3>2 DEF Waiting
    <3>3. CASE key[1] = current
      <4>1. key[2] \in Users /\ key = <<current, key[2]>>
        BY <3>1, <3>3 DEF Typed
      <4>2. key[2] \notin Past
        BY <1>1, <3>1, <4>1 DEF Defined
      <4>3. PICK k \in DOMAIN name_ins[current] : name_ins[current][k] = key[2]
        BY <1>5, <3>1, <3>3 DEF Is
      <4>4. k \notin 1 .. upto[current]
        BY <1>2, <1>4, <4>1, <4>2, <4>3, ClassFacts DEF Users
      <4>5. k \in 1 .. Len(name_ins[current]) /\ upto[current] \in Nat
            /\ Len(name_ins[current]) \in Nat
        BY <1>4, <4>3 DEF Typed
      <4> QED BY <4>4, <4>5
    <3> QED BY <3>2, <3>3
  <2>4. Typed' /\ Lists'
    BY <1>1, <2>1, <2>2 DEF Typed, Lists, input
  <2>5. InScope' /\ Apart'
    BY <1>1, <1>3, <2>1, <2>2 DEF InScope, Apart, input
  <2>6. Defined' /\ Asked'
    BY <1>1, <2>1, <2>2 DEF Defined, Asked, input
  <2>7. Waiting'
    <3>1. Foreign(Past, current)' <=> Foreign(Past, current)
      BY <1>1, <2>1, <2>2 DEF Foreign, input
    <3>2. waited' = waited /\ name_ins' = name_ins /\ asked' = asked /\ pending' = pending
      BY <1>1, <2>1
    <3> QED BY <2>2, <3>1, <3>2, Zenon DEF Waiting
  <2>8. Elsewhere'
    <3>1. /\ at' = at /\ parent' = parent /\ asked' = asked /\ waited' = waited
          /\ name_ins' = name_ins /\ upto' = upto /\ work' = work
      BY <1>1, <2>1 DEF input
    <3> QED BY <1>1, <1>3, <2>1, <2>2, <2>3, <3>1 DEF Elsewhere, Foreign
  <2> QED BY <2>4, <2>5, <2>6, <2>7, <2>8
<1>8. CASE waited \subseteq defined /\ at = Len(Order)
  <2>1. UNCHANGED <<at, asked, work, waited, defined, ins, ins_end>> /\ status' = "done"
    BY <1>8 DEF Emit
  <2>2. Past' = Past /\ current' = current
    BY <1>1, <2>1 DEF Past, current
  <2>3. Typed' /\ Lists'
    BY <1>1, <2>1, <2>2 DEF Typed, Lists, input
  <2>4. InScope' /\ Apart'
    BY <1>1, <1>2, <1>3, <2>1, <2>2 DEF InScope, Apart, input
  <2>5. Defined' /\ Asked'
    BY <1>1, <2>1, <2>2 DEF Defined, Asked, input
  <2>6. Waiting'
    <3>1. Foreign(Past, current)' <=> Foreign(Past, current)
      BY <1>1, <2>1, <2>2 DEF Foreign, input
    <3>2. waited' = waited /\ name_ins' = name_ins /\ asked' = asked /\ pending' = pending
      BY <1>1, <2>1
    <3> QED BY <2>2, <3>1, <3>2, Zenon DEF Waiting
  <2>7. Elsewhere'
    <3>1. /\ at' = at /\ parent' = parent /\ asked' = asked /\ waited' = waited
          /\ name_ins' = name_ins /\ upto' = upto /\ work' = work
      BY <1>1, <2>1 DEF input
    <3> QED BY <1>1, <1>3, <1>6, <1>8, <2>1, <2>2, <3>1 DEF Elsewhere, Foreign
  <2> QED BY <2>3, <2>4, <2>5, <2>6, <2>7
<1>9. CASE waited \subseteq defined /\ at # Len(Order)
  <2>1. /\ at' = at + 1 /\ asked' = Order[at + 1] /\ status' = status
        /\ work' = Wires(uses[Order[at + 1]]) \o Keys(uses[Order[at + 1]])
        /\ waited' = {} /\ defined' = {} /\ ins' = 0 /\ ins_end' = 0
    BY <1>9 DEF Emit, Begin
  <2>2. at' \in DOMAIN Order /\ asked' \in Modules /\ current' = asked'
    BY <1>4, <1>9, <2>1, OrderFacts DEF current
  <2>3. work' = WorkFor[uses[asked']] /\ work' \in Seq(Work)
    BY <2>1, <2>2, WorkForTyped DEF Typed
  <2>4. Past' = {}
    BY <2>1 DEF Past
  <2>5. \A i : i \in 1 .. at' - 1 <=> i \in 1 .. at - 1 \/ i = at
    BY <1>4, <2>1, OrderFacts
  <2>6. Typed'
    BY <1>1, <2>1, <2>2, <2>3 DEF Typed, input
  <2>7. Lists'
    BY <1>1, <2>1 DEF Lists
  <2>8. InScope'
    <3>1. ASSUME NEW m \in Modules, NEW c \in Users
          PROVE  c \in symbols[m] <=> /\ parent[c.base] = m
                                      /\ \E i \in 1 .. at' - 1 : c \in AllClasses[i]
      BY <1>2, <2>5 DEF InScope
    <3> QED BY <1>1, <1>3, <2>4, <3>1 DEF InScope, input
  <2>9. Apart'
    <3>1. \A i \in 1 .. at - 1 : AllClasses[i] \cap AllClasses[at] = {}
      BY <1>1, <1>2 DEF Apart
    <3>2. \A i, j \in 1 .. at' - 1 : i # j => AllClasses[i] \cap AllClasses[j] = {}
      BY <2>5, <3>1 DEF Apart
    <3> QED BY <1>1, <1>3, <2>1, <2>4, <3>2 DEF Apart
  <2>10. Defined' /\ Asked'
    BY <2>1, <2>2, <2>4 DEF Defined, Asked
  <2>11. Waiting'
    BY <2>1, Zenon DEF Waiting
  <2>12. Elsewhere'
    <3>1. \A i \in 1 .. at' - 1 : ~Foreign(AllClasses[i], Order[i])
      BY <1>4, <1>6, <1>9, <2>5 DEF Elsewhere
    <3>2. parent' = parent
      BY <1>1 DEF input
    <3> QED BY <1>1, <1>3, <2>1, <2>4, <3>1, <3>2 DEF Elsewhere, Foreign
  <2> QED BY <2>6, <2>7, <2>8, <2>9, <2>10, <2>11, <2>12
<1> QED BY <1>7, <1>8, <1>9

----------------------------------------------------------------------------
\* The results.

\* Each step keeps the invariant.
THEOREM Invariance == Spec => []IInv
<1>1. Init => IInv
  BY Starts
<1>2. IInv /\ [Next]_vars => IInv'
  <2> SUFFICES ASSUME IInv, [Next]_vars PROVE IInv'
    OBVIOUS
  <2>1. CASE create_or_get_instantiation  BY <2>1, AskKeeps
  <2>2. CASE GoThrough  BY <2>2, GoThroughKeeps
  <2>3. CASE StartInstances  BY <2>3, StartKeeps
  <2>4. CASE GenerateInstance  BY <2>4, GenerateKeeps
  <2>5. CASE Emit  BY <2>5, EmitKeeps
  <2>6. CASE UNCHANGED vars
    <3>1. AllClasses' = AllClasses /\ Past' = Past /\ current' = current
      BY <2>6 DEF vars, AllClasses, Classes, Past, current
    <3>2. (Typed /\ Lists /\ InScope /\ Apart)'
      BY <2>6, <3>1 DEF vars, IInv, Typed, Lists, InScope, Apart
    <3>3. (Defined /\ Asked /\ Elsewhere)'
      BY <2>6, <3>1 DEF vars, IInv, Defined, Asked, Elsewhere, Foreign
    <3>4. Waiting'
      <4>1. Foreign(Past, current)' <=> Foreign(Past, current)
        BY <2>6, <3>1 DEF vars, Foreign
      <4>2. /\ waited' = waited /\ name_ins' = name_ins /\ asked' = asked /\ pending' = pending
            /\ Waiting
        BY <2>6 DEF vars, IInv
      <4> QED BY <3>1, <4>1, <4>2, Zenon DEF Waiting
    <3> QED BY <3>2, <3>3, <3>4 DEF IInv
  <2> QED BY <2>1, <2>2, <2>3, <2>4, <2>5, <2>6 DEF Next
<1> QED BY <1>1, <1>2, PTL DEF Spec

\* module::create_or_get_instantiation puts an instance into a list once, and generic_gen
\* puts a class into the scope of the module that has its generic.
THEOREM ListsTyped == Spec => []TypeOK
<1>1. IInv => TypeOK
  <2> SUFFICES ASSUME IInv PROVE TypeOK
    OBVIOUS
  <2>1. ASSUME NEW m \in Modules
        PROVE  /\ name_ins[m] \in Seq({n \in Names : IsInstance(n)})
               /\ \A i, j \in DOMAIN name_ins[m] : name_ins[m][i] = name_ins[m][j] => i = j
               /\ upto[m] \in 0 .. Len(name_ins[m])
    BY DEF IInv, Typed, Lists, Inst
  <2>2. \A m \in Modules : \A n \in symbols[m] : parent[n.base] = m
    BY DEF IInv, Typed, InScope
  <2>3. ins_end \in {0, upto[current]} /\ ins \in 0 .. ins_end + 1
    BY DEF IInv, Typed, Lists
  <2> QED BY <2>1, <2>2, <2>3 DEF IInv, Typed, Defined, TypeOK
<1> QED BY <1>1, Invariance, PTL

\* generic_gen::do_generate throws for a name that is taken only where a module before this
\* one was asked for an instance of this one's.
THEOREM RedefinedWhenShared == Spec => []RedefinedIfShared
<1>1. IInv => RedefinedIfShared
  <2> SUFFICES ASSUME IInv PROVE RedefinedIfShared
    OBVIOUS
  <2>1. at \in 1 .. Len(Order) /\ Len(Order) \in Nat
    BY OrderFacts DEF IInv, Typed
  <2>2. \A i \in 1 .. at : i \in DOMAIN Order /\ AllClasses[i] = Classes(i)
    BY <2>1, OrderFacts, ClassFacts
  <2>3. \A i \in 1 .. at - 1 : i \in 1 .. at /\ AllClasses[i] = Classes(i)
    BY <2>1, <2>2
  <2>4. at \in 1 .. at /\ AllClasses[at] = Classes(at)
    BY <2>1, <2>2
  <2>5. status = "redefined" => \E i \in 1 .. at - 1 : Classes(i) \cap Classes(at) # {}
    BY <2>3, <2>4, Zenon DEF IInv, Apart
  <2>6. \A i, j \in 1 .. at - 1 : i # j => Classes(i) \cap Classes(j) = {}
    BY <2>3, Zenon DEF IInv, Apart
  <2>7. status = "done" => \A i \in 1 .. at - 1 : Classes(i) \cap Classes(at) = {}
    <3> SUFFICES ASSUME status = "done", NEW i \in 1 .. at - 1
                 PROVE  Classes(i) \cap Classes(at) = {}
      OBVIOUS
    <3>1. ins > ins_end /\ ins > 0
      BY DEF IInv, Apart, Typed
    <3>2. AllClasses[at] = Past
      BY <3>1, PastAll DEF IInv
    <3>3. AllClasses[i] \cap AllClasses[at] = {}
      BY <3>2 DEF IInv, Apart
    <3> QED BY <2>3, <2>4, <3>3, Zenon
  <2> QED BY <2>5, <2>6, <2>7, Zenon DEF RedefinedIfShared
<1> QED BY <1>1, Invariance, PTL

\* emitter::emit finds a definition missing only for a class that depends on what its
\* generic's own module was asked for, or for an instance that came up late; and a module
\* that has such a class is never emitted.
THEOREM UnresolvedWhenElsewhere == Spec => []UnresolvedIfElsewhere
<1>1. IInv => UnresolvedIfElsewhere
  <2> SUFFICES ASSUME IInv PROVE UnresolvedIfElsewhere
    OBVIOUS
  <2>1. at \in 1 .. Len(Order) /\ Len(Order) \in Nat
    BY OrderFacts DEF IInv, Typed
  <2>2. ASSUME NEW i \in 1 .. at PROVE WaitsElsewhere(i) <=> Foreign(AllClasses[i], Order[i])
    <3>1. i \in DOMAIN Order /\ AllClasses[i] = Classes(i) /\ AllClasses[i] \subseteq Users
      BY <2>1, <2>2, OrderFacts, ClassFacts, ClassesTyped DEF IInv
    <3>2. ASSUME NEW n \in Users
          PROVE  (\E w \in DOMAIN Keys(MembersOf(n)) : Keys(MembersOf(n))[w].name.base \in Generics)
                    <=> \E e \in Work : Depends(n, e)
      <4>1. KeysOf[n] = Keys(MembersOf(n)) /\ KeysOf[n] \in Seq([name : Names, key : {TRUE}])
        BY KeysTyped
      <4>2. [name : Names, key : {TRUE}] \subseteq Work
        BY DEF Work
      <4>3. \A w \in DOMAIN KeysOf[n] : KeysOf[n][w] \in Work
        <5>1. PICK ks \in Seq([name : Names, key : {TRUE}]) : ks = KeysOf[n]
          BY <4>1, Zenon
        <5>2. \A w \in DOMAIN ks : ks[w] \in [name : Names, key : {TRUE}]
          BY LenProperties
        <5> QED BY <4>2, <5>1, <5>2, Zenon
      <4>4. (\E w \in DOMAIN KeysOf[n] : KeysOf[n][w].name.base \in Generics)
               <=> \E e \in Work : Depends(n, e)
        BY <4>3 DEF Depends
      <4> QED BY <4>1, <4>4, Zenon
    <3>3. WaitsElsewhere(i) <=> \E n \in AllClasses[i] : /\ parent[n.base] # Order[i]
                                                         /\ \E e \in Work : Depends(n, e)
      BY <3>1, <3>2, Zenon DEF WaitsElsewhere
    <3> QED BY <3>3, Zenon DEF Foreign
  <2>3. at \in 1 .. at /\ \A i \in 1 .. at - 1 : i \in 1 .. at
    BY <2>1
  <2>4. status = "unresolved" => WaitsElsewhere(at) \/ Len(name_ins[current]) > upto[current]
    BY <2>2, <2>3, Zenon DEF IInv, Elsewhere, current
  <2>5. \A i \in 1 .. at - 1 : ~WaitsElsewhere(i)
    BY <2>2, <2>3, Zenon DEF IInv, Elsewhere
  <2>6. status = "done" => ~WaitsElsewhere(at)
    BY <2>2, <2>3, Zenon DEF IInv, Elsewhere, current
  <2> QED BY <2>4, <2>5, <2>6, Zenon DEF UnresolvedIfElsewhere
<1> QED BY <1>1, Invariance, PTL
=============================================================================
