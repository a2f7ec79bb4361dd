------------------------------ MODULE WireFormat ------------------------------
(***************************************************************************)
(* A message that is written object by object by the run time of one       *)
(* language, or at once by yaml2lidl, and read by all of them.             *)
(*                                                                         *)
(* An object is known by its type, its place and its value, in which the   *)
(* objects pointed to are values, too.                                     *)
(***************************************************************************)
EXTENDS RunTimes

CONSTANTS
    Types,       \* the types of the objects written by the run times
    Converted,   \* the types of the messages written by yaml2lidl
    Scalars,     \* the first bytes of the values of numbers
    Strings,     \* the values of strings
    Capacity,    \* the bytes of the memory
    MaxObjects,  \* how many objects a message has
    MaxLength    \* how many elements a vector has

ASSUME WireAssumption == Capacity \in 1 .. 32767 /\ MaxObjects \in Nat

VARIABLES
    writer,      \* who writes the message
    memory,      \* the bytes it is written to
    cursor,      \* how many of them are allocated: the message
    objects,     \* the objects created, in order
    status       \* "writing", or what stopped the writer
vars == <<writer, memory, cursor, objects, status>>

Languages == {"cpp", "js", "py"}
message   == SubSeq(memory, 1, cursor)

\* Where the objects are.
Places == [i \in DOMAIN objects |-> objects[i].at]

------------------------------------------------------------------------------
(***************************************************************************)
(* Values: v as it is given to a run time, with the number of an object    *)
(* for a pointer to it (to yaml2lidl, what it points to), and what it means.*)
(***************************************************************************)
RECURSIVE Values(_)
Values(t) ==
    CASE t.kind = "number" -> {[k \in 1 .. SizeOf(t) |-> s + k - 1] : s \in Scalars}
      [] t.kind = "enum"   -> {<<n>> : n \in 0 .. t.inherited + t.own - 1}
      [] t.kind = "bool"   -> BOOLEAN
      [] t.kind = "string" -> Strings
      [] t.kind = "ptr"    ->
            IF writer = "tool" THEN Values(t.of)
                               ELSE {i \in DOMAIN objects : objects[i].type = t.of}
      [] t.kind = "vector" -> UNION {[1 .. n -> Values(WireType(t.of))] : n \in 0 .. MaxLength}
      [] t.kind = "array"  -> [1 .. t.len -> Values(WireType(t.of))]
      [] t.kind = "struct" ->
            FoldLeft(LAMBDA vs, m : {Append(v, w) : v \in vs, w \in Values(WireType(m))},
                     {<<>>}, t.members)
      [] t.kind = "union"  ->
            UNION {{<<i, v>> : v \in Values(WireType(t.members[i]))} : i \in DOMAIN t.members}

RECURSIVE Meaning(_, _)
Meaning(t, v) ==
    CASE writer = "tool" -> v
      [] t.kind = "ptr"  -> objects[v].value
      [] t.kind \in {"vector", "array"} ->
            [i \in DOMAIN v |-> Meaning(WireType(t.of), v[i])]
      [] t.kind = "struct" ->
            [i \in DOMAIN v |-> Meaning(WireType(t.members[i]), v[i])]
      [] t.kind = "union" -> <<v[1], Meaning(WireType(t.members[v[1]]), v[2])>>
      [] OTHER -> v

\* The references that t is made of are pointers by name, not wire types of
\* what is written without one.
Explicit(t) ==
    \A u \in Parts(t) :
        /\ u.kind \in {"vector", "array"} => WireType(u.of) = u.of
        /\ u.kind \in {"struct", "union"} =>
               \A i \in DOMAIN u.members : WireType(u.members[i]) = u.members[i]

\* The type is one the generated code of l can fill in: yaml2lidl's writers are
\* for all types, JavaScript has no way to create vectors and unions and none to
\* set a member that is a string, Python none to set the elements of a vector of
\* references or a bool.
Creatable(l, t) ==
    \A u \in Parts(t) :
        CASE l = "js" -> Explicit(u) /\ u.kind \notin {"vector", "union"}
          [] l = "py" -> /\ u.kind # "bool"
                         /\ u.kind = "vector" => ~IsReference(u.of)
          [] OTHER    -> TRUE

------------------------------------------------------------------------------
(***************************************************************************)
(* Allocation of n bytes: where they are, how much is used then, and what  *)
(* became of it.                                                           *)
(***************************************************************************)
Room(p, n, needed) == [at |-> p, end |-> p + n,
                       outcome |-> IF p + needed > Capacity THEN "full" ELSE "writing"]

\* message_builder::allocate
CppAllocate(from, n, a) == Room(AlignUp(from, a), n, n)

\* JavaScript moves on even when there is no room, and finds out when it sets the
\* bytes of which it uses a part.
JsAllocate(from, n, a, used) == Room(AlignUp(from, a), n, used)

\* Python makes the memory that is left one byte long to skip one byte, and
\* begins where it began: the loop never ends.
PyAllocate(from, n, a) ==
    IF from % a = 0 THEN Room(from, n, n) ELSE [at |-> from, end |-> from, outcome |-> "hung"]

Allocate(from, n, a, used) ==
    CASE writer = "cpp" -> CppAllocate(from, n, a)
      [] writer = "js"  -> JsAllocate(from, n, a, used)
      [] writer = "py"  -> PyAllocate(from, n, a)

\* The bytes of an object of type t up to its trailing padding.
RECURSIVE Extent(_)
Extent(t) ==
    IF t.kind = "struct"
    THEN Max({0} \cup {OffsetOf(t, i) + Extent(WireType(t.members[i])) : i \in DOMAIN t.members})
    ELSE SizeOf(t)

\* The alignment that the run times ask for an object of type t.
Asked(t) == IF writer = "py" THEN 1 ELSE AlignOf(t)

Init ==
    /\ writer \in Languages \cup {"tool"}
    /\ memory = [k \in 1 .. Capacity |-> 204]
    /\ cursor = 0
    /\ objects = <<>>
    /\ status = "writing"

\* An object at a.at, whose bytes are in mem now.
Created(a, t, v, mem) ==
    /\ status' = a.outcome
    /\ IF a.outcome = "writing"
       THEN /\ memory' = mem
            /\ cursor' = a.end
            /\ objects' = Append(objects, [type |-> t, at |-> a.at, value |-> Meaning(t, v)])
       ELSE UNCHANGED <<memory, cursor, objects>>
    /\ UNCHANGED writer

Writing == status = "writing" /\ writer \in Languages /\ Len(objects) < MaxObjects

\* How long JavaScript takes a string for: the UTF-16 units of its characters,
\* here those that are one byte or two bytes of UTF-8.
Units(v) == Cardinality({k \in DOMAIN v : v[k] \notin 128 .. 191})

\* create_string, String.create: the length and then the bytes.
CreateString(v) ==
    LET a == Allocate(cursor, 2 + Len(v), 2, 2 + Len(v))
    IN /\ Writing
       /\ String \in Types
       /\ IF writer = "js" /\ Units(v) # Len(v)
          THEN /\ status' = "RangeError"
               /\ UNCHANGED <<writer, memory, cursor, objects>>
          ELSE Created(a, String, v, Patch(memory, a.at, Int16Bytes(Len(v)) \o v))

\* create of a struct, a union, an array, a number or a pointer.
CreateFixed(t) ==
    LET a == Allocate(cursor, SizeOf(t), Asked(t), Extent(t))
    IN /\ Writing
       /\ t.kind \notin {"string", "vector"}
       /\ Creatable(writer, t)
       /\ \E v \in Values(t) : Created(a, t, v, Written(memory, Places, t, a.at, v))

\* create_vector, Vector.create: the length and the elements are allocated one
\* after the other.  Python aligns elements to their size.
PlaceVector(t, v) ==
    LET e    == WireType(t.of)
        size == SizeOf(e) * Len(v)
        head == Allocate(cursor, 2, Asked(t), 2)
        body == Allocate(head.end, size,
                         IF writer = "py" THEN SizeOf(e) ELSE AlignOf(e), size)
    IN [at      |-> head.at,
        data    |-> VectorData(writer, t.of, head.at),
        end     |-> body.end,
        outcome |->
            CASE head.outcome # "writing" -> head.outcome
              [] body.outcome # "writing" -> body.outcome
              [] VectorData(writer, t.of, head.at) + size > Capacity -> "full"
              [] OTHER -> "writing"]

CreateVector(t) ==
    /\ Writing
    /\ t.kind = "vector"
    /\ Creatable(writer, t)
    /\ \E v \in Values(t) :
          LET a == PlaceVector(t, v)
          IN Created(a, t, v, Written(Patch(memory, a.at, Int16Bytes(Len(v))), Places,
                                      Array(t.of, Len(v)), a.data, v))

\* yaml2lidl: the root and what it is made of, in a file of its own.
Convert(t) ==
    /\ status = "writing" /\ writer = "tool" /\ objects = <<>>
    /\ \E v \in Values(t) :
          LET w == yaml2bin(t, v, Empty)
          IN /\ tell(w) <= Capacity
             /\ Created([at |-> w.pos, end |-> tell(w),
                         outcome |-> IF w.error = "" THEN "writing" ELSE w.error],
                        t, v, Patch(memory, 0, w.out))

Stopped == status # "writing" \/ Len(objects) = IF writer = "tool" THEN 1 ELSE MaxObjects

Next ==
    \/ \E v \in Strings : CreateString(v)
    \/ \E t \in Types : CreateFixed(t) \/ CreateVector(t)
    \/ \E t \in Converted : Convert(t)
    \/ Stopped /\ UNCHANGED vars

Spec == Init /\ [][Next]_vars

------------------------------------------------------------------------------
\* The message is all there: what JavaScript leaves out of a full one is the
\* padding at its end.
Whole == cursor <= Capacity

\* What a reader makes of an object in the message.
Reading(l, o) ==
    IF l = "tool" THEN bin2yaml(o.type, message, o.at)
                  ELSE Read(l, o.type, message, o.at, SizeOf(o.type))

\* The vectors that Python puts and finds where C++ does, and that JavaScript
\* cuts up right, whatever their place: those of elements of one or two bytes.
SmallVectors(t) ==
    \A u \in Parts(t) : u.kind = "vector" => SizeOf(WireType(u.of)) <= 2

\* What the compiler's own types write: not bools, nor inherited alternatives,
\* nor references to what is a reference itself.
ToolWrites(t) ==
    \A u \in Parts(t) :
        /\ u.kind # "bool"
        /\ u.kind = "ptr" => ~IsReference(u.of)
        /\ Explicit(u)
        /\ u.kind = "union" => u.inherited = 0

\* The unions whose alternatives the compiler's own types align as the run times
\* do: like the union, and not each in its own way.
EvenUnions(t) ==
    \A u \in Parts(t) : u.kind = "union" =>
        \A i \in DOMAIN u.members : AlignOf(WireType(u.members[i])) = AlignOf(u)

\* What the reader l makes out, of what the writer w wrote.
Understood(l, w, t) ==
    /\ w = "tool" => ToolWrites(t)
    /\ (w = "tool") # (l = "tool") => EvenUnions(t)
    /\ w = "py" \/ l \in {"py", "js"} => SmallVectors(t)
    /\ l \in {"js", "tool"} => Explicit(t)
    /\ \A u \in Parts(t) :
          CASE l = "js"   -> u.kind # "union"
            [] l = "tool" -> /\ u.kind # "array" /\ (u.kind = "ptr" => ~IsReference(u.of))
                             /\ u.kind = "enum" => u.inherited = 0
            [] OTHER      -> TRUE

\* JavaScript takes two bytes for each element of a vector of bytes, which may
\* be more than there are.
TooLong(l, t) ==
    l = "js" /\ \E u \in Parts(t) : u.kind = "vector" /\ SizeOf(u.of) = 1

\* Every object created so far is read back with the value that was written, by
\* the run time of every language that understands its type.
ReadBack ==
    Whole => \A i \in DOMAIN objects : \A l \in Languages \cup {"tool"} :
        Understood(l, writer, objects[i].type) =>
            \/ Reading(l, objects[i]) = Got(objects[i].value)
            \/ TooLong(l, objects[i].type) /\ Reading(l, objects[i]) = Fails("RangeError")

\* A message ends with its root: what a service, Python's client and bin2yaml
\* look for as many bytes before the end as the root's type has.  The files of
\* yaml2lidl do, unless a union in them holds less than it has room for.
RootAtEnd ==
    LET o == objects[Len(objects)]
        Full(u) == u.kind = "union" =>
            \A i \in DOMAIN u.members :
                ValueOffset(u) + SizeOf(WireType(u.members[i])) = SizeOf(u)
    IN Whole /\ objects # <<>> =>
          \/ o.type.kind \in {"string", "vector"}
          \/ writer = "tool" /\ ~(ToolWrites(o.type) /\ \A u \in Parts(o.type) : Full(u))
          \/ /\ o.at + SizeOf(o.type) = Len(message)
             /\ Understood("tool", writer, o.type) /\ ~IsReference(o.type) =>
                    ReadRoot(o.type, message) = Got(o.value)
=============================================================================
