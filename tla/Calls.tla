--------------------------------- MODULE Calls ---------------------------------
(***************************************************************************)
(* A remote procedure call through the generated stubs and the C++ run     *)
(* time.  A user, or the implementation of a service that relays to        *)
(* another one, calls a client.  A stub client marshals the arguments,     *)
(* sends them through local_transport to a union_caller, and relocates the *)
(* answer into the response_builder it was given; a zero-copy client calls *)
(* the implementation behind it directly.  Everything is synchronous: the  *)
(* frames form a stack.                                                    *)
(*                                                                         *)
(* Buffers are sequences of bytes; a byte knows what was written there, so *)
(* an object that is read at a wrong place is seen to be wrong.  Buffers   *)
(* start aligned, hence offsets stand for addresses.                       *)
(***************************************************************************)
EXTENDS Bytes, Sequences

CONSTANTS
    Procs,      \* the procedures, one for each return type: see Returns
    Args,       \* what a caller passes: naturals
    Count,      \* how many elements the strings and vectors returned have
    Junk,       \* lengths of the strings user code may create beforehand
    Depth,      \* bound on the frames: how often services relay
    Capacity,   \* size of every buffer (1024 in local_transport)
    MaxCalls    \* bound on the calls of the user

\* A procedure returns a value, a view, or a reference to a string, to a vector of
\* four-byte elements, to a struct with a string member, to a vector of strings.
References == {"string", "vector", "struct", "strings"}
Returns    == {"value", "view"} \union References

ASSUME CallsAssumption ==
    /\ Procs \subseteq Returns
    /\ Args \subseteq Nat
    /\ Junk \subseteq Nat \ {0}
    /\ Count \in Nat \ {0}
    /\ Depth \in Nat \ {0} /\ Capacity \in Nat /\ MaxCalls \in Nat

VARIABLES
    pc,         \* what the code of the topmost frame is about to do
    frames,     \* the calls in progress, the user's own code first
    call,       \* what the user called: [proc, arg]
    result,     \* what the topmost frame returns, see Result
    moved,      \* how stubs displaced the references they returned to this call
    calls       \* how many calls the user has made

vars == <<pc, frames, call, result, moved, calls>>

------------------------------------------------------------------------------
(* Bytes.                                                                  *)

Byte(what, n) == <<what, n>>
Pad           == Byte("pad", 0)
Word(what, n) == <<Byte(what, n), Byte("high", n)>>      \* 16 bits

\* allocate(_, a) skips these bytes; the objects that follow are appended.
Aligned(m, a) == m \o SubSeq(<<Pad, Pad, Pad>>, 1, (0 - Len(m)) % a)
End(m)        == AlignUp(Len(m), 2)     \* where the next header, ptr or union goes

\* n elements of the given size, as the implementation makes them from argument a.
Data(a, n, size) == [i \in 1 .. n * size |-> Byte("data", <<a, i>>)]

\* create_string, create_vector and create<a struct of one ptr> append to m.
WithString(m, s)    == Aligned(m, 2) \o Word("len", Len(s)) \o s
WithVector(m, n, s) == Aligned(Aligned(m, 2) \o Word("len", n), 4) \o s
WithPtr(m, to)      == Aligned(m, 2) \o Word("ptr", End(m) - to)

\* What is not there, or not what was expected there, reads as garbage.
Garbage == <<Byte("garbage", 0)>>
IsWord(m, p, what) == /\ p >= 0 /\ p + 2 <= Len(m)
                      /\ m[p + 1][1] = what
                      /\ m[p + 2] = Byte("high", m[p + 1][2])
Slice(m, p, n) == IF p >= 0 /\ p + n <= Len(m) THEN SubSeq(m, p + 1, p + n) ELSE Garbage

\* ptr::unsafe().get(), string::string_view() and vector::span().
Target(m, p)     == p - m[p + 1][2]
StringAt(m, p)   == IF IsWord(m, p, "len") THEN Slice(m, p + 2, m[p + 1][2]) ELSE Garbage
VectorData(p)    == AlignUp(p + 2, 4)
VectorAt(m, p)   == IF IsWord(m, p, "len")
                    THEN Slice(m, VectorData(p), 4 * m[p + 1][2]) ELSE Garbage
PointedAt(m, p)  == IF IsWord(m, p, "ptr") THEN StringAt(m, Target(m, p)) ELSE Garbage
StringsAt(m, p)  == IF IsWord(m, p, "len")
                    THEN [i \in 1 .. m[p + 1][2] |-> PointedAt(m, p + 2 * i)] ELSE Garbage

\* What the object at p says to one who takes it for a T.
Read(m, p, T) == CASE T = "string"  -> StringAt(m, p)
                   [] T = "vector"  -> VectorAt(m, p)
                   [] T = "struct"  -> PointedAt(m, p)
                   [] T = "strings" -> StringsAt(m, p)

\* A call or return union: the number of the alternative, then the struct of the
\* parameters or the results; one that contains references is referred to itself.
UnionSize == 4
Root(m)   == Len(m) - UnionSize          \* get_root
Held(m)   == Target(m, Root(m) + 2)
WithUnion(m, f, payload) == Aligned(m, 2) \o <<Byte("alternative", f), Pad>> \o payload
PtrUnion(m, f, to)       == WithUnion(m, f, Word("ptr", End(m) + 2 - to))

------------------------------------------------------------------------------
(* Frames.                                                                 *)

\* The user's code, or an implementation and how it was called; the bytes of the
\* arguments and, unless the call was a direct one, those of the response builder.
Frame(via, f, a, request) ==
    [via |-> via, proc |-> f, arg |-> a, request |-> request, response |-> <<>>]

Top == Len(frames)

\* A zero-copy client passes on the builder it was given: it is that of the last
\* frame that a message or the user made.
Owner(fs) == CHOOSE i \in 1 .. Len(fs) :
                 /\ fs[i].via # "direct"
                 /\ \A j \in i + 1 .. Len(fs) : fs[j].via = "direct"
Builder(fs)       == fs[Owner(fs)].response
Built(fs, m)      == [fs EXCEPT ![Owner(fs)].response = m]
Pop(fs)           == SubSeq(fs, 1, Len(fs) - 1)

\* Where a result is: a value, a view of n bytes, or the place of an object.
Value(v)             == [at |-> "value", val |-> v]
View(at, i, p, n)    == [at |-> at, frame |-> i, pos |-> p, len |-> n]
Reference(i, p)      == [at |-> "object", frame |-> i, pos |-> p]
Nothing              == [at |-> "nothing"]

\* What a result says in these frames; the buffers of those that ended are gone.
Says(fs, r, f) ==
    CASE r.at = "value"  -> r.val
      [] r.at = "nothing" -> Garbage
      [] r.at \notin {"value", "nothing"} /\ r.frame > Len(fs) -> Garbage
      [] r.at = "request"  /\ r.frame <= Len(fs) ->
             Slice(fs[r.frame].request, r.pos, r.len)
      [] r.at = "response" /\ r.frame <= Len(fs) ->
             Slice(fs[r.frame].response, r.pos, r.len)
      [] r.at = "object"   /\ r.frame <= Len(fs) ->
             Read(fs[r.frame].response, r.pos, f)

Init == /\ pc = "user"
        /\ frames = <<Frame("user", "none", 0, <<>>)>>
        /\ call = [proc |-> "none", arg |-> 0]
        /\ result = Nothing
        /\ moved = {}
        /\ calls = 0

\* Mutant of Store: allocate does not look at the capacity.
StoreUnchecked(fs, m, next) == pc' = next /\ frames' = Built(fs, m)

\* The step ends with m in the builder of the topmost of the frames fs; if that does
\* not fit, the program spins, or has written behind the buffer.
Store(fs, m, next) ==
    IF Len(m) <= Capacity THEN pc' = next /\ frames' = Built(fs, m)
                          ELSE pc' = "overflow" /\ UNCHANGED frames

------------------------------------------------------------------------------
(* The client.                                                             *)

\* User code creates an object of its own in a new builder before it goes on.
Prepare(n) ==
    /\ pc \in {"user", "running"}
    /\ Builder(frames) = <<>>
    /\ Store(frames, WithString(<<>>, [i \in 1 .. n |-> Byte("junk", i)]), pc)
    /\ UNCHANGED <<call, result, moved, calls>>

\* The user starts over with a new builder.
Renew == /\ pc = "user"
         /\ Builder(frames) # <<>>
         /\ frames' = Built(frames, <<>>)
         /\ result' = Nothing
         /\ UNCHANGED <<pc, call, moved, calls>>

\* The message of a stub: the string, the parameters that refer to it, and last the
\* union that refers to these.
Request(f, a) == LET s == WithString(<<>>, Data(a, 1, 1))
                 IN  PtrUnion(WithPtr(s, 0), f, End(s))

\* A stub client: get_buffer, transform_call, send_receive.
CallStub(f, a) ==
    LET m == Request(f, a)
    IN  IF Len(m) <= Capacity
        THEN pc' = "sent" /\ frames' = Append(frames, Frame("stub", "none", 0, m))
        ELSE pc' = "overflow" /\ UNCHANGED frames

\* A zero-copy client: the translator with the index of f invokes it on the
\* addresses of the caller's arguments.
CallDirect(f, a) == /\ pc' = "running"
                    /\ frames' = Append(frames, Frame("direct", f, a, <<>>))

CallClient(f, a) == /\ Top < Depth
                    /\ CallStub(f, a) \/ CallDirect(f, a)

\* The user calls, and keeps what it passes until the call has returned.
UserCalls(f, a) ==
    /\ pc = "user" /\ calls < MaxCalls
    /\ CallClient(f, a)
    /\ call' = [proc |-> f, arg |-> a]
    /\ result' = Nothing
    /\ moved' = {}
    /\ calls' = calls + 1

\* An implementation calls the next service with what it was called with.
Relay == /\ pc = "running"
         /\ CallClient(frames[Top].proc, frames[Top].arg)
         /\ UNCHANGED <<call, result, moved, calls>>

------------------------------------------------------------------------------
(* The server.                                                             *)

\* request_handler and the head of union_caller: the alternative of the root picks
\* the procedure, its parameters are passed on, the response builder is new.
Serve ==
    LET m == frames[Top].request
        s == PointedAt(m, Held(m))
    IN  /\ pc = "sent"
        /\ frames' = [frames EXCEPT ![Top].proc = m[Root(m) + 1][2],
                                    ![Top].arg  = s[1][2][1]]
        /\ pc' = "running"
        /\ UNCHANGED <<call, result, moved, calls>>

\* Where the argument is that an implementation sees as a string_view.
Argument == LET i == Owner(frames)
                m == frames[i].request
            IN  IF i = 1 THEN Value(Data(call.arg, 1, 1))
                         ELSE View("request", i, Target(m, Held(m)) + 2, 1)

\* Count strings of one byte, four bytes apart, and the vector that refers to each.
Strings(m, a) ==
    LET each   == Word("len", 1) \o Data(a, 1, 1) \o <<Pad>>
        to(i)  == Word("ptr", 4 * Count + 2 * i - 4 * (i - 1))
    IN  Aligned(m, 2) \o [k \in 1 .. 4 * Count |-> each[((k - 1) % 4) + 1]]
                      \o Word("len", Count)
                      \o [k \in 1 .. 2 * Count |-> to((k + 1) \div 2)[((k - 1) % 2) + 1]]

\* What the implementation of f creates in its builder m, the object it returns last.
Answered(m, f, a) ==
    CASE f = "string"  -> WithString(m, Data(a, Count, 1))
      [] f = "vector"  -> WithVector(m, Count, Data(a, Count, 4))
      [] f = "struct"  -> WithPtr(WithString(m, Data(a, Count, 1)), End(m))
      [] f = "strings" -> Strings(m, a)

\* Where that object is.
Place(m, f) == CASE f \in {"string", "vector"} -> End(m)
                 [] f = "struct"  -> End(WithString(m, Data(0, Count, 1)))
                 [] f = "strings" -> End(m) + 4 * Count

\* The implementation computes its answer.  A value is returned as such, a view is
\* one of its argument, what a reference refers to is in its response builder.
Implement ==
    LET f == frames[Top].proc
        a == frames[Top].arg
        m == Builder(frames)
    IN  /\ pc = "running"
        /\ CASE f = "value" -> /\ result' = Value(Data(a, 1, 1))
                               /\ pc' = "returning" /\ UNCHANGED frames
             [] f = "view"  -> /\ result' = Argument
                               /\ pc' = "returning" /\ UNCHANGED frames
             [] f \in References ->
                               /\ result' = Reference(Owner(frames), Place(m, f))
                               /\ Store(frames, Answered(m, f, a), "returning")
        /\ UNCHANGED <<call, moved, calls>>

\* The tail of union_caller: a view is copied into the response, the results struct
\* refers to what is returned, and the union that refers to it comes last.
Response(m, f, r, said) ==
    CASE f = "value"      -> WithUnion(m, f, said \o <<Pad>>)
      [] f = "view"       -> LET s == WithString(m, said)
                             IN  PtrUnion(WithPtr(s, End(m)), f, End(s))
      [] f \in References -> PtrUnion(WithPtr(m, r.pos), f, End(m))

Respond == LET f == frames[Top].proc
           IN  /\ pc = "returning" /\ frames[Top].via = "stub"
               /\ Store(frames,
                        Response(Builder(frames), f, result, Says(frames, result, f)),
                        "responded")
               /\ UNCHANGED <<call, result, moved, calls>>

------------------------------------------------------------------------------
(* The way back.                                                           *)

\* find_extent: from the lowest to the highest byte of an object and its parts; the
\* elements of a vector of references are not looked at.
Extent(m, p, T) ==
    CASE T = "string"  -> [begin |-> p, end |-> p + 2 + m[p + 1][2]]
      [] T = "vector"  -> [begin |-> p, end |-> VectorData(p) + 4 * m[p + 1][2]]
      [] T = "strings" -> [begin |-> p, end |-> p + 2 + 2 * m[p + 1][2]]
      [] T = "struct"  -> [begin |-> Target(m, p), end |-> p + 2]

\* Whether there is an object to be relocated; otherwise it was displaced before.
Found(m, p, T) ==
    /\ IsWord(m, p, IF T = "struct" THEN "ptr" ELSE "len")
    /\ LET e == Extent(m, p, T)
       IN  0 <= e.begin /\ e.begin <= e.end /\ e.end <= Len(m)

\* allocate(extent.size, 1) and the memcpy of the extent.
Relocated(m, e, source) == m \o SubSeq(source, e.begin + 1, e.end)

\* What becomes of a reference on its way: the builder was not empty, and the position
\* in the extent is taken from the start of the buffer; a vector finds its elements at
\* another distance; the strings of a vector were left behind.
Displaced(f, m, e) ==
    {d \in {"behind", "shifted", "torn"} :
        \/ d = "behind"  /\ Len(m) > 0
        \/ d = "shifted" /\ f = "vector" /\ e.begin % 4 # 0
        \/ d = "torn"    /\ f = "strings"}

\* Mutant of PositionOf: the object begins its extent.
PositionFirst(p, e) == 0

\* get_buffer().data() + __pos, whatever allocate returned.
PositionOf(p, e) == p - e.begin

\* Mutant of After: the user is not told.
AfterNoUser(fs) == "returning"

\* The frame of a call ends, and its caller goes on.
After(fs) == IF Len(fs) = 1 THEN "user" ELSE "returning"

\* The stub copies what the response says into the builder of its caller.  A reference
\* to where nothing is has it copy garbage, or run out of the buffer.
ReturnStub ==
    LET m      == frames[Top].response
        f      == frames[Top].proc
        caller == Pop(frames)
        held   == Builder(caller)
        obj    == Target(m, Held(m))
        copied == PointedAt(m, Held(m))
        e      == Extent(m, obj, f)
    IN  /\ pc = "responded"
        /\ \/ /\ f = "value"
              /\ result' = Value(<<m[Root(m) + 3]>>)
              /\ pc' = After(caller) /\ frames' = caller
              /\ UNCHANGED moved
           \/ /\ f = "view"
              /\ result' = View("response", Owner(caller), End(held) + 2, Len(copied))
              /\ Store(caller, WithString(held, copied), After(caller))
              /\ UNCHANGED moved
           \/ /\ f \in References /\ Found(m, obj, f)
              /\ result' = Reference(Owner(caller), PositionOf(obj, e))
              /\ Store(caller, Relocated(held, e, m), After(caller))
              /\ moved' = moved \union Displaced(f, held, e)
           \/ /\ f \in References /\ ~Found(m, obj, f)
              /\ result' = Reference(Owner(caller), 0)
              /\ \/ pc' = "overflow" /\ UNCHANGED frames
                 \/ Store(caller, held \o Garbage, After(caller))
              /\ UNCHANGED moved
        /\ UNCHANGED <<call, calls>>

\* The translator has placed the result, or its address, in the caller's storage.
ReturnDirect == /\ pc = "returning" /\ frames[Top].via = "direct"
                /\ frames' = Pop(frames)
                /\ pc' = After(frames')
                /\ UNCHANGED <<call, result, moved, calls>>

Advance == Serve \/ Implement \/ Respond \/ ReturnStub \/ ReturnDirect

Next == \/ \E n \in Junk : Prepare(n)
        \/ Renew
        \/ \E f \in Procs, a \in Args : UserCalls(f, a)
        \/ Relay
        \/ Advance

\* An implementation returns, and so does everything that is waiting for it.
Spec == Init /\ [][Next]_vars /\ WF_vars(Advance)

------------------------------------------------------------------------------
\* What the implementation returns for the call, as the caller has to see it.
Expected == LET a == call.arg
            IN  CASE call.proc \in {"value", "view"}    -> Data(a, 1, 1)
                  [] call.proc \in {"string", "struct"} -> Data(a, Count, 1)
                  [] call.proc = "vector"               -> Data(a, Count, 4)
                  [] call.proc = "strings"              -> [i \in 1 .. Count |-> Data(a, 1, 1)]

Returned == pc = "user" /\ result # Nothing

\* Values and views reach the user as the implementation returned them, across any
\* chain of stubs, relays and zero-copy clients, and although the view was one of a
\* request that is gone by then (union_caller, copy_and_return).  So does what a
\* reference refers to, as long as no stub displaced it: each one on the way had an
\* empty builder, an extent aligned for the elements of a vector, and no vector of
\* references (copy_and_return, find_extent).
ResultsArrive ==
    Returned /\ (call.proc \in References => moved = {}) =>
        Says(frames, result, call.proc) = Expected

\* A call comes back to the user, unless a buffer was too small for an answer, or for the
\* garbage that a displaced reference makes a stub copy (copy_and_return).
CallsReturn == pc \notin {"user", "overflow"} ~> pc \in {"user", "overflow"}

TypeOK == /\ pc \in {"user", "running", "sent", "returning", "responded", "overflow"}
          /\ Len(frames) \in 1 .. Depth
          /\ \A i \in 1 .. Len(frames) :
                /\ frames[i].via = "user" <=> i = 1
                /\ frames[i].proc \in Procs \union {"none"}
                /\ Len(frames[i].response) <= Capacity
          /\ moved \subseteq {"behind", "shifted", "torn"}
          /\ calls \in 0 .. MaxCalls
=============================================================================
