--------------------------------- MODULE Tasks ---------------------------------
(***************************************************************************)
(* Asynchronous calls: the coroutines of tos::Task, and the chain of them  *)
(* that a call through the generated clients makes.  A coroutine lives in  *)
(* a frame on the heap and is started by who awaits it; its last act is to *)
(* resume that one, which then destroys the frame.  There is one thread:   *)
(* other calls go on while one waits for the outside world.                *)
(*                                                                         *)
(* The chain of a stub client: the stub awaits the transport, which awaits *)
(* async_union_caller, which awaits the lambdas of visit and apply, which  *)
(* await the implementation.  That of a zero-copy client: the client       *)
(* awaits the translator, which awaits do_call, which awaits the           *)
(* implementation.  An implementation may itself call a client.            *)
(***************************************************************************)
EXTENDS Integers, FiniteSets

CONSTANTS
    Callers,    \* calls of the program, each made once
    Depth,      \* bound for each on how many services it goes through
    Waits,      \* bound on how often a call waits for the outside world
    HeapSize    \* bound on the frames

ASSUME TasksAssumption == /\ Depth \in [Callers -> Nat \ {0}]
                          /\ Waits \in Nat /\ HeapSize \in Nat

VARIABLES
    heap,       \* the coroutine frames
    active,     \* the frame that runs, or None: the event loop
    asleep,     \* frames that the outside world will resume
    calls       \* per caller: [wants, run, state, waits, got, threw, dangled]

vars == <<heap, active, asleep, calls>>

Heap == 1 .. HeapSize
None == 0
Free == [code |-> "free"]
Live == {i \in Heap : heap[i].code # "free"}

Clients == {"stub", "zerocopy"}

\* Whom a coroutine awaits.  The caller, the transport and the implementations are
\* code of the user: they are taken to do no more than they must.
Awaits ==
    [caller       |-> Clients,      impl       |-> Clients,
     stub         |-> {"transport"}, transport  |-> {"union_caller"},
     union_caller |-> {"visit"},     visit      |-> {"apply"},
     apply        |-> {"impl"},
     zerocopy     |-> {"translator"}, translator |-> {"do_call"},
     do_call      |-> {"impl"}]

\* Who may wait for the outside world: a message that travels, work that is done.
External == {"transport", "impl"}

\* Those with storage that the coroutines below them write to by reference: the
\* buffer for the response, and the place return_ for the result.
Holders == {"transport", "zerocopy"}

Unset     == "unset"        \* a value that was never written
Garbage   == "garbage"      \* what is read from a frame that is gone
Answer(c) == c            \* the answer to the call of c

Init == /\ heap = [i \in Heap |-> Free]
        /\ active = None
        /\ asleep = {}
        /\ calls = [c \in Callers |->
                      [wants |-> "value", run |-> FALSE, state |-> "idle", waits |-> 0,
                       got |-> Unset, threw |-> FALSE, dangled |-> FALSE]]

------------------------------------------------------------------------------
(* The coroutine machinery.                                                *)

\* Calling a coroutine makes its frame, suspended at the start (initial_suspend).
Frame(code, c, cont, out, level) ==
    [code |-> code, by |-> c, at |-> "ready", child |-> None, continuation |-> cont,
     value |-> Unset, storage |-> Unset, out |-> out, level |-> level]

\* Where the bound leaves room for a frame, it is put at a free place.
Room  == Heap \ Live # {}
NewId == CHOOSE i \in Heap : i \notin Live

\* Mutant of Await: the frame is resumed, and its awaiter not remembered.
AwaitPassedOn(h, i, n, f) ==
    [h EXCEPT ![n] = [f EXCEPT !.continuation = h[i].continuation],
              ![i].at = "awaiting", ![i].child = n]

\* operator co_await: the awaiter i suspends, becomes the continuation of the new
\* frame, and this one is resumed in its place.
Await(h, i, n, f) == [h EXCEPT ![n] = [f EXCEPT !.continuation = i],
                               ![i].at = "awaiting", ![i].child = n]

\* ~Task, at the end of the expression that awaited it.
Destroyed(h, i) == [h EXCEPT ![h[i].child] = Free, ![i].child = None]

\* Mutants of Finish: the last suspension returns to the event loop; there is none, and
\* the frame is gone when its result is taken.
FinishQuietly(h, i, v) == /\ heap' = [h EXCEPT ![i].value = v, ![i].at = "final"]
                          /\ active' = None
                          /\ UNCHANGED calls
FinishGone(h, i, v)    == /\ heap' = [h EXCEPT ![i] = Free]
                          /\ active' = h[i].continuation
                          /\ UNCHANGED calls

\* co_return and final_suspend: the result is stored, the continuation resumed.  A
\* task that nobody awaits has none: the program jumps to a null handle.
Finish(h, i, v) ==
    LET k == h[i].continuation
        done == [h EXCEPT ![i].value = v, ![i].at = "final"]
    IN  \/ /\ k # None
           /\ heap' = [done EXCEPT ![k].at = "resumed"]
           /\ active' = k
           /\ UNCHANGED calls
        \/ /\ k = None
           /\ heap' = done
           /\ active' = None
           /\ calls' = [calls EXCEPT ![h[i].by].state = "crashed"]

\* No other call goes on when the program has crashed.
Running == \A c \in Callers : calls[c].state # "crashed"
At(i, at) == Running /\ active = i /\ heap[i].at = at

------------------------------------------------------------------------------
(* Calls.                                                                  *)

\* The program starts a call that returns a value or a view: in a coroutine of its
\* own that awaits it, or with run().
Begin(c, wants, run) ==
    /\ Running /\ active = None /\ Room
    /\ calls[c].state = "idle"
    /\ calls' = [calls EXCEPT ![c].wants = wants, ![c].run = run, ![c].state = "pending"]
    /\ \/ /\ ~run
          /\ heap' = [heap EXCEPT ![NewId] = Frame("caller", c, None, None, 0)]
       \/ /\ run
          /\ \E client \in Clients :
                 heap' = [heap EXCEPT ![NewId] = Frame(client, c, None, None, 1)]
    /\ active' = NewId
    /\ UNCHANGED asleep

\* A coroutine calls the next one and awaits it; it hands down the place for the
\* answer, its own if it has one.
Call(i) ==
    /\ At(i, "ready") /\ Room
    /\ \E code \in Awaits[heap[i].code] :
          LET f     == heap[i]
              level == IF code \in Clients THEN f.level + 1 ELSE f.level
              out   == IF f.code \in Holders THEN i ELSE f.out
          IN  /\ level <= Depth[f.by]
              /\ heap' = Await(heap, i, NewId, Frame(code, f.by, None, out, level))
              /\ active' = NewId
    /\ UNCHANGED <<asleep, calls>>

\* An implementation returns its answer, or throws: unhandled_exception does nothing,
\* and the promise is left without a value.
Implement(i) ==
    /\ At(i, "ready") /\ heap[i].code = "impl"
    /\ Finish(heap, i, Answer(heap[i].by))
    /\ UNCHANGED asleep

Throw(i) ==
    /\ At(i, "ready") /\ heap[i].code = "impl"
    /\ heap' = [heap EXCEPT ![i].at = "final", ![heap[i].continuation].at = "resumed"]
    /\ active' = heap[i].continuation
    /\ calls' = [calls EXCEPT ![heap[i].by].threw = TRUE]
    /\ UNCHANGED asleep

\* The outside world.
Sleep(i) == /\ Running /\ active = i
            /\ heap[i].code \in External /\ heap[i].at \in {"ready", "resumed"}
            /\ calls[heap[i].by].waits < Waits
            /\ calls' = [calls EXCEPT ![heap[i].by].waits = @ + 1]
            /\ asleep' = asleep \union {i}
            /\ active' = None
            /\ UNCHANGED heap

Wake(i) == /\ Running /\ active = None
           /\ i \in asleep
           /\ asleep' = asleep \ {i}
           /\ active' = i
           /\ UNCHANGED <<heap, calls>>

------------------------------------------------------------------------------
(* The way back.  A coroutine that is resumed takes the result out of the  *)
(* promise of the one it awaited (await_resume), which is destroyed.       *)

Taken(i) == heap[heap[i].child].value

\* co_return co_await, and the relaying implementation: the result is passed on.
PassOn(i) ==
    /\ At(i, "resumed")
    /\ heap[i].code \in {"union_caller", "visit", "translator", "impl"}
    /\ Finish(Destroyed(heap, i), i, Taken(i))
    /\ UNCHANGED asleep

\* The transport returns the buffer, and the zero-copy client what is in return_,
\* whatever the bool they awaited.
ReturnStorage(i) ==
    /\ At(i, "resumed")
    /\ heap[i].code \in Holders
    /\ Finish(Destroyed(heap, i), i, heap[i].storage)
    /\ UNCHANGED asleep

\* The async stub: copies the answer from the buffer into its response builder.
ReturnCopy(i) ==
    /\ At(i, "resumed")
    /\ heap[i].code = "stub"
    /\ Finish(Destroyed(heap, i), i, Taken(i))
    /\ UNCHANGED asleep

\* Mutant of Place: the answer is put where the caller of the caller wants it.
PlaceOuter(h, i, v) == LET o == h[h[i].out].out
                       IN  IF o = None THEN h ELSE [h EXCEPT ![o].storage = v]

\* The answer is written to the response buffer, or to return_.
Place(h, i, v) == [h EXCEPT ![h[i].out].storage = v]

\* new (ret) T(co_await ...): the result is taken before the task is destroyed.
DoCall(i) ==
    /\ At(i, "resumed")
    /\ heap[i].code = "do_call"
    /\ Finish(Place(Destroyed(heap, i), i, Taken(i)), i, "true")
    /\ UNCHANGED asleep

\* auto res = co_await ...: so is a value, and the response is made of it.
ApplyValue(i) ==
    /\ At(i, "resumed")
    /\ heap[i].code = "apply" /\ calls[heap[i].by].wants = "value"
    /\ Finish(Place(Destroyed(heap, i), i, Taken(i)), i, "true")
    /\ UNCHANGED asleep

\* const auto& res = co_await ...: a view stays in the promise, which the end of that
\* line destroys; what create_string then copies is what is left there.
ApplyView(i) ==
    /\ At(i, "resumed")
    /\ heap[i].code = "apply" /\ calls[heap[i].by].wants = "view"
    /\ \E said \in {Taken(i), Garbage} :
          LET h == Place(Destroyed(heap, i), i, said)
              k == heap[i].continuation
          IN  /\ heap' = [h EXCEPT ![i].value = "true", ![i].at = "final",
                                   ![k].at = "resumed"]
              /\ active' = k
              /\ calls' = [calls EXCEPT ![heap[i].by].dangled = TRUE]
    /\ UNCHANGED asleep

\* The caller has its answer; its coroutine ends and is gone.
End(i) ==
    /\ At(i, "resumed")
    /\ heap[i].code = "caller"
    /\ heap' = [Destroyed(heap, i) EXCEPT ![i] = Free]
    /\ active' = None
    /\ calls' = [calls EXCEPT ![heap[i].by].got = Taken(i), ![heap[i].by].state = "done"]
    /\ UNCHANGED asleep

Of(c) == {i \in Live : heap[i].by = c}

Step(i) == \/ Call(i) \/ Implement(i) \/ Throw(i) \/ Sleep(i)
           \/ PassOn(i) \/ ReturnStorage(i) \/ ReturnCopy(i)
           \/ DoCall(i) \/ ApplyValue(i) \/ ApplyView(i) \/ End(i)

Next == \/ \E c \in Callers, wants \in {"value", "view"}, run \in BOOLEAN : Begin(c, wants, run)
        \/ \E i \in Heap : Step(i) \/ Wake(i)

\* What runs goes on, and messages and work come to an end.
Fairness == /\ WF_vars(\E i \in Heap : Step(i))
            /\ \A c \in Callers : SF_vars(\E i \in Of(c) : Wake(i))
Spec == Init /\ [][Next]_vars /\ Fairness

------------------------------------------------------------------------------
TypeOK ==
    /\ active \in Live \union {None} /\ asleep \subseteq Live
    /\ \A i \in Live :
          /\ heap[i].code \in DOMAIN Awaits
          /\ heap[i].at \in {"ready", "awaiting", "resumed", "final"}
          /\ heap[i].level <= Depth[heap[i].by]
          /\ {heap[i].child, heap[i].continuation, heap[i].out} \subseteq Live \union {None}
    /\ \A c \in Callers : calls[c].state \in {"idle", "pending", "done", "crashed"}

\* Who awaits and who is awaited know each other, an awaiter is resumed when the awaited
\* is done and not before, and the place for an answer is one of the same call, in a
\* frame that waits for it (await_suspend, final_suspend, ~Task, what the lambdas capture).
Linked ==
    \A i \in Live :
       LET f == heap[i]
       IN  /\ f.child # None =>
                /\ heap[f.child].continuation = i
                /\ f.at = IF heap[f.child].at = "final" THEN "resumed" ELSE "awaiting"
           /\ f.continuation # None => heap[f.continuation].child = i
           /\ f.out # None => /\ heap[f.out].code \in Holders
                              /\ heap[f.out].by = f.by
                              /\ heap[f.out].at \in {"awaiting", "resumed"}

\* A call that goes on has exactly one frame that will run: the active one or one that
\* the outside world resumes.  One that ended has left no frame behind.
OneRunner ==
    \A c \in Callers :
       CASE calls[c].state = "pending" ->
               Cardinality(Of(c) \intersect (asleep \union {active})) = 1
         [] calls[c].state \in {"idle", "done"} -> Of(c) = {}
         [] calls[c].state = "crashed" -> calls[c].run

\* The frames of a call are a chain of awaiters at whose end exactly one runs.
LinksHold == Linked /\ OneRunner

\* The caller gets the answer of the implementation of its own call, however the calls
\* are interleaved and relayed; unless that threw, or a view was read when the promise
\* that held it was gone.
AnswersArrive ==
    \A c \in Callers :
       calls[c].state = "done" /\ ~calls[c].threw /\ ~calls[c].dangled =>
          calls[c].got = Answer(c)

\* Every call that was begun comes to an end.
CallsEnd ==
    \A c \in Callers : (calls[c].state = "pending" /\ Running) ~>
                          (calls[c].state = "done" \/ ~Running)
=============================================================================
