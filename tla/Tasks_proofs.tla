----------------------------- MODULE Tasks_proofs -----------------------------
(***************************************************************************)
(* Proofs about asynchronous calls: for any number of callers, any depth   *)
(* of relays and any interleaving, coroutines stay linked, every call has  *)
(* exactly one frame that will run, and answers are those of one's own     *)
(* call.                                                                   *)
(***************************************************************************)
EXTENDS Tasks, FiniteSetTheorems, TLAPS

Codes == {"caller", "stub", "zerocopy", "transport", "translator", "union_caller",
          "do_call", "visit", "apply", "impl"}
Clears == {"impl", "stub", "zerocopy", "transport"}       \* they return the answer
Inner  == Codes \ (Clears \union {"caller"})              \* they write it to a holder

Ids    == Heap \union {None}
Values == Callers \union {Unset, Garbage, "true"}
Frames == [code : Codes, by : Callers, at : {"ready", "awaiting", "resumed", "final"},
           child : Ids, continuation : Ids, value : Values, storage : Values,
           out : Ids, level : Nat]
States == {"idle", "pending", "done", "crashed"}
Records == [wants : {"value", "view"}, run : BOOLEAN, state : States, waits : Nat,
            got : Values, threw : BOOLEAN, dangled : BOOLEAN]

\* How far down its chain a frame is.
Step0 == [caller |-> 0, stub |-> 1, zerocopy |-> 1, transport |-> 2, translator |-> 2,
          union_caller |-> 3, do_call |-> 3, visit |-> 4, apply |-> 5, impl |-> 6]
Rank(f) == 7 * f.level + Step0[f.code]

Typed == /\ heap \in [Heap -> Frames \union {Free}]
         /\ calls \in [Callers -> Records]
         /\ active \in Live \union {None}
         /\ asleep \subseteq Live
         /\ \A i \in Live : heap[i].level <= Depth[heap[i].by]

\* Who awaits, and who is awaited.
Children ==
    \A i \in Live : LET c == heap[i].child IN
        /\ c = None <=> heap[i].at \in {"ready", "final"}
        /\ c # None => /\ c \in Live
                       /\ heap[c].continuation = i
                       /\ heap[c].by = heap[i].by
                       /\ heap[c].code \in Awaits[heap[i].code]
                       /\ Rank(heap[i]) < Rank(heap[c])
                       /\ heap[i].at = IF heap[c].at = "final" THEN "resumed" ELSE "awaiting"

\* Where a frame came from, and whom it is to give its answer.
Parents ==
    \A i \in Live : LET k == heap[i].continuation IN
        /\ k = None => /\ heap[i].code \in Clients \union {"caller"}
                       /\ heap[i].out = None
                       /\ heap[i].code # "caller" => calls[heap[i].by].run
        /\ k # None => /\ k \in Live
                       /\ heap[k].child = i
                       /\ heap[i].out = IF heap[k].code \in Holders THEN k ELSE heap[k].out
                       /\ heap[i].code # "caller"
        /\ heap[i].code \in Inner => heap[i].out # None

\* The place for the answer is above, in a frame of the same call.
Outs ==
    \A i \in Live : LET o == heap[i].out IN
        o # None => /\ o \in Live /\ heap[o].code \in Holders
                    /\ heap[o].by = heap[i].by
                    /\ Rank(heap[o]) < Rank(heap[i])

\* The frames of a call are in a row: each awaits the next one.
Total ==
    \A i, j \in Live :
        heap[i].by = heap[j].by /\ i # j =>
            /\ Rank(heap[i]) # Rank(heap[j])
            /\ Rank(heap[i]) < Rank(heap[j]) =>
                  /\ heap[i].child # None
                  /\ Rank(heap[heap[i].child]) <= Rank(heap[j])
                  /\ heap[j].continuation # None

\* What will run: only frames that can, and one for every call that goes on.
Runners ==
    /\ active # None => /\ active \notin asleep
                        /\ heap[active].at \in {"ready", "resumed"}
    /\ \A i \in asleep : heap[i].at \in {"ready", "resumed"}
    /\ \A c \in Callers :
          /\ calls[c].state = "pending" =>
                \E i \in asleep \union ({active} \ {None}) : heap[i].by = c
          /\ calls[c].state \in {"idle", "done"} => \A i \in Live : heap[i].by # c
          /\ calls[c].state = "crashed" => calls[c].run

Links == Typed /\ Children /\ Parents /\ Outs /\ Total /\ Runners

\* What a frame that is done has left for the one it answers.
Clean(r) == ~r.threw /\ ~r.dangled
Answers ==
    /\ \A i \in Live :
          heap[i].at = "final" /\ Clean(calls[heap[i].by]) =>
             /\ heap[i].code \in Clears => heap[i].value = Answer(heap[i].by)
             /\ heap[i].code \in Inner => heap[heap[i].out].storage = Answer(heap[i].by)
    /\ \A c \in Callers : calls[c].state = "done" /\ Clean(calls[c]) => calls[c].got = Answer(c)

IInv == Links /\ Answers

------------------------------------------------------------------------------
\* Each code awaits ones that come after it in a chain, or the client of another call.
LEMMA Order ==
    /\ \A code \in Codes : Awaits[code] \subseteq Codes \ {"caller"} /\ Step0[code] \in 0 .. 6
    /\ \A code \in Codes : \A n \in Awaits[code] :
          /\ n \in Clients => code \in {"caller", "impl"} /\ Step0[n] = 1
          /\ n \notin Clients => Step0[code] < Step0[n]
          /\ n \in Inner => code \in Holders \union Inner
BY DEF Codes, Awaits, Step0, Clients, Holders, Inner, Clears

\* Places on the heap are numbers, and no place is None.
LEMMA Places == /\ None \notin Heap /\ Live \subseteq Heap /\ None \notin Live
                /\ \A i \in Ids : i # None => i \in Heap
BY TasksAssumption DEF None, Heap, Live, Ids

\* A live place holds a frame.
LEMMA LiveFrames ==
    ASSUME Typed, NEW i \in Heap
    PROVE  /\ i \in Live => heap[i] \in Frames /\ Rank(heap[i]) \in Nat
           /\ i \notin Live => heap[i] = Free
<1>1. heap[i] \in Frames \union {Free}
    BY DEF Typed
<1>2. \A f \in Frames : f.code \in Codes /\ f.code # "free" /\ f.level \in Nat
    BY DEF Frames, Codes
<1>3. Free.code = "free"
    BY DEF Free
<1>4. CASE i \in Live
    <2>1. heap[i] \in Frames
        BY <1>1, <1>3, <1>4 DEF Live
    <2>2. heap[i].level \in Nat /\ heap[i].code \in Codes
        BY <2>1, <1>2
    <2>3. Step0[heap[i].code] \in 0 .. 6
        BY <2>2, Order
    <2> QED
        BY <1>4, <2>1, <2>2, <2>3 DEF Rank
<1>5. CASE i \notin Live
    BY <1>1, <1>2, <1>5 DEF Live
<1> QED
    BY <1>4, <1>5

\* A frame that has ended, and one that may be resumed or written to.
Over(f, v)        == [f EXCEPT !.child = None, !.value = v, !.at = "final"]
Touched(f, at, s) == [f EXCEPT !.at = at, !.storage = s]

LEMMA FrameOver ==
    ASSUME NEW f \in Frames, NEW v \in Values
    PROVE  /\ Over(f, v) \in Frames
           /\ Over(f, v).code = f.code /\ Over(f, v).by = f.by /\ Over(f, v).level = f.level
           /\ Over(f, v).continuation = f.continuation /\ Over(f, v).out = f.out
           /\ Over(f, v).child = None /\ Over(f, v).at = "final"
           /\ Over(f, v).value = v /\ Over(f, v).storage = f.storage
BY DEF Frames, Ids, Over

\* The heap after i has ended: the frame it awaited, if any, is destroyed, its
\* result is v, s is put into the storage of o, and its awaiter is resumed.
Ended(i, v, o, s) ==
    [j \in Heap |->
       IF j \notin Live \/ j = heap[i].child THEN Free
       ELSE IF j = i THEN Over(heap[j], v)
       ELSE Touched(heap[j], IF j = heap[i].continuation THEN "resumed" ELSE heap[j].at,
                    IF j = o THEN s ELSE heap[j].storage)]

\* i ends; the program crashes if nobody awaits it.
Ends(i, v, o, s) ==
    /\ heap' = Ended(i, v, o, s)
    /\ active' = heap[i].continuation
    /\ asleep' = asleep
    /\ calls' \in [Callers -> Records]
    /\ \A c \in Callers :
          /\ calls'[c].run = calls[c].run
          /\ calls'[c].state = IF heap[i].continuation = None /\ c = heap[i].by
                               THEN "crashed" ELSE calls[c].state

\* A frame that runs is the last of its call but for the one it awaited, which is done.
LEMMA Last ==
    ASSUME Links, NEW i \in Live, heap[i].at \in {"ready", "resumed"}
    PROVE  LET c == heap[i].child IN
           /\ c # None => /\ c \in Live /\ c # i /\ heap[c].by = heap[i].by
                          /\ heap[c].at = "final" /\ heap[c].child = None
                          /\ heap[c].continuation = i /\ Rank(heap[i]) < Rank(heap[c])
           /\ \A j \in Live :
                 heap[j].by = heap[i].by /\ j # i /\ j # c => Rank(heap[j]) < Rank(heap[i])
<1> DEFINE c == heap[i].child
<1> USE DEF Links
<1>1. \A j \in Live : Rank(heap[j]) \in Nat
    BY LiveFrames, Places
<1>2. c # None => /\ c \in Live /\ heap[c].by = heap[i].by /\ heap[c].at = "final"
                  /\ heap[c].continuation = i /\ Rank(heap[i]) < Rank(heap[c])
    BY DEF Children
<1>3. c # None => c # i /\ heap[c].child = None
    BY <1>1, <1>2 DEF Children
<1>4. ASSUME NEW j \in Live, heap[j].by = heap[i].by, j # i, j # c
      PROVE  Rank(heap[j]) < Rank(heap[i])
    <2>1. Rank(heap[j]) # Rank(heap[i]) /\ Rank(heap[j]) \in Nat /\ Rank(heap[i]) \in Nat
        BY <1>1, <1>4 DEF Total
    <2>2. ASSUME Rank(heap[i]) < Rank(heap[j]) PROVE FALSE
        <3>1. c # None /\ Rank(heap[c]) <= Rank(heap[j])
            BY <1>4, <2>2 DEF Total
        <3>2. c \in Live /\ heap[c].by = heap[j].by /\ heap[c].child = None
            BY <1>2, <1>3, <1>4, <3>1
        <3>3. Rank(heap[c]) # Rank(heap[j]) /\ ~(Rank(heap[c]) < Rank(heap[j]))
            BY <1>4, <3>2 DEF Total
        <3> QED
            BY <1>1, <3>1, <3>2, <3>3
    <2> QED
        BY <2>1, <2>2
<1> QED
    BY <1>2, <1>3, <1>4

\* What Ended does to each place.
LEMMA EndedFacts ==
    ASSUME Links, NEW i \in Live, heap[i].at \in {"ready", "resumed"},
           NEW v \in Values, NEW o \in Ids, NEW s \in Values, Ends(i, v, o, s)
    PROVE  LET c == heap[i].child
               k == heap[i].continuation
           IN /\ heap' \in [Heap -> Frames \union {Free}]
              /\ Live' = Live \ {c} /\ i \in Live'
              /\ k # None => k \in Live' /\ k # i
              /\ \A j \in Live' :
                    /\ heap'[j].code = heap[j].code /\ heap'[j].by = heap[j].by
                    /\ heap'[j].level = heap[j].level
                    /\ heap'[j].continuation = heap[j].continuation
                    /\ heap'[j].out = heap[j].out
                    /\ Rank(heap'[j]) = Rank(heap[j])
                    /\ heap'[j].child = IF j = i THEN None ELSE heap[j].child
                    /\ heap'[j].at = IF j = i THEN "final"
                                     ELSE IF j = k THEN "resumed" ELSE heap[j].at
                    /\ j # i /\ j # o => heap'[j].value = heap[j].value
                    /\ j # i => heap'[j].value = heap[j].value
                    /\ heap'[j].storage = IF j # i /\ j = o THEN s ELSE heap[j].storage
              /\ heap'[i].value = v
<1> DEFINE c == heap[i].child
           k == heap[i].continuation
<1>1. Typed /\ Children /\ Parents
    BY DEF Links
<1>2. i \in Heap /\ i \notin {c, k} /\ (k # None => k \in Live /\ k # c)
    <2>1. i \in Heap
        BY Places
    <2>2. i # c
        BY Last, Places
    <2>3. k # None => k \in Live /\ heap[k].child = i
        BY <1>1 DEF Parents
    <2>4. k # i
        BY <2>2, <2>3, Places
    <2>5. k # None => k # c
        BY Last, <2>1, <2>3, Places
    <2> QED
        BY <2>1, <2>2, <2>3, <2>4, <2>5
<1>3. \A j \in Live : j # c => heap'[j] =
         IF j = i THEN Over(heap[j], v)
         ELSE Touched(heap[j], IF j = k THEN "resumed" ELSE heap[j].at,
                      IF j = o THEN s ELSE heap[j].storage)
    BY Places DEF Ends, Ended
<1>4. c \in Heap => heap'[c] = Free
    BY DEF Ends, Ended
<1>5. DOMAIN heap' = Heap /\ heap' = [j \in Heap |-> heap'[j]]
    BY DEF Ends, Ended
<1>6. \A j \in Live : heap[j] \in Frames
    BY <1>1, LiveFrames, Places
<1>7. ASSUME NEW j \in Live, j # c
      PROVE  /\ heap'[j] \in Frames
             /\ heap'[j].code = heap[j].code /\ heap'[j].by = heap[j].by
             /\ heap'[j].level = heap[j].level
             /\ heap'[j].continuation = heap[j].continuation
             /\ heap'[j].out = heap[j].out
             /\ heap'[j].child = IF j = i THEN None ELSE heap[j].child
             /\ heap'[j].at = IF j = i THEN "final"
                              ELSE IF j = k THEN "resumed" ELSE heap[j].at
             /\ heap'[j].value = IF j = i THEN v ELSE heap[j].value
             /\ heap'[j].storage = IF j # i /\ j = o THEN s ELSE heap[j].storage
    <2>1. j \in Heap /\ heap[j] \in Frames
        BY <1>6, Places
    <2>2. heap[j].at \in {"ready", "awaiting", "resumed", "final"} /\ heap[j].storage \in Values
        BY <2>1 DEF Frames
    <2>3. CASE j = i
        <3>1. heap'[j] = Over(heap[j], v)
            BY <1>3, <1>7, <2>3
        <3> QED
            BY <2>1, <2>3, <3>1, FrameOver
    <2>4. CASE j # i
        <3> DEFINE at == IF j = k THEN "resumed" ELSE heap[j].at
                   st == IF j = o THEN s ELSE heap[j].storage
        <3>1. at \in {"ready", "awaiting", "resumed", "final"} /\ st \in Values
            BY <2>2
        <3>2. heap'[j] = Touched(heap[j], at, st)
            BY <1>3, <1>7, <2>4
        <3> HIDE DEF at, st
        <3>3. /\ heap'[j] \in Frames
              /\ heap'[j].code = heap[j].code /\ heap'[j].by = heap[j].by
              /\ heap'[j].level = heap[j].level
              /\ heap'[j].continuation = heap[j].continuation
              /\ heap'[j].out = heap[j].out
              /\ heap'[j].child = heap[j].child
              /\ heap'[j].value = heap[j].value
              /\ heap'[j].at = at /\ heap'[j].storage = st
            <4> DEFINE f == heap[j]
                       g == heap'[j]
            <4>1. f \in Frames /\ g = Touched(f, at, st)
                BY <2>1, <3>2
            <4> HIDE DEF f, g
            <4>2. /\ g \in Frames
                  /\ g.code = f.code /\ g.by = f.by /\ g.level = f.level /\ g.out = f.out
                  /\ g.continuation = f.continuation /\ g.child = f.child
                  /\ g.value = f.value /\ g.at = at /\ g.storage = st
                BY <3>1, <4>1 DEF Frames, Ids, Touched
            <4> QED
                BY <4>2 DEF f, g
        <3> QED
            BY <2>4, <3>3 DEF at, st
    <2> QED
        BY <2>3, <2>4
<1>8. \A j \in Heap \ Live : heap'[j] = Free
    BY DEF Ends, Ended
<1>9. heap' \in [Heap -> Frames \union {Free}]
    <2>1. \A j \in Heap : heap'[j] \in Frames \union {Free}
        BY <1>4, <1>7, <1>8
    <2> QED
        BY <1>5, <2>1
<1>10. Live' = Live \ {c}
    <2>1. \A j \in Heap : j \in Live' <=> heap'[j].code # "free"
        BY DEF Live
    <2>2. \A j \in Live : j # c => heap'[j].code # "free"
        BY <1>7 DEF Live
    <2>3. \A j \in Heap : j = c \/ j \notin Live => heap'[j].code = "free"
        BY <1>4, <1>8 DEF Free
    <2>4. \A j \in Live' : j \in Heap
        BY DEF Live
    <2> QED
        BY <2>1, <2>2, <2>3, <2>4, Places
<1>11. \A j \in Live' : Rank(heap'[j]) = Rank(heap[j])
    BY <1>7, <1>10 DEF Rank
<1> QED
    BY <1>2, <1>7, <1>9, <1>10, <1>11

\* A frame that is neither resumed nor written to stays as it is.
LEMMA FrameSame ==
    ASSUME NEW f \in Frames
    PROVE  Touched(f, f.at, f.storage) = f
BY DEF Frames, Touched

\* The heap when what i awaited is destroyed and its answer put in its place, and when
\* then i is finished.
Placed(i, o, s)   == IF o = None THEN Destroyed(heap, i)
                     ELSE [Destroyed(heap, i) EXCEPT ![o].storage = s]
Done(h, i, v)        == [h EXCEPT ![i].value = v, ![i].at = "final"]
Finished(h, i, v, k) == IF k = None THEN Done(h, i, v)
                        ELSE [Done(h, i, v) EXCEPT ![k].at = "resumed"]

\* That is what Ended says place by place.
LEMMA FinishHeap ==
    ASSUME Links, NEW i \in Heap, i \in Live, heap[i].at \in {"ready", "resumed"},
           NEW v \in Values, NEW s \in Values,
           NEW o \in Ids, o # None => o \in Live /\ o # i /\ o # heap[i].child,
           NEW h, h = Placed(i, o, s),
           heap' = Finished(h, i, v, heap[i].continuation)
    PROVE  heap' = Ended(i, v, o, s)
<1> DEFINE c == heap[i].child
           k == heap[i].continuation
<1>1. Typed /\ Children /\ Parents
    BY DEF Links
<1>2. i \in Live /\ i \notin {c, k} /\ (k # None => k \in Live /\ k # c)
    <2>1. i \in Live
        OBVIOUS
    <2>2. i # c
        BY <2>1, Last, Places
    <2>3. k # None => k \in Live /\ heap[k].child = i
        BY <1>1, <2>1 DEF Parents
    <2>4. k # i
        BY <2>1, <2>2, <2>3, Places
    <2>5. k # None => k # c
        BY Last, <2>1, <2>3, Places
    <2> QED
        BY <2>1, <2>2, <2>3, <2>4, <2>5
<1>3. DOMAIN heap = Heap /\ heap = [j \in Heap |-> heap[j]]
    BY <1>1 DEF Typed
<1>4. /\ DOMAIN h = Heap
      /\ c \in Heap => h[c] = Free
      /\ h[i] = [heap[i] EXCEPT !.child = None]
      /\ \A j \in Heap : j # i /\ j # c /\ j # o => h[j] = heap[j]
      /\ o # None => h[o] = [heap[o] EXCEPT !.storage = s]
    <2>1. CASE o = None
        BY <1>2, <1>3, <2>1, Places DEF Destroyed, Placed
    <2>2. CASE o # None
        BY <1>2, <1>3, <2>2, Places DEF Destroyed, Placed
    <2> QED
        BY <2>1, <2>2
<1>5. heap[i] \in Frames
    BY <1>1, <1>2, LiveFrames
<1> DEFINE done == Done(h, i, v)
<1>6. heap' = IF k = None THEN done ELSE [done EXCEPT ![k].at = "resumed"]
    BY DEF Finished
<1>7. /\ DOMAIN done = Heap /\ done = [j \in Heap |-> done[j]]
      /\ done[i] = Over(heap[i], v)
      /\ \A j \in Heap : j # i => done[j] = h[j]
    BY <1>4, <1>5 DEF Over, Frames, Done
<1> HIDE DEF done
<1>8. /\ heap' = [j \in Heap |-> heap'[j]]
      /\ \A j \in Heap : j # k => heap'[j] = done[j]
      /\ k # None => heap'[k] = [done[k] EXCEPT !.at = "resumed"]
    <2>1. CASE k = None
        BY <1>6, <1>7, <2>1, Places
    <2>2. CASE k # None
        BY <1>2, <1>6, <1>7, <2>2, Places
    <2> QED
        BY <2>1, <2>2
<1>9. \A j \in Heap : heap'[j] = Ended(i, v, o, s)[j]
    <2> SUFFICES ASSUME NEW j \in Heap
                 PROVE  heap'[j] = Ended(i, v, o, s)[j]
        OBVIOUS
    <2>1. Ended(i, v, o, s)[j] =
             IF j \notin Live \/ j = c THEN Free
             ELSE IF j = i THEN Over(heap[j], v)
             ELSE Touched(heap[j], IF j = k THEN "resumed" ELSE heap[j].at,
                          IF j = o THEN s ELSE heap[j].storage)
        BY DEF Ended
    <2>2. CASE j = c
        BY <1>2, <1>4, <1>7, <1>8, <2>1, <2>2, Places
    <2>3. CASE j = i
        BY <1>2, <1>7, <1>8, <2>1, <2>3
    <2>4. CASE j \notin Live
        <3>1. heap[j] = Free
            BY <1>1, <2>4, LiveFrames
        <3>2. j # k /\ j # o /\ j # i /\ (j # c => heap'[j] = heap[j])
            BY <1>2, <1>4, <1>7, <1>8, <2>4, Places
        <3> QED
            BY <2>1, <2>2, <2>4, <3>1, <3>2
    <2>5. CASE j \in Live /\ j # c /\ j # i
        <3>1. heap[j] \in Frames
            BY <1>1, <2>5, LiveFrames
        <3> DEFINE f  == heap[j]
                   at == IF j = k THEN "resumed" ELSE f.at
                   st == IF j = o THEN s ELSE f.storage
        <3>2. j # k => at = f.at
            OBVIOUS
        <3>3. j # o => st = f.storage
            OBVIOUS
        <3>4. j = k => at = "resumed"
            OBVIOUS
        <3>5. j = o => st = s
            OBVIOUS
        <3>6. Ended(i, v, o, s)[j] = Touched(f, at, st)
            BY <2>1, <2>5
        <3>7. h[j] = Touched(f, f.at, st)
            <4>1. CASE j = o
                <5>1. h[j] = [f EXCEPT !.storage = s]
                    BY <1>4, <2>5, <4>1, Places
                <5>2. [f EXCEPT !.storage = s] = Touched(f, f.at, s)
                    BY <3>1 DEF Touched, Frames
                <5> QED
                    BY <3>5, <4>1, <5>1, <5>2
            <4>2. CASE j # o
                <5>1. h[j] = f
                    BY <1>4, <2>5, <4>2, Places
                <5> HIDE DEF st
                <5> QED
                    BY <3>1, <3>3, <4>2, <5>1, FrameSame
            <4> QED
                BY <4>1, <4>2
        <3>8. heap'[j] = IF j = k THEN [h[j] EXCEPT !.at = "resumed"] ELSE h[j]
            BY <1>7, <1>8, <2>5, Places
        <3> HIDE DEF at, st
        <3>9. [Touched(f, f.at, st) EXCEPT !.at = "resumed"] = Touched(f, "resumed", st)
            BY <3>1 DEF Touched, Frames
        <3>10. j = k => heap'[j] = Touched(f, at, st)
            BY <3>4, <3>7, <3>8, <3>9
        <3>11. j # k => heap'[j] = Touched(f, at, st)
            BY <3>2, <3>7, <3>8
        <3> QED
            BY <3>6, <3>10, <3>11
    <2> QED
        BY <2>2, <2>3, <2>4, <2>5
<1>10. heap' = Ended(i, v, o, s)
    BY <1>8, <1>9 DEF Ended
<1> QED
    BY <1>10

\* Whom a frame answers, and for whom it runs, is not changed by that.
LEMMA PlacedKeeps ==
    ASSUME Links, NEW i \in Heap, i \in Live, heap[i].at \in {"ready", "resumed"},
           NEW s \in Values, NEW o \in Ids, o # i
    PROVE  /\ Placed(i, o, s)[i].continuation = heap[i].continuation
           /\ Placed(i, o, s)[i].by = heap[i].by
           /\ Placed(i, o, s)[i].out = heap[i].out
<1>1. heap[i].child # i
    BY Last, Places
<1>2. DOMAIN heap = Heap /\ heap[i] \in Frames
    BY LiveFrames DEF Links, Typed
<1>3. Placed(i, o, s)[i] = [heap[i] EXCEPT !.child = None]
    <2>1. CASE o = None
        BY <1>1, <1>2, <2>1, Places DEF Destroyed, Placed
    <2>2. CASE o # None
        BY <1>1, <1>2, <2>2, Places DEF Destroyed, Placed
    <2> QED
        BY <2>1, <2>2
<1> QED
    BY <1>2, <1>3 DEF Frames

\* Finish itself ends i, and does nothing else to any call.
LEMMA FinishEnds ==
    ASSUME Links, NEW i \in Heap, i \in Live, heap[i].at \in {"ready", "resumed"},
           NEW v \in Values, NEW s \in Values,
           NEW o \in Ids, o # None => o \in Live /\ o # i /\ o # heap[i].child,
           Finish(Placed(i, o, s), i, v), asleep' = asleep
    PROVE  /\ Ends(i, v, o, s)
           /\ \A d \in Callers : /\ calls'[d].threw = calls[d].threw
                                 /\ calls'[d].dangled = calls[d].dangled
                                 /\ calls'[d].got = calls[d].got
<1> DEFINE k == heap[i].continuation
           h == Placed(i, o, s)
<1>0. h[i].continuation = k /\ h[i].by = heap[i].by
    BY PlacedKeeps, Places
<1> HIDE DEF h
<1>1. /\ heap' = Finished(h, i, v, k)
      /\ active' = k
      /\ calls' = IF k = None THEN [calls EXCEPT ![heap[i].by].state = "crashed"] ELSE calls
    BY <1>0 DEF Finish, Finished, Done, h
<1>2. heap' = Ended(i, v, o, s)
    BY <1>1, FinishHeap DEF h
<1>3. calls \in [Callers -> Records] /\ heap[i].by \in Callers
    BY LiveFrames, Places DEF Links, Typed, Frames
<1>4. \A r \in Records : [r EXCEPT !.state = "crashed"] \in Records
    BY DEF Records, States
<1>5. /\ calls' \in [Callers -> Records]
      /\ \A d \in Callers :
            /\ calls'[d].run = calls[d].run /\ calls'[d].threw = calls[d].threw
            /\ calls'[d].dangled = calls[d].dangled /\ calls'[d].got = calls[d].got
            /\ calls'[d].state = IF k = None /\ d = heap[i].by THEN "crashed"
                                 ELSE calls[d].state
    BY <1>1, <1>3, <1>4 DEF Records
<1> QED
    BY <1>1, <1>2, <1>5 DEF Ends

\* Ending keeps the links.
LEMMA EndsLinks ==
    ASSUME Links, NEW i \in Live, active = i, heap[i].code # "caller",
           NEW v \in Values, NEW o \in Ids, NEW s \in Values, Ends(i, v, o, s)
    PROVE  Links'
<1> DEFINE c == heap[i].child
           k == heap[i].continuation
           b == heap[i].by
<1>1. Typed /\ Children /\ Parents /\ Outs /\ Total /\ Runners
    BY DEF Links
<1>2. heap[i].at \in {"ready", "resumed"} /\ i # None /\ i \notin asleep
    BY <1>1, Places DEF Runners
<1>3. /\ heap' \in [Heap -> Frames \union {Free}]
      /\ Live' = Live \ {c} /\ i \in Live'
      /\ k # None => k \in Live' /\ k # i
    BY <1>2, EndedFacts
<1>4. \A j \in Live' :
         /\ heap'[j].code = heap[j].code /\ heap'[j].by = heap[j].by
         /\ heap'[j].level = heap[j].level
         /\ heap'[j].continuation = heap[j].continuation
         /\ heap'[j].out = heap[j].out
         /\ Rank(heap'[j]) = Rank(heap[j])
         /\ heap'[j].child = IF j = i THEN None ELSE heap[j].child
         /\ heap'[j].at = IF j = i THEN "final"
                          ELSE IF j = k THEN "resumed" ELSE heap[j].at
    BY <1>2, EndedFacts
<1>5. /\ c # None => /\ c \in Live /\ c # i /\ heap[c].by = b /\ heap[c].at = "final"
                      /\ heap[c].child = None /\ heap[c].continuation = i
                      /\ Rank(heap[i]) < Rank(heap[c])
      /\ \A j \in Live : heap[j].by = b /\ j # i /\ j # c => Rank(heap[j]) < Rank(heap[i])
    BY <1>2, Last
<1>6. \A j \in Live : j \in Heap /\ Rank(heap[j]) \in Nat /\ heap[j] \in Frames
    BY <1>1, LiveFrames, Places
<1>7. k # None => k \in Live /\ heap[k].child = i /\ heap[k].at = "awaiting" /\ heap[k].by = b
    BY <1>1, <1>2, <1>3, Places DEF Parents, Children
<1>8. None \notin Live'
    BY <1>3, Places
<1>9. Typed'
    <2>1. active' \in Live' \union {None} /\ asleep' \subseteq Live'
        <3>1. asleep \subseteq Live \ {c}
            BY <1>1, <1>5, Places DEF Typed, Runners
        <3> QED
            BY <1>3, <3>1 DEF Ends
    <2>2. \A j \in Live' : heap'[j].level <= Depth[heap'[j].by]
        BY <1>1, <1>3, <1>4 DEF Typed
    <2>3. calls' \in [Callers -> Records]
        BY DEF Ends
    <2> QED
        BY <1>3, <2>1, <2>2, <2>3 DEF Typed
<1>10. Children'
    <2> SUFFICES ASSUME NEW j \in Live'
                 PROVE  LET d == heap'[j].child IN
                        /\ d = None <=> heap'[j].at \in {"ready", "final"}
                        /\ d # None => /\ d \in Live'
                                       /\ heap'[d].continuation = j
                                       /\ heap'[d].by = heap'[j].by
                                       /\ heap'[d].code \in Awaits[heap'[j].code]
                                       /\ Rank(heap'[j]) < Rank(heap'[d])
                                       /\ heap'[j].at = IF heap'[d].at = "final" THEN "resumed"
                                                        ELSE "awaiting"
        BY DEF Children
    <2>1. CASE j = i
        BY <1>4, <2>1
    <2>2. CASE j # i /\ heap[j].child = None
        BY <1>1, <1>3, <1>4, <1>7, <2>2, Places DEF Children
    <2>3. CASE j # i /\ heap[j].child # None
        <3> DEFINE d == heap[j].child
        <3>1. /\ d \in Live /\ heap[d].continuation = j /\ heap[d].by = heap[j].by
              /\ heap[d].code \in Awaits[heap[j].code] /\ Rank(heap[j]) < Rank(heap[d])
              /\ heap[j].at = IF heap[d].at = "final" THEN "resumed" ELSE "awaiting"
            BY <1>1, <1>3, <2>3 DEF Children
        <3>2. d # c /\ d \in Live'
            BY <1>3, <1>5, <2>3, <3>1
        <3>3. heap'[j].child = d
            BY <1>4, <2>3
        <3>4. heap'[d].continuation = j /\ heap'[d].by = heap'[j].by
              /\ heap'[d].code \in Awaits[heap'[j].code] /\ Rank(heap'[j]) < Rank(heap'[d])
            BY <1>4, <3>1, <3>2
        <3>5. d = i <=> j = k
            BY <1>7, <1>8, <2>3, <3>1, <3>2
        <3>6. heap'[j].at = IF heap'[d].at = "final" THEN "resumed" ELSE "awaiting"
            <4>1. CASE j = k
                BY <1>4, <2>3, <3>2, <3>5, <4>1
            <4>2. CASE j # k /\ d # k
                BY <1>4, <2>3, <3>1, <3>2, <3>5, <4>2
            <4>3. CASE j # k /\ d = k
                BY <1>4, <1>7, <2>3, <3>1, <3>2, <3>5, <4>3, Places
            <4> QED
                BY <4>1, <4>2, <4>3
        <3> QED
            BY <2>3, <3>2, <3>3, <3>4, <3>6
    <2> QED
        BY <2>1, <2>2, <2>3
<1>11. Parents'
    <2> SUFFICES ASSUME NEW j \in Live'
                 PROVE  LET p == heap'[j].continuation IN
                        /\ p = None => /\ heap'[j].code \in Clients \union {"caller"}
                                       /\ heap'[j].out = None
                                       /\ heap'[j].code # "caller" => calls'[heap'[j].by].run
                        /\ p # None => /\ p \in Live'
                                       /\ heap'[p].child = j
                                       /\ heap'[j].out = IF heap'[p].code \in Holders
                                                         THEN p ELSE heap'[p].out
                                       /\ heap'[j].code # "caller"
                        /\ heap'[j].code \in Inner => heap'[j].out # None
        BY DEF Parents
    <2> DEFINE p == heap[j].continuation
    <2>1. j \in Live /\ j # c /\ heap[j].by \in Callers
        BY <1>3, <1>6 DEF Frames
    <2>2. calls'[heap[j].by].run = calls[heap[j].by].run
        BY <2>1 DEF Ends
    <2>3. p # None => /\ p \in Live /\ heap[p].child = j /\ p # c /\ p # i
        BY <1>1, <1>5, <1>8, <2>1 DEF Parents
    <2>4. p # None => p \in Live'
        BY <1>3, <2>3
    <2>5. p # None => heap'[p].child = j /\ heap'[p].code = heap[p].code /\ heap'[p].out = heap[p].out
        BY <1>4, <2>3, <2>4
    <2>6. heap'[j].continuation = p /\ heap'[j].code = heap[j].code /\ heap'[j].out = heap[j].out
          /\ heap'[j].by = heap[j].by
        BY <1>4
    <2>7. /\ p = None => /\ heap[j].code \in Clients \union {"caller"}
                         /\ heap[j].out = None
                         /\ heap[j].code # "caller" => calls[heap[j].by].run
          /\ p # None => /\ heap[j].out = IF heap[p].code \in Holders THEN p ELSE heap[p].out
                         /\ heap[j].code # "caller"
          /\ heap[j].code \in Inner => heap[j].out # None
        BY <1>1, <2>1 DEF Parents
    <2> HIDE DEF p
    <2> QED
        BY <2>2, <2>4, <2>5, <2>6, <2>7
<1>12. Outs'
    <2> SUFFICES ASSUME NEW j \in Live', heap'[j].out # None
                 PROVE  LET q == heap'[j].out IN
                        /\ q \in Live' /\ heap'[q].code \in Holders
                        /\ heap'[q].by = heap'[j].by
                        /\ Rank(heap'[q]) < Rank(heap'[j])
        BY DEF Outs
    <2> DEFINE q == heap[j].out
    <2>1. j \in Live /\ j # c /\ heap'[j].out = q /\ q # None
        BY <1>3, <1>4
    <2>2. q \in Live /\ heap[q].code \in Holders /\ heap[q].by = heap[j].by
          /\ Rank(heap[q]) < Rank(heap[j])
        BY <1>1, <2>1 DEF Outs
    <2>3. q # c
        BY <1>5, <1>6, <2>1, <2>2
    <2>4. q \in Live'
        BY <1>3, <2>2, <2>3
    <2> HIDE DEF q
    <2> QED
        BY <1>4, <2>1, <2>2, <2>4
<1>13. Total'
    <2> SUFFICES ASSUME NEW m \in Live', NEW j \in Live',
                        heap'[m].by = heap'[j].by, m # j
                 PROVE  /\ Rank(heap'[m]) # Rank(heap'[j])
                        /\ Rank(heap'[m]) < Rank(heap'[j]) =>
                              /\ heap'[m].child # None
                              /\ Rank(heap'[heap'[m].child]) <= Rank(heap'[j])
                              /\ heap'[j].continuation # None
        BY DEF Total
    <2>1. m \in Live /\ j \in Live /\ m # c /\ j # c /\ heap[m].by = heap[j].by
        BY <1>3, <1>4
    <2>2. /\ Rank(heap[m]) # Rank(heap[j])
          /\ Rank(heap[m]) < Rank(heap[j]) => /\ heap[m].child # None
                                             /\ Rank(heap[heap[m].child]) <= Rank(heap[j])
                                             /\ heap[j].continuation # None
        BY <1>1, <2>1 DEF Total
    <2>3. /\ Rank(heap'[m]) = Rank(heap[m]) /\ Rank(heap'[j]) = Rank(heap[j])
          /\ heap'[j].continuation = heap[j].continuation
        BY <1>4
    <2>4. ASSUME Rank(heap[m]) < Rank(heap[j])
          PROVE  m # i
        BY <1>5, <1>6, <2>1, <2>4
    <2>5. ASSUME Rank(heap[m]) < Rank(heap[j])
          PROVE  heap'[heap'[m].child] = heap'[heap[m].child] /\ heap[m].child \in Live'
        <3>1. heap'[m].child = heap[m].child
            BY <1>4, <2>4, <2>5
        <3>2. heap[m].child \in Live /\ heap[heap[m].child].continuation = m
            BY <1>1, <2>1, <2>2, <2>5 DEF Children
        <3>3. heap[m].child # c
            BY <1>5, <2>2, <2>4, <2>5, <3>2
        <3> QED
            BY <1>3, <3>1, <3>2, <3>3
    <2>6. ASSUME Rank(heap[m]) < Rank(heap[j])
          PROVE  /\ Rank(heap'[heap'[m].child]) = Rank(heap[heap[m].child])
                 /\ heap'[m].child = heap[m].child
        BY <1>4, <2>4, <2>5, <2>6
    <2> QED
        BY <2>2, <2>3, <2>6
<1>14. Runners'
    <2>1. active' # None => active' \notin asleep' /\ heap'[active'].at \in {"ready", "resumed"}
        BY <1>1, <1>3, <1>4, <1>7 DEF Ends, Runners
    <2>2. \A j \in asleep' : heap'[j].at \in {"ready", "resumed"}
        <3> SUFFICES ASSUME NEW j \in asleep
                     PROVE  heap'[j].at \in {"ready", "resumed"}
            BY DEF Ends
        <3>1. j \in Live' /\ j # i /\ heap[j].at \in {"ready", "resumed"}
            BY <1>1, <1>2, <1>9 DEF Typed, Runners, Ends
        <3> QED
            BY <1>4, <3>1
    <2>3. ASSUME NEW d \in Callers, calls'[d].state = "pending"
          PROVE  \E j \in asleep' \union ({active'} \ {None}) : heap'[j].by = d
        <3>1. calls[d].state = "pending" /\ (d = b => k # None)
            BY <2>3 DEF Ends
        <3>2. CASE d = b
            BY <1>3, <1>4, <1>7, <3>1, <3>2 DEF Ends
        <3>3. CASE d # b
            <4>1. PICK j \in asleep \union ({active} \ {None}) : heap[j].by = d
                BY <1>1, <3>1 DEF Runners
            <4>2. j \in asleep
                BY <3>3, <4>1
            <4>3. j \in asleep' /\ j \in Live'
                BY <1>9, <4>2 DEF Typed, Ends
            <4> QED
                BY <1>4, <4>1, <4>3
        <3> QED
            BY <3>2, <3>3
    <2>4. ASSUME NEW d \in Callers, calls'[d].state \in {"idle", "done"}, NEW j \in Live'
          PROVE  heap'[j].by # d
        BY <1>1, <1>3, <1>4, <2>4 DEF Ends, Runners
    <2>5. ASSUME NEW d \in Callers, calls'[d].state = "crashed"
          PROVE  calls'[d].run
        <3>1. CASE calls[d].state = "crashed"
            BY <1>1, <3>1 DEF Ends, Runners
        <3>2. CASE calls[d].state # "crashed"
            BY <1>1, <2>5, <3>2 DEF Ends, Parents
        <3> QED
            BY <3>1, <3>2
    <2> QED
        BY <2>1, <2>2, <2>3, <2>4, <2>5 DEF Runners
<1> QED
    BY <1>9, <1>10, <1>11, <1>12, <1>13, <1>14 DEF Links

\* Ending keeps the answers, if i leaves its own where it belongs.
LEMMA EndsAnswers ==
    ASSUME Links, Answers, NEW i \in Live, active = i,
           NEW v \in Values, NEW o \in Ids, NEW s \in Values, Ends(i, v, o, s),
           o # None => o \in Live /\ o # i /\ heap[o].by = heap[i].by,
           \A d \in Callers : /\ Clean(calls'[d]) => Clean(calls[d])
                             /\ calls'[d].got = calls[d].got,
           Clean(calls'[heap[i].by]) =>
              /\ heap[i].code \in Clears => v = Answer(heap[i].by)
              /\ heap[i].code \in Inner =>
                    (IF o = heap[i].out THEN s ELSE heap[heap[i].out].storage) = Answer(heap[i].by)
    PROVE  Answers'
<1> DEFINE c == heap[i].child
           k == heap[i].continuation
           b == heap[i].by
<1>1. Typed /\ Children /\ Parents /\ Outs /\ Total /\ Runners
    BY DEF Links
<1>2. heap[i].at \in {"ready", "resumed"} /\ i # None
    BY <1>1, Places DEF Runners
<1>3. /\ Live' = Live \ {c} /\ i \in Live'
      /\ heap'[i].value = v
    BY <1>2, EndedFacts
<1>4. \A j \in Live' :
         /\ heap'[j].code = heap[j].code /\ heap'[j].by = heap[j].by
         /\ heap'[j].out = heap[j].out
         /\ heap'[j].at = IF j = i THEN "final"
                          ELSE IF j = k THEN "resumed" ELSE heap[j].at
         /\ j # i => heap'[j].value = heap[j].value
         /\ heap'[j].storage = IF j # i /\ j = o THEN s ELSE heap[j].storage
    BY <1>2, EndedFacts
<1>5. /\ c # None => c \in Live /\ heap[c].by = b /\ Rank(heap[i]) < Rank(heap[c])
      /\ \A j \in Live : heap[j].by = b /\ j # i /\ j # c => Rank(heap[j]) < Rank(heap[i])
    BY <1>2, Last
<1>6. \A j \in Live : /\ j \in Heap /\ j # None /\ heap[j].by \in Callers
                     /\ Rank(heap[j]) \in Nat /\ heap[j].code \in Codes
    BY <1>1, LiveFrames, Places DEF Frames
<1>7. \A j \in Live' : heap[j].code \in Inner =>
         /\ heap[j].out \in Live' /\ heap[heap[j].out].by = heap[j].by
         /\ heap[j].out # j /\ heap[heap[j].out].code \in Holders
    <2> SUFFICES ASSUME NEW j \in Live', heap[j].code \in Inner
                 PROVE  /\ heap[j].out \in Live' /\ heap[heap[j].out].by = heap[j].by
                        /\ heap[j].out # j /\ heap[heap[j].out].code \in Holders
        OBVIOUS
    <2>1. j \in Live /\ j # c /\ heap[j].out # None
        BY <1>1, <1>3 DEF Parents
    <2> DEFINE q == heap[j].out
    <2>2. q \in Live /\ heap[q].code \in Holders /\ heap[q].by = heap[j].by
          /\ Rank(heap[q]) < Rank(heap[j])
        BY <1>1, <2>1 DEF Outs
    <2> HIDE DEF q
    <2>3. q # c
        BY <1>5, <1>6, <2>1, <2>2
    <2>4. q # j
        BY <1>6, <2>1, <2>2
    <2> QED
        BY <1>3, <2>2, <2>3, <2>4 DEF q
<1>8. ASSUME NEW j \in Live', heap'[j].at = "final", Clean(calls'[heap[j].by])
      PROVE  /\ heap[j].code \in Clears => heap'[j].value = Answer(heap[j].by)
             /\ heap[j].code \in Inner => heap'[heap[j].out].storage = Answer(heap[j].by)
    <2>1. CASE j = i
        <3>1. heap[i].code \in Inner =>
                 heap'[heap[i].out].storage = IF heap[i].out = o THEN s ELSE heap[heap[i].out].storage
            BY <1>3, <1>4, <1>7
        <3> QED
            BY <1>3, <1>8, <2>1, <3>1
    <2>2. CASE j # i
        <3>1. j \in Live /\ j # c /\ heap[j].at = "final" /\ Clean(calls[heap[j].by])
            BY <1>3, <1>4, <1>6, <1>8, <2>2
        <3>2. heap[j].by # b
            <4>1. heap[j].child = None
                BY <1>1, <3>1 DEF Children
            <4>2. heap[j].by = b => Rank(heap[j]) < Rank(heap[i])
                BY <1>5, <2>2, <3>1
            <4> QED
                BY <1>1, <2>2, <3>1, <4>1, <4>2 DEF Total
        <3>3. /\ heap[j].code \in Clears => heap[j].value = Answer(heap[j].by)
              /\ heap[j].code \in Inner => heap[heap[j].out].storage = Answer(heap[j].by)
            BY <3>1 DEF Answers
        <3>4. heap[j].code \in Inner => heap[j].out # o
            BY <1>3, <1>6, <1>7, <3>1, <3>2
        <3>5. heap[j].code \in Inner => heap'[heap[j].out].storage = heap[heap[j].out].storage
            BY <1>4, <1>7, <3>4
        <3> QED
            BY <1>4, <2>2, <3>3, <3>5
    <2> QED
        BY <2>1, <2>2
<1>9. ASSUME NEW d \in Callers, calls'[d].state = "done", Clean(calls'[d])
      PROVE  calls'[d].got = Answer(d)
    <2>1. calls[d].state = "done" /\ Clean(calls[d])
        BY <1>9 DEF Ends
    <2> QED
        BY <2>1 DEF Answers
<1>10. ASSUME NEW j \in Live', heap'[j].at = "final", Clean(calls'[heap'[j].by])
       PROVE  /\ heap'[j].code \in Clears => heap'[j].value = Answer(heap'[j].by)
              /\ heap'[j].code \in Inner => heap'[heap'[j].out].storage = Answer(heap'[j].by)
    <2>1. Clean(calls'[heap[j].by])
        BY <1>4, <1>10
    <2> QED
        BY <1>4, <1>8, <1>10, <2>1
<1> QED
    BY <1>9, <1>10 DEF Answers

\* The holder a frame writes to is another frame of its call, and not the one it awaits.
LEMMA Holder ==
    ASSUME Links, NEW i \in Live, heap[i].at \in {"ready", "resumed"},
           NEW o, o = heap[i].out, o # None
    PROVE  o \in Live /\ o \in Ids /\ o # i /\ o # heap[i].child /\ heap[o].by = heap[i].by
<1>1. o \in Live /\ heap[o].by = heap[i].by /\ Rank(heap[o]) < Rank(heap[i])
    BY DEF Links, Outs
<1>2. Rank(heap[o]) \in Nat /\ Rank(heap[i]) \in Nat
    BY <1>1, LiveFrames, Places DEF Links
<1>3. heap[i].child # None => Rank(heap[i]) < Rank(heap[heap[i].child])
                           /\ heap[i].child \in Live
    BY Last
<1>4. heap[i].child # None => Rank(heap[heap[i].child]) \in Nat
    BY <1>3, LiveFrames, Places DEF Links
<1> QED
    BY <1>1, <1>2, <1>3, <1>4, Places DEF Ids

\* What a resumed frame takes from the one it awaited.
LEMMA TakenAnswer ==
    ASSUME Links, Answers, NEW i \in Live, heap[i].at = "resumed"
    PROVE  LET c == heap[i].child IN
           /\ c # None /\ c \in Live /\ heap[c].code \in Awaits[heap[i].code]
           /\ heap[c].out = IF heap[i].code \in Holders THEN i ELSE heap[i].out
           /\ Taken(i) \in Values
           /\ Clean(calls[heap[i].by]) =>
                 /\ heap[c].code \in Clears => Taken(i) = Answer(heap[i].by)
                 /\ heap[c].code \in Inner =>
                       heap[heap[c].out].storage = Answer(heap[i].by)
<1> DEFINE c == heap[i].child
<1>1. /\ c # None /\ c \in Live /\ heap[c].code \in Awaits[heap[i].code]
      /\ heap[c].continuation = i /\ heap[c].by = heap[i].by
      /\ heap[c].at = "final"
    BY DEF Links, Children
<1>2. i # None
    BY Places
<1>3. heap[c].out = IF heap[i].code \in Holders THEN i ELSE heap[i].out
    BY <1>1, <1>2 DEF Links, Parents
<1>4. heap[c].value \in Values
    BY <1>1, LiveFrames, Places DEF Links, Frames
<1> QED
    BY <1>1, <1>3, <1>4 DEF Taken, Answers

\* To finish keeps the invariant, if the answer is left where it belongs.
LEMMA FinishKeeps ==
    ASSUME Links, Answers, NEW i \in Live, active = i, heap[i].code # "caller",
           NEW v \in Values, NEW s \in Values, NEW o \in {None, heap[i].out},
           Finish(Placed(i, o, s), i, v), asleep' = asleep,
           Clean(calls[heap[i].by]) =>
              /\ heap[i].code \in Clears => v = Answer(heap[i].by)
              /\ heap[i].code \in Inner =>
                    (IF o = heap[i].out THEN s ELSE heap[heap[i].out].storage) = Answer(heap[i].by)
    PROVE  IInv'
<1>1. heap[i].at \in {"ready", "resumed"} /\ i \in Heap /\ i # None
    BY Places DEF Links, Runners
<1>2. o \in Ids /\ (o # None => /\ o \in Live /\ o # i /\ o # heap[i].child
                              /\ heap[o].by = heap[i].by)
    BY <1>1, Holder DEF Ids
<1>3. /\ Ends(i, v, o, s)
      /\ \A d \in Callers : /\ calls'[d].threw = calls[d].threw
                            /\ calls'[d].dangled = calls[d].dangled
                            /\ calls'[d].got = calls[d].got
    BY <1>1, <1>2, FinishEnds
<1>4. \A d \in Callers : Clean(calls'[d]) <=> Clean(calls[d])
    BY <1>3 DEF Clean
<1>5. Links'
    BY <1>2, <1>3, EndsLinks
<1>6. heap[i].by \in Callers
    BY <1>1, LiveFrames DEF Links, Frames
<1>7. Answers'
    BY <1>2, <1>3, <1>4, <1>6, EndsAnswers
<1> QED
    BY <1>5, <1>7 DEF IInv

------------------------------------------------------------------------------
(* The actions.                                                            *)

\* A frame that runs is at its place.
LEMMA Runs ==
    ASSUME Links, NEW i \in Heap, active = i
    PROVE  i \in Live /\ heap[i] \in Frames /\ heap[i].by \in Callers /\ Unset \in Values
<1>1. i \in Live
    BY Places DEF Links, Typed
<1> QED
    BY <1>1, LiveFrames DEF Links, Frames, Values

\* One that was just called awaits nobody.
LEMMA ReadyPlaced ==
    ASSUME Links, NEW i \in Heap, active = i, heap[i].at = "ready"
    PROVE  Placed(i, None, Unset) = heap
<1>1. i \in Live /\ heap[i] \in Frames
    BY Runs
<1>2. heap[i].child = None
    BY <1>1 DEF Links, Children
<1>3. heap = [j \in Heap |-> heap[j]]
    BY DEF Links, Typed
<1>4. [heap[i] EXCEPT !.child = None] = heap[i]
    BY <1>1, <1>2 DEF Frames
<1>5. Placed(i, None, Unset) = [heap EXCEPT ![None] = Free, ![i].child = None]
    BY <1>2 DEF Placed, Destroyed
<1> QED
    BY <1>3, <1>4, <1>5, Places

\* An implementation returns the answer to the call it is made for.
LEMMA ImplementKeeps ==
    ASSUME IInv, NEW i \in Heap, Implement(i)
    PROVE  IInv'
<1>1. /\ Links /\ Answers /\ active = i /\ heap[i].at = "ready" /\ heap[i].code = "impl"
      /\ Finish(heap, i, Answer(heap[i].by)) /\ asleep' = asleep
    BY DEF IInv, Implement, At
<1>2. i \in Live /\ heap[i] \in Frames /\ heap[i].by \in Callers /\ Unset \in Values
    BY <1>1, Runs
<1>4. Placed(i, None, Unset) = heap
    BY <1>1, ReadyPlaced
<1>5. Answer(heap[i].by) \in Values
    BY <1>2 DEF Answer, Values
<1>6. "impl" \in Clears /\ "impl" \notin Inner
    BY DEF Clears, Inner
<1> QED
    BY <1>1, <1>2, <1>4, <1>5, <1>6, FinishKeeps

\* The result that is passed on is the answer where the one awaited returns it; and
\* where that one has written it, it is where it belongs.
LEMMA PassOnKeeps ==
    ASSUME IInv, NEW i \in Heap, PassOn(i) \/ ReturnCopy(i)
    PROVE  IInv'
<1>1. /\ Links /\ Answers /\ active = i /\ heap[i].at = "resumed"
      /\ heap[i].code \in {"union_caller", "visit", "translator", "impl", "stub"}
      /\ Finish(Placed(i, None, Unset), i, Taken(i)) /\ asleep' = asleep
    BY DEF IInv, PassOn, ReturnCopy, At, Placed
<1>2. i \in Live /\ heap[i] \in Frames /\ heap[i].by \in Callers /\ Unset \in Values
    BY <1>1, Runs
<1> DEFINE c == heap[i].child
<1>3. /\ heap[c].code \in Awaits[heap[i].code]
      /\ heap[c].out = IF heap[i].code \in Holders THEN i ELSE heap[i].out
      /\ Taken(i) \in Values
      /\ Clean(calls[heap[i].by]) =>
            /\ heap[c].code \in Clears => Taken(i) = Answer(heap[i].by)
            /\ heap[c].code \in Inner => heap[heap[c].out].storage = Answer(heap[i].by)
    BY <1>1, <1>2, TakenAnswer
<1>4. /\ heap[i].code \notin Holders
      /\ heap[i].code \in Clears => heap[c].code \in Clears
      /\ heap[i].code \in Inner => heap[c].code \in Inner
    BY <1>1, <1>3 DEF Awaits, Holders, Clears, Inner, Codes, Clients
<1>5. heap[i].code \in Inner => heap[i].out # None
    BY <1>1, <1>2 DEF Links, Parents
<1>6. heap[i].code # "caller"
    BY <1>1
<1> HIDE DEF c
<1> QED
    BY <1>1, <1>2, <1>3, <1>4, <1>5, <1>6, FinishKeeps

\* What a holder returns is what those below it have written.
LEMMA ReturnStorageKeeps ==
    ASSUME IInv, NEW i \in Heap, ReturnStorage(i)
    PROVE  IInv'
<1>1. /\ Links /\ Answers /\ active = i /\ heap[i].at = "resumed"
      /\ heap[i].code \in Holders
      /\ Finish(Placed(i, None, Unset), i, heap[i].storage) /\ asleep' = asleep
    BY DEF IInv, ReturnStorage, At, Placed
<1>2. i \in Live /\ heap[i] \in Frames /\ heap[i].by \in Callers /\ Unset \in Values
    BY <1>1, Runs
<1> DEFINE c == heap[i].child
<1>3. /\ heap[c].code \in Awaits[heap[i].code]
      /\ heap[c].out = i
      /\ Clean(calls[heap[i].by]) =>
            (heap[c].code \in Inner => heap[heap[c].out].storage = Answer(heap[i].by))
    BY <1>1, <1>2, TakenAnswer
<1>4. heap[c].code \in Inner /\ heap[i].code \notin Inner /\ heap[i].code # "caller"
    BY <1>1, <1>3 DEF Awaits, Holders, Clears, Inner, Codes
<1>5. heap[i].storage \in Values
    BY <1>2 DEF Frames
<1> HIDE DEF c
<1> QED
    BY <1>1, <1>2, <1>3, <1>4, <1>5, FinishKeeps

\* The one that writes it is above the implementation.
LEMMA WriteKeeps ==
    ASSUME IInv, NEW i \in Heap, DoCall(i) \/ ApplyValue(i)
    PROVE  IInv'
<1> DEFINE o == heap[i].out
<1>1. /\ Links /\ Answers /\ active = i /\ heap[i].at = "resumed"
      /\ heap[i].code \in {"do_call", "apply"}
      /\ Finish(Place(Destroyed(heap, i), i, Taken(i)), i, "true") /\ asleep' = asleep
    BY DEF IInv, DoCall, ApplyValue, At
<1>2. i \in Live /\ heap[i] \in Frames /\ heap[i].by \in Callers /\ Unset \in Values
    BY <1>1, Runs
<1>3. /\ heap[heap[i].child].code \in Awaits[heap[i].code]
      /\ Taken(i) \in Values
      /\ Clean(calls[heap[i].by]) =>
            (heap[heap[i].child].code \in Clears => Taken(i) = Answer(heap[i].by))
    BY <1>1, <1>2, TakenAnswer
<1>4. /\ heap[heap[i].child].code \in Clears
      /\ heap[i].code \in Inner /\ heap[i].code \notin Clears /\ heap[i].code # "caller"
    BY <1>1, <1>3 DEF Awaits, Clears, Inner, Codes
<1>5. o # None
    BY <1>1, <1>2, <1>4 DEF Links, Parents
<1>6. Place(Destroyed(heap, i), i, Taken(i)) = Placed(i, o, Taken(i))
    <2>1. Placed(i, None, Unset)[i].out = o
        BY <1>1, <1>2, Places, PlacedKeeps DEF Ids
    <2> QED
        BY <1>5, <2>1 DEF Place, Placed
<1>7. "true" \in Values
    BY DEF Values
<1> QED
    BY <1>1, <1>2, <1>3, <1>4, <1>6, <1>7, FinishKeeps

\* A call that throws, or whose answer is a view of what was destroyed, is not clean.
LEMMA SpoiltKeeps ==
    ASSUME Links, Answers, NEW i \in Live, active = i,
           heap[i].code # "caller", heap[i].continuation # None,
           NEW v \in Values, NEW s \in Values, NEW o \in {None, heap[i].out},
           heap' = Finished(Placed(i, o, s), i, v, heap[i].continuation),
           active' = heap[i].continuation, asleep' = asleep,
           \/ calls' = [calls EXCEPT ![heap[i].by].threw = TRUE]
           \/ calls' = [calls EXCEPT ![heap[i].by].dangled = TRUE]
    PROVE  IInv'
<1>1. heap[i].at \in {"ready", "resumed"} /\ i \in Heap /\ i # None
    BY Places DEF Links, Runners
<1>2. o \in Ids /\ (o # None => /\ o \in Live /\ o # i /\ o # heap[i].child
                              /\ heap[o].by = heap[i].by)
    BY <1>1, Holder DEF Ids
<1>3. heap' = Ended(i, v, o, s)
    BY <1>1, <1>2, FinishHeap
<1>4. calls \in [Callers -> Records] /\ heap[i].by \in Callers
    BY <1>1, LiveFrames DEF Links, Typed, Frames
<1>5. \A r \in Records : /\ [r EXCEPT !.threw = TRUE] \in Records
                        /\ [r EXCEPT !.dangled = TRUE] \in Records
    BY DEF Records
<1>6. calls' \in [Callers -> Records]
    BY <1>4, <1>5
<1>7. \A d \in Callers : /\ calls'[d].run = calls[d].run
                        /\ calls'[d].state = calls[d].state
                        /\ calls'[d].got = calls[d].got
    BY <1>4 DEF Records
<1>8. /\ ~Clean(calls'[heap[i].by])
      /\ \A d \in Callers : d # heap[i].by => calls'[d] = calls[d]
    BY <1>4 DEF Clean, Records
<1>9. Ends(i, v, o, s)
    BY <1>3, <1>6, <1>7 DEF Ends
<1>10. Links'
    BY <1>2, <1>9, EndsLinks
<1>11. \A d \in Callers : Clean(calls'[d]) => Clean(calls[d])
    BY <1>8
<1>12. Answers'
    BY <1>2, <1>7, <1>8, <1>9, <1>11, EndsAnswers
<1> QED
    BY <1>10, <1>12 DEF IInv

\* One that throws leaves no answer.
LEMMA ThrowKeeps ==
    ASSUME IInv, NEW i \in Heap, Throw(i)
    PROVE  IInv'
<1> DEFINE k == heap[i].continuation
           v == heap[i].value
<1>1. /\ Links /\ Answers /\ active = i /\ heap[i].at = "ready" /\ heap[i].code = "impl"
      /\ heap' = [heap EXCEPT ![i].at = "final", ![k].at = "resumed"]
      /\ active' = k /\ asleep' = asleep
      /\ calls' = [calls EXCEPT ![heap[i].by].threw = TRUE]
    BY DEF IInv, Throw, At
<1>2. i \in Live /\ heap[i] \in Frames /\ heap[i].by \in Callers /\ Unset \in Values
    BY <1>1, Runs
<1>3. heap[i].code # "caller" /\ k # None
    BY <1>1, <1>2 DEF Links, Parents, Clients
<1>4. v \in Values
    BY <1>2 DEF Frames
<1>5. Done(heap, i, v) = [heap EXCEPT ![i].at = "final"]
    <2>1. heap = [j \in Heap |-> heap[j]]
        BY <1>1 DEF Links, Typed
    <2>2. [heap[i] EXCEPT !.value = v, !.at = "final"] = [heap[i] EXCEPT !.at = "final"]
        BY <1>2 DEF Frames
    <2>3. Done(heap, i, v) = [heap EXCEPT ![i] = [heap[i] EXCEPT !.value = v, !.at = "final"]]
        BY <2>1 DEF Done
    <2> QED
        BY <2>1, <2>2, <2>3
<1>6. heap' = Finished(heap, i, v, k)
    BY <1>1, <1>3, <1>5 DEF Finished
<1>7. Placed(i, None, Unset) = heap
    BY <1>1, ReadyPlaced
<1> QED
    BY <1>1, <1>2, <1>3, <1>4, <1>6, <1>7, SpoiltKeeps

\* The view that apply copies may be gone.
LEMMA ApplyViewKeeps ==
    ASSUME IInv, NEW i \in Heap, ApplyView(i)
    PROVE  IInv'
<1> DEFINE o == heap[i].out
           k == heap[i].continuation
<1>1. /\ Links /\ Answers /\ active = i /\ heap[i].at = "resumed" /\ heap[i].code = "apply"
      /\ asleep' = asleep /\ active' = k
      /\ calls' = [calls EXCEPT ![heap[i].by].dangled = TRUE]
    BY DEF IInv, ApplyView, At
<1>2. PICK said \in {Taken(i), Garbage} :
         heap' = [Place(Destroyed(heap, i), i, said) EXCEPT
                     ![i].value = "true", ![i].at = "final", ![k].at = "resumed"]
    BY DEF ApplyView
<1>3. i \in Live /\ heap[i] \in Frames /\ heap[i].by \in Callers /\ Unset \in Values
    BY <1>1, Runs
<1>4. said \in Values /\ "true" \in Values
    BY <1>1, <1>3, TakenAnswer DEF Values
<1>5. heap[i].code # "caller" /\ k # None /\ o # None
    BY <1>1, <1>3 DEF Links, Parents, Clients, Inner, Codes, Clears
<1>6. Place(Destroyed(heap, i), i, said) = Placed(i, o, said)
    <2>1. Placed(i, None, Unset)[i].out = o
        BY <1>1, <1>3, Places, PlacedKeeps DEF Ids
    <2> QED
        BY <1>5, <2>1 DEF Place, Placed
<1>7. heap' = Finished(Placed(i, o, said), i, "true", k)
    BY <1>2, <1>5, <1>6 DEF Finished, Done
<1> QED
    BY <1>1, <1>3, <1>4, <1>5, <1>7, SpoiltKeeps

\* While it waits for the outside world a call goes on where it is.
LEMMA SleepKeeps ==
    ASSUME IInv, NEW i \in Heap, Sleep(i)
    PROVE  IInv'
<1>1. /\ Typed /\ Children /\ Parents /\ Outs /\ Total /\ Runners /\ Links /\ Answers
      /\ active = i /\ heap' = heap /\ Live' = Live
      /\ calls' = [calls EXCEPT ![heap[i].by].waits = @ + 1]
      /\ asleep' = asleep \union {i} /\ active' = None
      /\ heap[i].at \in {"ready", "resumed"}
    BY DEF IInv, Links, Sleep, Live
<1>2. i \in Live /\ heap[i].by \in Callers
    BY <1>1, Runs
<1>3. calls \in [Callers -> Records]
    BY <1>1 DEF Typed
<1>4. \A r \in Records : [r EXCEPT !.waits = r.waits + 1] \in Records
    BY DEF Records
<1>5. /\ calls' \in [Callers -> Records]
      /\ \A d \in Callers :
            /\ calls'[d].run = calls[d].run /\ calls'[d].threw = calls[d].threw
            /\ calls'[d].dangled = calls[d].dangled /\ calls'[d].got = calls[d].got
            /\ calls'[d].state = calls[d].state
    BY <1>1, <1>2, <1>3, <1>4 DEF Records
<1>6. \A j \in Live : heap[j].by \in Callers
    BY <1>1, LiveFrames, Places DEF Frames
<1>7. Typed' /\ Children' /\ Outs' /\ Total'
    BY <1>1, <1>2, <1>5 DEF Typed, Children, Outs, Total
<1>8. Parents'
    BY <1>1, <1>5, <1>6 DEF Parents
<1>9. Runners'
    <2>1. \A j \in asleep' : heap'[j].at \in {"ready", "resumed"}
        BY <1>1 DEF Runners
    <2>2. asleep' \union ({active'} \ {None}) = asleep \union ({active} \ {None})
        BY <1>1, <1>2, Places
    <2> QED
        BY <1>1, <1>5, <2>1, <2>2 DEF Runners
<1>10. Answers'
    BY <1>1, <1>5, <1>6 DEF Answers, Clean
<1> QED
    BY <1>7, <1>8, <1>9, <1>10 DEF IInv, Links

\* What the outside world resumes was the runner of its call.
LEMMA WakeKeeps ==
    ASSUME IInv, NEW i \in Heap, Wake(i)
    PROVE  IInv'
<1>1. /\ Typed /\ Children /\ Parents /\ Outs /\ Total /\ Runners /\ Answers
      /\ active = None /\ heap' = heap /\ Live' = Live /\ calls' = calls
      /\ i \in asleep /\ asleep' = asleep \ {i} /\ active' = i
    BY DEF IInv, Links, Wake, Live
<1>2. i \in Live
    BY <1>1 DEF Typed
<1>3. Typed' /\ Children' /\ Outs' /\ Total' /\ Parents'
    BY <1>1, <1>2 DEF Typed, Children, Outs, Total, Parents
<1>4. Runners'
    <2>1. asleep' \union ({active'} \ {None}) = asleep \union ({active} \ {None})
        BY <1>1, <1>2, Places
    <2> QED
        BY <1>1, <2>1 DEF Runners
<1>5. Answers'
    BY <1>1 DEF Answers
<1> QED
    BY <1>3, <1>4, <1>5 DEF IInv, Links

\* The caller ends with what it has taken, and leaves no frame of its call behind.
LEMMA EndKeeps ==
    ASSUME IInv, NEW i \in Heap, End(i)
    PROVE  IInv'
<1> DEFINE c == heap[i].child
           b == heap[i].by
<1>0. Typed /\ Children /\ Parents /\ Outs /\ Total /\ Runners /\ Answers
    BY DEF IInv, Links
<1>1. /\ Typed /\ Children /\ Parents /\ Outs /\ Total /\ Runners /\ Links /\ Answers
      /\ active = i /\ heap[i].at = "resumed" /\ heap[i].code = "caller"
      /\ heap' = [Destroyed(heap, i) EXCEPT ![i] = Free]
      /\ active' = None /\ asleep' = asleep
      /\ calls' = [calls EXCEPT ![b].got = Taken(i), ![b].state = "done"]
    BY DEF IInv, Links, End, At
<1>2. i \in Live /\ heap[i] \in Frames /\ b \in Callers /\ i # None
    BY <1>1, Runs, Places
<1>3. /\ c # None /\ c \in Live /\ heap[c].code \in Awaits[heap[i].code]
      /\ Taken(i) \in Values
      /\ Clean(calls[b]) => (heap[c].code \in Clears => Taken(i) = Answer(b))
    BY <1>1, <1>2, TakenAnswer
<1>4. heap[c].code \in Clears
    BY <1>1, <1>3 DEF Awaits, Clients, Clears
<1>5. /\ c # i /\ heap[c].by = b /\ heap[c].at = "final"
      /\ \A j \in Live : heap[j].by = b /\ j # i /\ j # c => Rank(heap[j]) < Rank(heap[i])
    BY <1>1, <1>2, <1>3, Last
<1>6. heap[i].continuation = None
    BY <1>1, <1>2 DEF Parents
<1>7. \A j \in Live : j # i /\ j # c => heap[j].by # b
    BY <1>1, <1>2, <1>5, <1>6 DEF Total
<1>8. heap' = [j \in Heap |-> IF j \in {i, c} THEN Free ELSE heap[j]]
    <2>1. heap = [j \in Heap |-> heap[j]]
        BY <1>1 DEF Typed
    <2> QED
        BY <1>1, <1>3, <1>5, <2>1, Places DEF Destroyed
<1>9. Live' = Live \ {i, c} /\ \A j \in Live' : heap'[j] = heap[j]
    <2>1. \A j \in Heap : j \in Live' <=> heap'[j].code # "free"
        BY DEF Live
    <2>2. \A j \in Live' : j \in Heap
        BY DEF Live
    <2>3. \A j \in Heap : j \in Live <=> heap[j].code # "free"
        BY DEF Live
    <2> QED
        BY <1>8, <2>1, <2>2, <2>3, Places DEF Free
<1>11. \A j \in Live' :
          /\ heap'[j].code = heap[j].code /\ heap'[j].by = heap[j].by
          /\ heap'[j].at = heap[j].at /\ heap'[j].child = heap[j].child
          /\ heap'[j].continuation = heap[j].continuation /\ heap'[j].out = heap[j].out
          /\ heap'[j].value = heap[j].value /\ heap'[j].storage = heap[j].storage
          /\ heap'[j].level = heap[j].level /\ Rank(heap'[j]) = Rank(heap[j])
    BY <1>9
<1>10. calls \in [Callers -> Records] /\ \A j \in Live : heap[j].by \in Callers
    BY <1>1, LiveFrames, Places DEF Typed, Frames
<1>12. /\ calls' \in [Callers -> Records]
       /\ \A d \in Callers :
             /\ calls'[d].run = calls[d].run /\ calls'[d].threw = calls[d].threw
             /\ calls'[d].dangled = calls[d].dangled
             /\ d # b => calls'[d] = calls[d]
       /\ calls'[b].got = Taken(i) /\ calls'[b].state = "done"
    <2>1. /\ calls' = [d \in Callers |-> calls'[d]]
          /\ calls'[b] = [calls[b] EXCEPT !.got = Taken(i), !.state = "done"]
          /\ \A d \in Callers : d # b => calls'[d] = calls[d]
        BY <1>1, <1>2, <1>10
    <2>2. calls[b] \in Records
        BY <1>2, <1>10
    <2>3. /\ calls'[b] \in Records
          /\ calls'[b].got = Taken(i) /\ calls'[b].state = "done"
          /\ calls'[b].run = calls[b].run /\ calls'[b].threw = calls[b].threw
          /\ calls'[b].dangled = calls[b].dangled
        BY <1>3, <2>1, <2>2 DEF Records, States
    <2>4. \A d \in Callers : calls'[d] \in Records
        BY <1>10, <2>1, <2>3
    <2> QED
        BY <2>1, <2>3, <2>4
<1>13. \A j \in Live' : j \in Live /\ heap[j].by # b
    BY <1>7, <1>9
\* Frames of other calls refer to none of this one.
<1>14. \A j \in Live' :
          /\ heap[j].child # None => heap[j].child \in Live'
          /\ heap[j].continuation # None => heap[j].continuation \in Live'
          /\ heap[j].out # None => heap[j].out \in Live'
    <2> SUFFICES ASSUME NEW j \in Live'
                 PROVE  /\ heap[j].child # None => heap[j].child \in Live'
                        /\ heap[j].continuation # None => heap[j].continuation \in Live'
                        /\ heap[j].out # None => heap[j].out \in Live'
        OBVIOUS
    <2>1. j \in Live /\ heap[j].by # b
        BY <1>13
    <2>2. heap[j].child # None => heap[j].child \in Live /\ heap[heap[j].child].by # b
        BY <1>1, <2>1 DEF Children
    <2>3. heap[j].continuation # None =>
             heap[j].continuation \in Live /\ heap[heap[j].continuation].child = j
        BY <1>1, <2>1 DEF Parents
    <2>4. heap[j].continuation # None => heap[heap[j].continuation].by # b
        BY <1>1, <2>1, <2>3, Places DEF Children
    <2>5. heap[j].out # None => heap[j].out \in Live /\ heap[heap[j].out].by # b
        BY <1>1, <2>1 DEF Outs
    <2> QED
        BY <1>5, <1>9, <2>2, <2>3, <2>4, <2>5
<1>15. Typed'
    <2>1. heap' \in [Heap -> Frames \union {Free}]
        BY <1>1, <1>8 DEF Typed
    <2>2. asleep' \subseteq Live'
        BY <1>1, <1>2, <1>5, <1>9 DEF Typed, Runners
    <2> QED
        BY <1>1, <1>9, <1>12, <2>1, <2>2 DEF Typed
<1>16. Children'
    <2> SUFFICES ASSUME NEW j \in Live'
                 PROVE  LET d == heap'[j].child IN
                        /\ d = None <=> heap'[j].at \in {"ready", "final"}
                        /\ d # None => /\ d \in Live'
                                       /\ heap'[d].continuation = j
                                       /\ heap'[d].by = heap'[j].by
                                       /\ heap'[d].code \in Awaits[heap'[j].code]
                                       /\ Rank(heap'[j]) < Rank(heap'[d])
                                       /\ heap'[j].at = IF heap'[d].at = "final" THEN "resumed"
                                                        ELSE "awaiting"
        BY DEF Children
    <2> DEFINE d == heap[j].child
    <2>1. j \in Live /\ heap'[j].child = d
        BY <1>11, <1>13
    <2>2. /\ d = None <=> heap[j].at \in {"ready", "final"}
          /\ d # None => /\ heap[d].continuation = j
                         /\ heap[d].by = heap[j].by
                         /\ heap[d].code \in Awaits[heap[j].code]
                         /\ Rank(heap[j]) < Rank(heap[d])
                         /\ heap[j].at = IF heap[d].at = "final" THEN "resumed" ELSE "awaiting"
        BY <1>0, <2>1 DEF Children
    <2>3. d # None => d \in Live'
        BY <1>14
    <2> HIDE DEF d
    <2> QED
        BY <1>11, <2>1, <2>2, <2>3
<1>17. Parents'
    <2> SUFFICES ASSUME NEW j \in Live'
                 PROVE  LET p == heap'[j].continuation IN
                        /\ p = None => /\ heap'[j].code \in Clients \union {"caller"}
                                       /\ heap'[j].out = None
                                       /\ heap'[j].code # "caller" => calls'[heap'[j].by].run
                        /\ p # None => /\ p \in Live'
                                       /\ heap'[p].child = j
                                       /\ heap'[j].out = IF heap'[p].code \in Holders
                                                         THEN p ELSE heap'[p].out
                                       /\ heap'[j].code # "caller"
                        /\ heap'[j].code \in Inner => heap'[j].out # None
        BY DEF Parents
    <2> DEFINE p == heap[j].continuation
    <2>1. j \in Live /\ heap'[j].continuation = p
        BY <1>11, <1>13
    <2>2. /\ p = None => /\ heap[j].code \in Clients \union {"caller"}
                         /\ heap[j].out = None
                         /\ heap[j].code # "caller" => calls[heap[j].by].run
          /\ p # None => /\ heap[p].child = j
                         /\ heap[j].out = IF heap[p].code \in Holders THEN p ELSE heap[p].out
                         /\ heap[j].code # "caller"
          /\ heap[j].code \in Inner => heap[j].out # None
        BY <1>0, <2>1 DEF Parents
    <2>3. p # None => p \in Live'
        BY <1>14
    <2>4. calls'[heap[j].by].run = calls[heap[j].by].run
        BY <1>10, <1>12, <2>1
    <2> HIDE DEF p
    <2> QED
        BY <1>11, <2>1, <2>2, <2>3, <2>4
<1>18. Outs'
    <2> SUFFICES ASSUME NEW j \in Live', heap'[j].out # None
                 PROVE  LET q == heap'[j].out IN
                        /\ q \in Live' /\ heap'[q].code \in Holders
                        /\ heap'[q].by = heap'[j].by
                        /\ Rank(heap'[q]) < Rank(heap'[j])
        BY DEF Outs
    <2> DEFINE q == heap[j].out
    <2>1. j \in Live /\ heap'[j].out = q /\ q # None
        BY <1>11, <1>13
    <2>2. heap[q].code \in Holders /\ heap[q].by = heap[j].by /\ Rank(heap[q]) < Rank(heap[j])
        BY <1>0, <2>1 DEF Outs
    <2>3. q \in Live'
        BY <1>14, <2>1
    <2> HIDE DEF q
    <2> QED
        BY <1>11, <2>1, <2>2, <2>3
<1>19. Total'
    <2> SUFFICES ASSUME NEW m \in Live', NEW j \in Live',
                        heap'[m].by = heap'[j].by, m # j
                 PROVE  /\ Rank(heap'[m]) # Rank(heap'[j])
                        /\ Rank(heap'[m]) < Rank(heap'[j]) =>
                              /\ heap'[m].child # None
                              /\ Rank(heap'[heap'[m].child]) <= Rank(heap'[j])
                              /\ heap'[j].continuation # None
        BY DEF Total
    <2>1. m \in Live /\ j \in Live /\ heap[m].by = heap[j].by
        BY <1>11, <1>13
    <2>2. /\ Rank(heap[m]) # Rank(heap[j])
          /\ Rank(heap[m]) < Rank(heap[j]) => /\ heap[m].child # None
                                             /\ Rank(heap[heap[m].child]) <= Rank(heap[j])
                                             /\ heap[j].continuation # None
        BY <1>0, <2>1 DEF Total
    <2>3. heap[m].child # None => Rank(heap'[heap[m].child]) = Rank(heap[heap[m].child])
        <3> DEFINE d == heap[m].child
        <3>1. d # None => d \in Live'
            BY <1>14
        <3> HIDE DEF d
        <3>2. d # None => Rank(heap'[d]) = Rank(heap[d])
            BY <1>11, <3>1
        <3> QED
            BY <3>2 DEF d
    <2>4. heap'[m].child = heap[m].child /\ heap'[j].continuation = heap[j].continuation
          /\ Rank(heap'[m]) = Rank(heap[m]) /\ Rank(heap'[j]) = Rank(heap[j])
        BY <1>11
    <2> QED
        BY <2>2, <2>3, <2>4
<1>20. Runners'
    <2>1. \A j \in asleep' : heap'[j].at \in {"ready", "resumed"}
        BY <1>0, <1>1, <1>9, <1>15 DEF Runners, Typed
    <2>2. ASSUME NEW d \in Callers, calls'[d].state = "pending"
          PROVE  \E j \in asleep' \union ({active'} \ {None}) : heap'[j].by = d
        <3>1. d # b /\ calls[d].state = "pending"
            BY <1>12, <2>2
        <3>2. PICK j \in asleep \union ({active} \ {None}) : heap[j].by = d
            BY <1>0, <3>1 DEF Runners
        <3>3. j \in asleep'
            BY <1>1, <3>1, <3>2
        <3> QED
            BY <1>9, <1>15, <3>2, <3>3 DEF Typed
    <2>3. ASSUME NEW d \in Callers, calls'[d].state \in {"idle", "done"}, NEW j \in Live'
          PROVE  heap'[j].by # d
        BY <1>0, <1>9, <1>12, <1>13, <2>3 DEF Runners
    <2>4. ASSUME NEW d \in Callers, calls'[d].state = "crashed"
          PROVE  calls'[d].run
        BY <1>0, <1>12, <2>4 DEF Runners
    <2> QED
        BY <1>1, <2>1, <2>2, <2>3, <2>4 DEF Runners
<1>21. Answers'
    <2>1. ASSUME NEW j \in Live', heap'[j].at = "final", Clean(calls'[heap'[j].by])
          PROVE  /\ heap'[j].code \in Clears => heap'[j].value = Answer(heap'[j].by)
                 /\ heap'[j].code \in Inner => heap'[heap'[j].out].storage = Answer(heap'[j].by)
        <3>1. j \in Live /\ heap'[j] = heap[j] /\ heap[j].by \in Callers
            BY <1>9, <1>10
        <3>2. Clean(calls[heap[j].by])
            BY <1>12, <2>1, <3>1 DEF Clean
        <3>3. heap[j].code \in Inner => heap'[heap[j].out].storage = heap[heap[j].out].storage
            <4> DEFINE q == heap[j].out
            <4>1. heap[j].code \in Inner => q \in Live'
                BY <1>0, <1>14, <3>1 DEF Parents
            <4> HIDE DEF q
            <4>2. heap[j].code \in Inner => heap'[q].storage = heap[q].storage
                BY <1>11, <4>1
            <4> QED
                BY <4>2 DEF q
        <3> QED
            BY <1>0, <1>11, <2>1, <3>1, <3>2, <3>3 DEF Answers
    <2>2. ASSUME NEW d \in Callers, calls'[d].state = "done", Clean(calls'[d])
          PROVE  calls'[d].got = Answer(d)
        <3>1. Clean(calls[d])
            BY <1>12, <2>2 DEF Clean
        <3>2. CASE d = b
            BY <1>3, <1>4, <1>12, <3>1, <3>2
        <3>3. CASE d # b
            BY <1>1, <1>12, <2>2, <3>1, <3>3 DEF Answers
        <3> QED
            BY <3>2, <3>3
    <2> QED
        BY <2>1, <2>2 DEF Answers
<1> QED
    BY <1>15, <1>16, <1>17, <1>18, <1>19, <1>20, <1>21 DEF IInv, Links

\* A new frame gets a place nobody has.
LEMMA NewPlace == Room => /\ NewId \in Heap /\ NewId \notin Live /\ NewId # None
<1>1. SUFFICES ASSUME Room
               PROVE  NewId \in Heap /\ NewId \notin Live
    BY Places
<1>2. \E j \in Heap : j \notin Live
    BY <1>1 DEF Room
<1> QED
    BY <1>2 DEF NewId

\* The frame a coroutine makes, and whom it is to resume.
Called(code, d, k, out, level) == [Frame(code, d, None, out, level) EXCEPT !.continuation = k]
LEMMA NewFrame ==
    ASSUME NEW code \in Codes, NEW d \in Callers, NEW k \in Ids, NEW out \in Ids,
           NEW level \in Nat,
           NEW f, f = Called(code, d, k, out, level)
    PROVE  /\ f \in Frames
           /\ f.code = code /\ f.by = d /\ f.at = "ready" /\ f.child = None
           /\ f.continuation = k /\ f.out = out /\ f.level = level
BY DEF Frames, Frame, Ids, Values, Called

\* A frame that calls another one is no longer the last of its call.
LEMMA CallKeeps ==
    ASSUME IInv, NEW i \in Heap, Call(i)
    PROVE  IInv'
<1> DEFINE n == NewId
           b == heap[i].by
<1>1. /\ Typed /\ Children /\ Parents /\ Outs /\ Total /\ Runners /\ Links /\ Answers
      /\ active = i /\ heap[i].at = "ready" /\ active' = n
      /\ asleep' = asleep /\ calls' = calls
    BY DEF IInv, Links, Call, At
<1>2. n \in Heap /\ n \notin Live /\ n # None
    BY NewPlace DEF Call
<1> HIDE DEF n
<1>3. i \in Live /\ heap[i] \in Frames /\ b \in Callers /\ i # None /\ n # i
    BY <1>1, <1>2, Runs, Places
<1>4. PICK code \in Awaits[heap[i].code] :
         LET level == IF code \in Clients THEN heap[i].level + 1 ELSE heap[i].level
             out   == IF heap[i].code \in Holders THEN i ELSE heap[i].out
         IN  /\ level <= Depth[b]
             /\ heap' = Await(heap, i, n, Frame(code, b, None, out, level))
    BY DEF Call, n
<1> DEFINE level == IF code \in Clients THEN heap[i].level + 1 ELSE heap[i].level
           out   == IF heap[i].code \in Holders THEN i ELSE heap[i].out
           F == Called(code, b, i, out, level)
           G == [heap[i] EXCEPT !.at = "awaiting", !.child = n]
<1>5. heap[i].code \in Codes /\ code \in Codes \ {"caller"} /\ heap[i].level \in Nat
    BY <1>3, <1>4, Order DEF Frames
<1>6. level \in Nat /\ out \in Ids /\ level <= Depth[b]
    BY <1>3, <1>4, <1>5 DEF Frames, Ids
<1> HIDE DEF level, out
<1>7. /\ F \in Frames
      /\ F.code = code /\ F.by = b /\ F.at = "ready" /\ F.child = None
      /\ F.continuation = i /\ F.out = out /\ F.level = level
    <2>1. i \in Ids /\ code \in Codes
        BY <1>5 DEF Ids
    <2> QED
        BY <1>3, <1>6, <2>1, NewFrame
<1>8. /\ G \in Frames
      /\ G.code = heap[i].code /\ G.by = b /\ G.at = "awaiting" /\ G.child = n
      /\ G.continuation = heap[i].continuation /\ G.out = heap[i].out
      /\ G.level = heap[i].level /\ G.value = heap[i].value /\ G.storage = heap[i].storage
    BY <1>2, <1>3 DEF Frames, Ids
<1>9. heap' = [heap EXCEPT ![n] = F, ![i].at = "awaiting", ![i].child = n]
    BY <1>4 DEF Await, level, out, Called
<1> HIDE DEF F
<1>10. heap' = [j \in Heap |-> IF j = n THEN F ELSE IF j = i THEN G ELSE heap[j]]
    <2>1. heap = [j \in Heap |-> heap[j]]
        BY <1>1 DEF Typed
    <2>2. heap' = [heap EXCEPT ![n] = F, ![i] = G]
        BY <1>2, <1>3, <1>9, <2>1
    <2> QED
        BY <1>2, <1>3, <2>1, <2>2
<1> HIDE DEF G
<1>11. heap' \in [Heap -> Frames \union {Free}]
    BY <1>1, <1>7, <1>8, <1>10 DEF Typed
<1>12. Live' = Live \union {n}
    <2>1. \A j \in Heap : j \in Live' <=> heap'[j].code # "free"
        BY DEF Live
    <2>2. \A j \in Heap : j \in Live <=> heap[j].code # "free"
        BY DEF Live
    <2>3. \A j \in Live' : j \in Heap
        BY DEF Live
    <2>4. F.code # "free" /\ G.code # "free"
        BY <1>5, <1>7, <1>8 DEF Codes
    <2> QED
        BY <1>2, <1>3, <1>10, <2>1, <2>2, <2>3, <2>4, Places
<1>13. /\ heap'[n].code = code /\ heap'[n].by = b /\ heap'[n].at = "ready"
       /\ heap'[n].child = None /\ heap'[n].continuation = i /\ heap'[n].out = out
       /\ heap'[n].level = level
    BY <1>2, <1>7, <1>10
<1>14. \A j \in Live :
          /\ heap'[j].code = heap[j].code /\ heap'[j].by = heap[j].by
          /\ heap'[j].at = IF j = i THEN "awaiting" ELSE heap[j].at
          /\ heap'[j].child = IF j = i THEN n ELSE heap[j].child
          /\ heap'[j].continuation = heap[j].continuation /\ heap'[j].out = heap[j].out
          /\ heap'[j].value = heap[j].value /\ heap'[j].storage = heap[j].storage
          /\ heap'[j].level = heap[j].level /\ Rank(heap'[j]) = Rank(heap[j])
    <2> SUFFICES ASSUME NEW j \in Live
                 PROVE  /\ heap'[j].code = heap[j].code /\ heap'[j].by = heap[j].by
                        /\ heap'[j].at = IF j = i THEN "awaiting" ELSE heap[j].at
                        /\ heap'[j].child = IF j = i THEN n ELSE heap[j].child
                        /\ heap'[j].continuation = heap[j].continuation
                        /\ heap'[j].out = heap[j].out
                        /\ heap'[j].value = heap[j].value
                        /\ heap'[j].storage = heap[j].storage
                        /\ heap'[j].level = heap[j].level
                        /\ Rank(heap'[j]) = Rank(heap[j])
        OBVIOUS
    <2>1. j \in Heap /\ j # n
        BY <1>2, Places
    <2>2. CASE j = i
        BY <1>8, <1>10, <2>1, <2>2 DEF Rank
    <2>3. CASE j # i
        <3>1. heap'[j] = heap[j]
            BY <1>10, <2>1, <2>3
        <3> QED
            BY <2>3, <3>1
    <2> QED
        BY <2>2, <2>3
\* The rank grows along the call.
<1>15. Rank(heap[i]) < Rank(heap'[n]) /\ Rank(heap'[n]) \in Nat
    <2>1. /\ Step0[heap[i].code] \in 0 .. 6 /\ Step0[code] \in 0 .. 6
          /\ code \in Clients => Step0[code] = 1
          /\ code \notin Clients => Step0[heap[i].code] < Step0[code]
        BY <1>4, <1>5, Order
    <2> QED
        BY <1>5, <1>13, <2>1 DEF Rank, level
<1>16. /\ \A j \in Live : Rank(heap[j]) \in Nat /\ j \in Heap /\ j # None /\ j # n
                          /\ heap[j].by \in Callers
       /\ heap[i].child = None
       /\ \A j \in Live : heap[j].by = b /\ j # i => Rank(heap[j]) < Rank(heap[i])
    <2>1. \A j \in Live : Rank(heap[j]) \in Nat /\ j \in Heap /\ j # None /\ j # n
                          /\ heap[j].by \in Callers
        BY <1>1, <1>2, LiveFrames, Places DEF Frames
    <2>2. heap[i].child = None
        BY <1>1, <1>3 DEF Children
    <2> QED
        BY <1>1, <1>3, <2>1, <2>2, Last
<1>17. n \in Live' /\ \A j \in Live' : j = n \/ j \in Live
    BY <1>12
<1>18. Typed'
    <2>1. \A j \in Live' : heap'[j].level <= Depth[heap'[j].by]
        BY <1>1, <1>6, <1>13, <1>14, <1>17 DEF Typed
    <2> QED
        BY <1>1, <1>11, <1>12, <2>1 DEF Typed, n
<1>19. Children'
    <2> SUFFICES ASSUME NEW j \in Live'
                 PROVE  LET d == heap'[j].child IN
                        /\ d = None <=> heap'[j].at \in {"ready", "final"}
                        /\ d # None => /\ d \in Live'
                                       /\ heap'[d].continuation = j
                                       /\ heap'[d].by = heap'[j].by
                                       /\ heap'[d].code \in Awaits[heap'[j].code]
                                       /\ Rank(heap'[j]) < Rank(heap'[d])
                                       /\ heap'[j].at = IF heap'[d].at = "final" THEN "resumed"
                                                        ELSE "awaiting"
        BY DEF Children
    <2>1. CASE j = n
        BY <1>13, <2>1
    <2>2. CASE j = i
        <3>1. heap'[j].child = n /\ heap'[j].at = "awaiting" /\ heap'[j].by = b
              /\ heap'[j].code = heap[i].code /\ Rank(heap'[j]) = Rank(heap[i])
            BY <1>3, <1>14, <2>2
        <3>2. heap'[n].code \in Awaits[heap[i].code]
            BY <1>4, <1>13
        <3> QED
            BY <1>2, <1>13, <1>15, <1>17, <2>2, <3>1, <3>2
    <2>3. CASE j # n /\ j # i
        <3> DEFINE d == heap[j].child
        <3>1. j \in Live /\ heap'[j].child = d
            BY <1>14, <1>17, <2>3
        <3>2. /\ d = None <=> heap[j].at \in {"ready", "final"}
              /\ d # None => /\ d \in Live /\ heap[d].continuation = j
                             /\ heap[d].by = heap[j].by
                             /\ heap[d].code \in Awaits[heap[j].code]
                             /\ Rank(heap[j]) < Rank(heap[d])
                             /\ heap[j].at = IF heap[d].at = "final" THEN "resumed" ELSE "awaiting"
            BY <1>1, <3>1 DEF Children
        <3>3. d # None => d \in Live'
            BY <1>12, <3>2
        <3> HIDE DEF d
        <3>4. d # None => heap'[d].at = "final" <=> heap[d].at = "final"
            BY <1>1, <1>14, <3>2
        <3> QED
            BY <1>14, <2>3, <3>1, <3>2, <3>3, <3>4
    <2> QED
        BY <2>1, <2>2, <2>3
<1>20. Parents'
    <2> SUFFICES ASSUME NEW j \in Live'
                 PROVE  LET p == heap'[j].continuation IN
                        /\ p = None => /\ heap'[j].code \in Clients \union {"caller"}
                                       /\ heap'[j].out = None
                                       /\ heap'[j].code # "caller" => calls'[heap'[j].by].run
                        /\ p # None => /\ p \in Live'
                                       /\ heap'[p].child = j
                                       /\ heap'[j].out = IF heap'[p].code \in Holders
                                                         THEN p ELSE heap'[p].out
                                       /\ heap'[j].code # "caller"
                        /\ heap'[j].code \in Inner => heap'[j].out # None
        BY DEF Parents
    <2>1. CASE j = n
        <3>1. i \in Live' /\ heap'[i].child = n /\ heap'[i].code = heap[i].code
              /\ heap'[i].out = heap[i].out
            BY <1>3, <1>12, <1>14
        <3>2. code \in Inner => heap[i].code \in Holders \union Inner
            BY <1>4, <1>5, Order
        <3>3. heap[i].code \in Inner => heap[i].out # None
            BY <1>1, <1>3 DEF Parents
        <3>4. code \in Inner => out # None
            BY <1>3, <3>2, <3>3 DEF out
        <3> QED
            BY <1>3, <1>5, <1>13, <2>1, <3>1, <3>4 DEF out
    <2>2. CASE j # n
        <3> DEFINE p == heap[j].continuation
        <3>1. j \in Live /\ heap'[j].continuation = p
            BY <1>14, <1>17, <2>2
        <3>2. /\ p = None => /\ heap[j].code \in Clients \union {"caller"}
                             /\ heap[j].out = None
                             /\ heap[j].code # "caller" => calls[heap[j].by].run
              /\ p # None => /\ p \in Live /\ heap[p].child = j
                             /\ heap[j].out = IF heap[p].code \in Holders THEN p ELSE heap[p].out
                             /\ heap[j].code # "caller"
              /\ heap[j].code \in Inner => heap[j].out # None
            BY <1>1, <3>1 DEF Parents
        <3>3. p # None => p \in Live' /\ p # i
            BY <1>12, <1>16, <3>1, <3>2
        <3> HIDE DEF p
        <3> QED
            BY <1>1, <1>14, <3>1, <3>2, <3>3
    <2> QED
        BY <2>1, <2>2
<1>21. Outs'
    <2> SUFFICES ASSUME NEW j \in Live', heap'[j].out # None
                 PROVE  LET q == heap'[j].out IN
                        /\ q \in Live' /\ heap'[q].code \in Holders
                        /\ heap'[q].by = heap'[j].by
                        /\ Rank(heap'[q]) < Rank(heap'[j])
        BY DEF Outs
    <2>1. CASE j = n
        <3>1. heap'[j].out = out /\ heap'[j].by = b
            BY <1>13, <2>1
        <3>2. out \in Live /\ heap[out].code \in Holders /\ heap[out].by = b
              /\ Rank(heap[out]) <= Rank(heap[i])
            <4>1. CASE heap[i].code \in Holders
                BY <1>3, <1>16, <4>1 DEF out
            <4>2. CASE heap[i].code \notin Holders
                <5>1. out = heap[i].out /\ out # None
                    BY <3>1, <4>2 DEF out
                <5>2. out \in Live /\ heap[out].code \in Holders /\ heap[out].by = b
                      /\ Rank(heap[out]) < Rank(heap[i])
                    BY <1>1, <1>3, <5>1 DEF Outs
                <5> QED
                    BY <1>3, <1>16, <5>2
            <4> QED
                BY <4>1, <4>2
        <3>3. Rank(heap[out]) < Rank(heap'[n])
            BY <1>3, <1>15, <1>16, <3>2
        <3> QED
            BY <1>12, <1>14, <2>1, <3>1, <3>2, <3>3
    <2>2. CASE j # n
        <3> DEFINE q == heap[j].out
        <3>1. j \in Live /\ heap'[j].out = q /\ q # None
            BY <1>14, <1>17, <2>2
        <3>2. q \in Live /\ heap[q].code \in Holders /\ heap[q].by = heap[j].by
              /\ Rank(heap[q]) < Rank(heap[j])
            BY <1>1, <3>1 DEF Outs
        <3> HIDE DEF q
        <3> QED
            BY <1>12, <1>14, <3>1, <3>2
    <2> QED
        BY <2>1, <2>2
<1>22. Total'
    <2> SUFFICES ASSUME NEW m \in Live', NEW j \in Live',
                        heap'[m].by = heap'[j].by, m # j
                 PROVE  /\ Rank(heap'[m]) # Rank(heap'[j])
                        /\ Rank(heap'[m]) < Rank(heap'[j]) =>
                              /\ heap'[m].child # None
                              /\ Rank(heap'[heap'[m].child]) <= Rank(heap'[j])
                              /\ heap'[j].continuation # None
        BY DEF Total
    <2>1. ASSUME NEW p \in Live, heap[p].by = b
          PROVE  Rank(heap'[p]) < Rank(heap'[n]) /\ Rank(heap'[p]) \in Nat
        <3>1. Rank(heap'[p]) = Rank(heap[p]) /\ Rank(heap[p]) \in Nat /\ Rank(heap[i]) \in Nat
            BY <1>3, <1>14, <1>16
        <3>2. Rank(heap[p]) <= Rank(heap[i])
            BY <1>16, <2>1, <3>1
        <3> QED
            BY <1>15, <3>1, <3>2
    <2>2. CASE m = n
        <3>1. j \in Live /\ heap[j].by = b
            BY <1>13, <1>14, <1>17, <2>2
        <3> QED
            BY <1>15, <2>1, <2>2, <3>1
    <2>3. CASE j = n
        <3>1. m \in Live /\ heap[m].by = b
            BY <1>13, <1>14, <1>17, <2>3
        <3>2. Rank(heap'[m]) # Rank(heap'[j])
            BY <1>15, <2>1, <2>3, <3>1
        <3>3. heap'[j].continuation # None
            BY <1>3, <1>13, <2>3
        <3>4. CASE m = i
            <4>1. heap'[m].child = n
                BY <1>14, <3>1, <3>4
            <4> QED
                BY <1>2, <1>15, <2>3, <3>2, <3>3, <4>1
        <3>5. CASE m # i
            <4> DEFINE d == heap[m].child
            <4>1. heap'[m].child = d
                BY <1>14, <3>1, <3>5
            <4>2. Rank(heap[m]) < Rank(heap[i])
                BY <1>16, <3>1, <3>5
            <4>3. d # None
                BY <1>1, <1>3, <3>1, <3>5, <4>2 DEF Total
            <4>4. d \in Live /\ heap[d].by = b
                BY <1>1, <3>1, <4>3 DEF Children
            <4> HIDE DEF d
            <4>5. Rank(heap'[d]) <= Rank(heap'[n])
                BY <1>15, <2>1, <4>4
            <4> QED
                BY <2>3, <3>2, <3>3, <4>1, <4>3, <4>5
        <3> QED
            BY <3>4, <3>5
    <2>4. CASE m # n /\ j # n
        <3>1. m \in Live /\ j \in Live /\ heap[m].by = heap[j].by
            BY <1>14, <1>17, <2>4
        <3>2. /\ Rank(heap[m]) # Rank(heap[j])
              /\ Rank(heap[m]) < Rank(heap[j]) => /\ heap[m].child # None
                                                 /\ Rank(heap[heap[m].child]) <= Rank(heap[j])
                                                 /\ heap[j].continuation # None
            BY <1>1, <3>1 DEF Total
        <3>3. Rank(heap[m]) < Rank(heap[j]) => m # i
            BY <1>16, <3>1, <3>2
        <3> DEFINE d == heap[m].child
        <3>4. d # None => d \in Live
            BY <1>1, <3>1 DEF Children
        <3>5. m # i => heap'[m].child = d
            BY <1>14, <3>1
        <3> HIDE DEF d
        <3>6. d # None => Rank(heap'[d]) = Rank(heap[d])
            BY <1>14, <3>4
        <3>7. heap'[j].continuation = heap[j].continuation
              /\ Rank(heap'[m]) = Rank(heap[m]) /\ Rank(heap'[j]) = Rank(heap[j])
            BY <1>14, <3>1
        <3> QED
            BY <3>2, <3>3, <3>5, <3>6, <3>7 DEF d
    <2> QED
        BY <2>2, <2>3, <2>4
<1>23. Runners'
    <2>1. active' # None => active' \notin asleep' /\ heap'[active'].at \in {"ready", "resumed"}
        BY <1>1, <1>2, <1>13 DEF Typed, n
    <2>2. \A j \in asleep' : heap'[j].at \in {"ready", "resumed"}
        <3> SUFFICES ASSUME NEW j \in asleep
                     PROVE  heap'[j].at \in {"ready", "resumed"}
            BY <1>1
        <3>1. j \in Live /\ j # i /\ heap[j].at \in {"ready", "resumed"}
            BY <1>1, <1>3 DEF Typed, Runners
        <3> QED
            BY <1>14, <3>1
    <2>3. ASSUME NEW d \in Callers, calls'[d].state = "pending"
          PROVE  \E j \in asleep' \union ({active'} \ {None}) : heap'[j].by = d
        <3>1. PICK j \in asleep \union ({active} \ {None}) : heap[j].by = d
            BY <1>1, <2>3 DEF Runners
        <3>2. CASE d = b
            BY <1>1, <1>2, <1>13, <3>2 DEF n
        <3>3. CASE d # b
            <4>1. j \in asleep /\ j \in Live
                BY <1>1, <3>1, <3>3 DEF Typed
            <4> QED
                BY <1>1, <1>14, <3>1, <4>1
        <3> QED
            BY <3>2, <3>3
    <2>4. ASSUME NEW d \in Callers, calls'[d].state \in {"idle", "done"}, NEW j \in Live'
          PROVE  heap'[j].by # d
        <3>1. b # d
            BY <1>1, <1>3, <2>4 DEF Runners
        <3> QED
            BY <1>1, <1>13, <1>14, <1>17, <2>4, <3>1 DEF Runners
    <2>5. \A d \in Callers : calls'[d].state = "crashed" => calls'[d].run
        BY <1>1 DEF Runners
    <2> QED
        BY <2>1, <2>2, <2>3, <2>4, <2>5 DEF Runners
<1>24. Answers'
    <2>1. ASSUME NEW j \in Live', heap'[j].at = "final", Clean(calls'[heap'[j].by])
          PROVE  /\ heap'[j].code \in Clears => heap'[j].value = Answer(heap'[j].by)
                 /\ heap'[j].code \in Inner => heap'[heap'[j].out].storage = Answer(heap'[j].by)
        <3>1. j \in Live /\ heap[j].at = "final" /\ heap'[j].by = heap[j].by
            BY <1>3, <1>13, <1>14, <1>17, <2>1
        <3>2. /\ heap[j].code \in Clears => heap[j].value = Answer(heap[j].by)
              /\ heap[j].code \in Inner => heap[heap[j].out].storage = Answer(heap[j].by)
            BY <1>1, <2>1, <3>1 DEF Answers
        <3> DEFINE q == heap[j].out
        <3>3. heap[j].code \in Inner => q \in Live
            BY <1>1, <3>1 DEF Parents, Outs
        <3> HIDE DEF q
        <3>4. heap[j].code \in Inner => heap'[q].storage = heap[q].storage
            BY <1>14, <3>3
        <3> QED
            BY <1>14, <3>1, <3>2, <3>4 DEF q
    <2>2. \A d \in Callers : calls'[d].state = "done" /\ Clean(calls'[d]) => calls'[d].got = Answer(d)
        BY <1>1 DEF Answers
    <2> QED
        BY <2>1, <2>2 DEF Answers
<1> QED
    BY <1>18, <1>19, <1>20, <1>21, <1>22, <1>23, <1>24 DEF IInv, Links

\* The first frame of a call is the only one of that call.
LEMMA BeginKeeps ==
    ASSUME IInv, NEW d \in Callers, NEW wants \in {"value", "view"}, NEW run \in BOOLEAN,
           Begin(d, wants, run)
    PROVE  IInv'
<1> DEFINE n == NewId
<1>1. /\ Typed /\ Children /\ Parents /\ Outs /\ Total /\ Runners /\ Links /\ Answers
      /\ active = None /\ active' = n /\ asleep' = asleep
      /\ calls[d].state = "idle"
      /\ calls' = [calls EXCEPT ![d].wants = wants, ![d].run = run, ![d].state = "pending"]
    BY DEF IInv, Links, Begin
<1>2. n \in Heap /\ n \notin Live /\ n # None
    BY NewPlace DEF Begin
<1> HIDE DEF n
<1>3. \E code \in Clients \union {"caller"}, level \in {0, 1} :
         /\ code # "caller" => run
         /\ heap' = [heap EXCEPT ![n] = Frame(code, d, None, None, level)]
    BY DEF Begin, n
<1>4. PICK code \in Clients \union {"caller"}, level \in {0, 1} :
         /\ code # "caller" => run
         /\ heap' = [heap EXCEPT ![n] = Frame(code, d, None, None, level)]
    BY <1>3
<1> DEFINE F == Frame(code, d, None, None, level)
<1>5. code \in Codes /\ code \notin Inner
    BY DEF Clients, Codes, Inner, Clears
<1>6. /\ F \in Frames
      /\ F.code = code /\ F.by = d /\ F.at = "ready" /\ F.child = None
      /\ F.continuation = None /\ F.out = None /\ F.level = level
    BY <1>5 DEF Frames, Frame, Ids, Values
<1> HIDE DEF F
<1>7. heap' = [j \in Heap |-> IF j = n THEN F ELSE heap[j]]
    <2>1. heap = [j \in Heap |-> heap[j]]
        BY <1>1 DEF Typed
    <2> QED
        BY <1>4, <2>1 DEF F
<1>8. heap' \in [Heap -> Frames \union {Free}]
    BY <1>1, <1>6, <1>7 DEF Typed
<1>9. Live' = Live \union {n}
    <2>1. \A j \in Heap : j \in Live' <=> heap'[j].code # "free"
        BY DEF Live
    <2>2. \A j \in Heap : j \in Live <=> heap[j].code # "free"
        BY DEF Live
    <2>3. \A j \in Live' : j \in Heap
        BY DEF Live
    <2>4. F.code # "free"
        BY <1>5, <1>6 DEF Codes
    <2> QED
        BY <1>2, <1>7, <2>1, <2>2, <2>3, <2>4, Places
<1>10. /\ heap'[n].code = code /\ heap'[n].by = d /\ heap'[n].at = "ready"
       /\ heap'[n].child = None /\ heap'[n].continuation = None /\ heap'[n].out = None
       /\ heap'[n].level = level
    BY <1>2, <1>6, <1>7
<1>11. \A j \in Live :
          /\ heap'[j].code = heap[j].code /\ heap'[j].by = heap[j].by
          /\ heap'[j].at = heap[j].at /\ heap'[j].child = heap[j].child
          /\ heap'[j].continuation = heap[j].continuation /\ heap'[j].out = heap[j].out
          /\ heap'[j].value = heap[j].value /\ heap'[j].storage = heap[j].storage
          /\ heap'[j].level = heap[j].level /\ Rank(heap'[j]) = Rank(heap[j])
    <2> SUFFICES ASSUME NEW j \in Live
                 PROVE  heap'[j] = heap[j]
        OBVIOUS
    <2> QED
        BY <1>2, <1>7, Places
<1>12. calls \in [Callers -> Records] /\ \A j \in Live : heap[j].by \in Callers /\ heap[j].by # d
    BY <1>1, LiveFrames, Places DEF Typed, Frames, Runners
<1>13. /\ calls' \in [Callers -> Records]
       /\ calls'[d].run = run /\ calls'[d].state = "pending"
       /\ \A e \in Callers : e # d => calls'[e] = calls[e]
    <2>1. /\ calls' = [e \in Callers |-> calls'[e]]
          /\ calls'[d] = [calls[d] EXCEPT !.wants = wants, !.run = run, !.state = "pending"]
          /\ \A e \in Callers : e # d => calls'[e] = calls[e]
        BY <1>1, <1>12
    <2>2. calls[d] \in Records
        BY <1>12
    <2>3. calls'[d] \in Records /\ calls'[d].run = run /\ calls'[d].state = "pending"
        BY <2>1, <2>2 DEF Records, States
    <2>4. \A e \in Callers : calls'[e] \in Records
        BY <1>12, <2>1, <2>3
    <2> QED
        BY <2>1, <2>3, <2>4
<1>14. n \in Live' /\ \A j \in Live' : j = n \/ j \in Live
    BY <1>9
<1>15. \A j \in Live : calls'[heap[j].by] = calls[heap[j].by]
    BY <1>12, <1>13
<1>16. Typed'
    <2>1. level <= Depth[d]
        BY TasksAssumption
    <2>2. \A j \in Live' : heap'[j].level <= Depth[heap'[j].by]
        BY <1>1, <1>10, <1>11, <1>14, <2>1 DEF Typed
    <2> QED
        BY <1>1, <1>8, <1>9, <1>13, <2>2 DEF Typed
<1>17. Children'
    <2> SUFFICES ASSUME NEW j \in Live'
                 PROVE  LET c == heap'[j].child IN
                        /\ c = None <=> heap'[j].at \in {"ready", "final"}
                        /\ c # None => /\ c \in Live'
                                       /\ heap'[c].continuation = j
                                       /\ heap'[c].by = heap'[j].by
                                       /\ heap'[c].code \in Awaits[heap'[j].code]
                                       /\ Rank(heap'[j]) < Rank(heap'[c])
                                       /\ heap'[j].at = IF heap'[c].at = "final" THEN "resumed"
                                                        ELSE "awaiting"
        BY DEF Children
    <2>1. CASE j = n
        BY <1>10, <2>1
    <2>2. CASE j # n
        <3> DEFINE c == heap[j].child
        <3>1. j \in Live /\ heap'[j].child = c
            BY <1>11, <1>14, <2>2
        <3>2. /\ c = None <=> heap[j].at \in {"ready", "final"}
              /\ c # None => /\ c \in Live /\ heap[c].continuation = j
                             /\ heap[c].by = heap[j].by
                             /\ heap[c].code \in Awaits[heap[j].code]
                             /\ Rank(heap[j]) < Rank(heap[c])
                             /\ heap[j].at = IF heap[c].at = "final" THEN "resumed" ELSE "awaiting"
            BY <1>1, <3>1 DEF Children
        <3> HIDE DEF c
        <3> QED
            BY <1>9, <1>11, <3>1, <3>2
    <2> QED
        BY <2>1, <2>2
<1>18. Parents'
    <2> SUFFICES ASSUME NEW j \in Live'
                 PROVE  LET p == heap'[j].continuation IN
                        /\ p = None => /\ heap'[j].code \in Clients \union {"caller"}
                                       /\ heap'[j].out = None
                                       /\ heap'[j].code # "caller" => calls'[heap'[j].by].run
                        /\ p # None => /\ p \in Live'
                                       /\ heap'[p].child = j
                                       /\ heap'[j].out = IF heap'[p].code \in Holders
                                                         THEN p ELSE heap'[p].out
                                       /\ heap'[j].code # "caller"
                        /\ heap'[j].code \in Inner => heap'[j].out # None
        BY DEF Parents
    <2>1. CASE j = n
        BY <1>4, <1>5, <1>10, <1>13, <2>1
    <2>2. CASE j # n
        <3> DEFINE p == heap[j].continuation
        <3>1. j \in Live /\ heap'[j].continuation = p
            BY <1>11, <1>14, <2>2
        <3>2. /\ p = None => /\ heap[j].code \in Clients \union {"caller"}
                             /\ heap[j].out = None
                             /\ heap[j].code # "caller" => calls[heap[j].by].run
              /\ p # None => /\ p \in Live /\ heap[p].child = j
                             /\ heap[j].out = IF heap[p].code \in Holders THEN p ELSE heap[p].out
                             /\ heap[j].code # "caller"
              /\ heap[j].code \in Inner => heap[j].out # None
            BY <1>1, <3>1 DEF Parents
        <3> HIDE DEF p
        <3> QED
            BY <1>9, <1>11, <1>15, <3>1, <3>2
    <2> QED
        BY <2>1, <2>2
<1>19. Outs'
    <2> SUFFICES ASSUME NEW j \in Live', heap'[j].out # None
                 PROVE  LET q == heap'[j].out IN
                        /\ q \in Live' /\ heap'[q].code \in Holders
                        /\ heap'[q].by = heap'[j].by
                        /\ Rank(heap'[q]) < Rank(heap'[j])
        BY DEF Outs
    <2> DEFINE q == heap[j].out
    <2>1. j \in Live /\ heap'[j].out = q /\ q # None
        BY <1>10, <1>11, <1>14
    <2>2. q \in Live /\ heap[q].code \in Holders /\ heap[q].by = heap[j].by
          /\ Rank(heap[q]) < Rank(heap[j])
        BY <1>1, <2>1 DEF Outs
    <2> HIDE DEF q
    <2> QED
        BY <1>9, <1>11, <2>1, <2>2
<1>20. Total'
    <2> SUFFICES ASSUME NEW m \in Live', NEW j \in Live',
                        heap'[m].by = heap'[j].by, m # j
                 PROVE  /\ Rank(heap'[m]) # Rank(heap'[j])
                        /\ Rank(heap'[m]) < Rank(heap'[j]) =>
                              /\ heap'[m].child # None
                              /\ Rank(heap'[heap'[m].child]) <= Rank(heap'[j])
                              /\ heap'[j].continuation # None
        BY DEF Total
    <2>1. m \in Live /\ j \in Live /\ heap[m].by = heap[j].by
        BY <1>10, <1>11, <1>12, <1>14
    <2>2. /\ Rank(heap[m]) # Rank(heap[j])
          /\ Rank(heap[m]) < Rank(heap[j]) => /\ heap[m].child # None
                                             /\ Rank(heap[heap[m].child]) <= Rank(heap[j])
                                             /\ heap[j].continuation # None
        BY <1>1, <2>1 DEF Total
    <2> DEFINE c == heap[m].child
    <2>3. heap'[m].child = c
        BY <1>11, <2>1
    <2>4. c # None => c \in Live
        BY <1>1, <2>1 DEF Children
    <2> HIDE DEF c
    <2>5. c # None => Rank(heap'[c]) = Rank(heap[c])
        BY <1>11, <2>4
    <2>6. heap'[j].continuation = heap[j].continuation
          /\ Rank(heap'[m]) = Rank(heap[m]) /\ Rank(heap'[j]) = Rank(heap[j])
        BY <1>11, <2>1
    <2> QED
        BY <2>2, <2>3, <2>5, <2>6 DEF c
<1>21. Runners'
    <2>1. active' # None => active' \notin asleep' /\ heap'[active'].at \in {"ready", "resumed"}
        BY <1>1, <1>2, <1>10 DEF Typed
    <2>2. \A j \in asleep' : heap'[j].at \in {"ready", "resumed"}
        BY <1>1, <1>11 DEF Typed, Runners
    <2>3. ASSUME NEW e \in Callers, calls'[e].state = "pending"
          PROVE  \E j \in asleep' \union ({active'} \ {None}) : heap'[j].by = e
        <3>1. CASE e = d
            BY <1>1, <1>2, <1>10, <3>1
        <3>2. CASE e # d
            <4>1. calls[e].state = "pending"
                BY <1>13, <2>3, <3>2
            <4>2. PICK j \in asleep \union ({active} \ {None}) : heap[j].by = e
                BY <1>1, <4>1 DEF Runners
            <4>3. j \in asleep /\ j \in Live
                BY <1>1, <4>2 DEF Typed
            <4> QED
                BY <1>1, <1>11, <4>2, <4>3
        <3> QED
            BY <3>1, <3>2
    <2>4. ASSUME NEW e \in Callers, calls'[e].state \in {"idle", "done"}, NEW j \in Live'
          PROVE  heap'[j].by # e
        <3>1. e # d /\ calls[e].state \in {"idle", "done"}
            BY <1>13, <2>4
        <3> QED
            BY <1>1, <1>10, <1>11, <1>14, <3>1 DEF Runners
    <2>5. ASSUME NEW e \in Callers, calls'[e].state = "crashed"
          PROVE  calls'[e].run
        BY <1>1, <1>13, <2>5 DEF Runners
    <2> QED
        BY <2>1, <2>2, <2>3, <2>4, <2>5 DEF Runners
<1>22. Answers'
    <2>1. ASSUME NEW j \in Live', heap'[j].at = "final", Clean(calls'[heap'[j].by])
          PROVE  /\ heap'[j].code \in Clears => heap'[j].value = Answer(heap'[j].by)
                 /\ heap'[j].code \in Inner => heap'[heap'[j].out].storage = Answer(heap'[j].by)
        <3>1. j \in Live /\ heap[j].at = "final" /\ heap'[j].by = heap[j].by
            BY <1>10, <1>11, <1>14, <2>1
        <3>2. /\ heap[j].code \in Clears => heap[j].value = Answer(heap[j].by)
              /\ heap[j].code \in Inner => heap[heap[j].out].storage = Answer(heap[j].by)
            BY <1>1, <1>15, <2>1, <3>1 DEF Answers
        <3> DEFINE q == heap[j].out
        <3>3. heap[j].code \in Inner => q \in Live
            BY <1>1, <3>1 DEF Parents, Outs
        <3> HIDE DEF q
        <3>4. heap[j].code \in Inner => heap'[q].storage = heap[q].storage
            BY <1>11, <3>3
        <3> QED
            BY <1>11, <3>1, <3>2, <3>4 DEF q
    <2>2. ASSUME NEW e \in Callers, calls'[e].state = "done", Clean(calls'[e])
          PROVE  calls'[e].got = Answer(e)
        BY <1>1, <1>13, <2>2 DEF Answers
    <2> QED
        BY <2>1, <2>2 DEF Answers
<1> QED
    BY <1>16, <1>17, <1>18, <1>19, <1>20, <1>21, <1>22 DEF IInv, Links

------------------------------------------------------------------------------
(* The invariant, and what follows from it.                                *)

\* At first there is no frame.
LEMMA InitHolds == Init => IInv
<1> SUFFICES ASSUME Init
             PROVE  IInv
    OBVIOUS
<1>1. Live = {}
    BY DEF Init, Live, Free
<1>2. Typed
    <2>1. \A c \in Callers :
             [wants |-> "value", run |-> FALSE, state |-> "idle", waits |-> 0,
              got |-> Unset, threw |-> FALSE, dangled |-> FALSE] \in Records
        BY DEF Records, States, Values
    <2>2. calls \in [Callers -> Records]
        BY <2>1 DEF Init
    <2> QED
        BY <1>1, <2>2 DEF Init, Typed
<1>3. \A c \in Callers : calls[c].state = "idle"
    BY DEF Init
<1> QED
    BY <1>1, <1>2, <1>3 DEF Init, IInv, Links, Children, Parents, Outs, Total, Runners, Answers

\* Every step of every call keeps the invariant.
LEMMA StepKeeps == IInv /\ [Next]_vars => IInv'
<1> SUFFICES ASSUME IInv, [Next]_vars
             PROVE  IInv'
    OBVIOUS
<1>1. ASSUME NEW c \in Callers, NEW wants \in {"value", "view"}, NEW run \in BOOLEAN,
             Begin(c, wants, run)
      PROVE  IInv'
    BY <1>1, BeginKeeps
<1>2. ASSUME NEW i \in Heap, Step(i)
      PROVE  IInv'
    <2>1. CASE Call(i)
        BY <2>1, CallKeeps
    <2>2. CASE Implement(i)
        BY <2>2, ImplementKeeps
    <2>3. CASE Throw(i)
        BY <2>3, ThrowKeeps
    <2>4. CASE Sleep(i)
        BY <2>4, SleepKeeps
    <2>5. CASE PassOn(i) \/ ReturnCopy(i)
        BY <2>5, PassOnKeeps
    <2>6. CASE ReturnStorage(i)
        BY <2>6, ReturnStorageKeeps
    <2>7. CASE DoCall(i) \/ ApplyValue(i)
        BY <2>7, WriteKeeps
    <2>8. CASE ApplyView(i)
        BY <2>8, ApplyViewKeeps
    <2>9. CASE End(i)
        BY <2>9, EndKeeps
    <2> QED
        BY <1>2, <2>1, <2>2, <2>3, <2>4, <2>5, <2>6, <2>7, <2>8, <2>9 DEF Step
<1>3. ASSUME NEW i \in Heap, Wake(i)
      PROVE  IInv'
    BY <1>3, WakeKeeps
<1>4. CASE UNCHANGED vars
    BY <1>4 DEF vars, IInv, Links, Typed, Children, Parents, Outs, Total, Runners, Answers, Live
<1> QED
    BY <1>1, <1>2, <1>3, <1>4 DEF Next

\* So it always holds.
LEMMA Invariance == Spec => []IInv
BY InitHolds, StepKeeps, PTL DEF Spec

\* Every field has its type, and every reference a frame.
THEOREM Safe == Spec => []TypeOK
<1>1. IInv => TypeOK
    <2> SUFFICES ASSUME IInv
                 PROVE  TypeOK
        OBVIOUS
    <2>1. Typed /\ Children /\ Parents /\ Outs
        BY DEF IInv, Links
    <2>2. ASSUME NEW i \in Live
          PROVE  /\ heap[i].code \in DOMAIN Awaits
                 /\ heap[i].at \in {"ready", "awaiting", "resumed", "final"}
                 /\ heap[i].level <= Depth[heap[i].by]
                 /\ {heap[i].child, heap[i].continuation, heap[i].out} \subseteq Live \union {None}
        <3>1. heap[i] \in Frames
            BY <2>1, LiveFrames, Places
        <3>2. heap[i].code \in DOMAIN Awaits /\ heap[i].at \in {"ready", "awaiting", "resumed", "final"}
            BY <3>1 DEF Frames, Codes, Awaits
        <3>3. /\ heap[i].child # None => heap[i].child \in Live
              /\ heap[i].continuation # None => heap[i].continuation \in Live
              /\ heap[i].out # None => heap[i].out \in Live
            BY <2>1 DEF Children, Parents, Outs
        <3> QED
            BY <2>1, <3>2, <3>3 DEF Typed
    <2>3. \A c \in Callers : calls[c].state \in {"idle", "pending", "done", "crashed"}
        BY <2>1 DEF Typed, Records, States
    <2> QED
        BY <2>1, <2>2, <2>3 DEF Typed, TypeOK
<1> QED
    BY <1>1, Invariance, PTL

\* Two frames of a call do not both run.
LEMMA OneOfTwo ==
    ASSUME Links, NEW i \in Live, NEW j \in Live, heap[i].by = heap[j].by,
           heap[i].at \in {"ready", "resumed"}, heap[j].at \in {"ready", "resumed"}
    PROVE  i = j
<1>1. SUFFICES ASSUME i # j
               PROVE  FALSE
    OBVIOUS
<1>2. i # None /\ j # None /\ Rank(heap[i]) \in Nat /\ Rank(heap[j]) \in Nat
    BY LiveFrames, Places DEF Links
<1>3. j # heap[i].child /\ i # heap[j].child
    BY <1>2, Last
<1>4. Rank(heap[j]) < Rank(heap[i]) /\ Rank(heap[i]) < Rank(heap[j])
    BY <1>1, <1>3, Last
<1> QED
    BY <1>2, <1>4

\* The frames of a call are a chain of awaiters at whose end exactly one runs, and what
\* they refer to is there: await_suspend, final_suspend, ~Task.
THEOREM Chained == Spec => []LinksHold
<1>1. IInv => LinksHold
    <2> SUFFICES ASSUME IInv
                 PROVE  LinksHold
        OBVIOUS
    <2>1. Typed /\ Children /\ Parents /\ Outs /\ Total /\ Runners /\ Links
        BY DEF IInv, Links
    <2>2. Linked
        <3> SUFFICES ASSUME NEW i \in Live
                     PROVE  /\ heap[i].child # None =>
                                 /\ heap[heap[i].child].continuation = i
                                 /\ heap[i].at = IF heap[heap[i].child].at = "final"
                                                 THEN "resumed" ELSE "awaiting"
                            /\ heap[i].continuation # None =>
                                 heap[heap[i].continuation].child = i
                            /\ heap[i].out # None =>
                                 /\ heap[heap[i].out].code \in Holders
                                 /\ heap[heap[i].out].by = heap[i].by
                                 /\ heap[heap[i].out].at \in {"awaiting", "resumed"}
            BY DEF Linked
        <3>1. heap[i].child # None =>
                 /\ heap[heap[i].child].continuation = i
                 /\ heap[i].at = IF heap[heap[i].child].at = "final" THEN "resumed" ELSE "awaiting"
            BY <2>1 DEF Children
        <3>2. heap[i].continuation # None => heap[heap[i].continuation].child = i
            BY <2>1 DEF Parents
        <3>3. ASSUME heap[i].out # None
              PROVE  /\ heap[heap[i].out].code \in Holders
                     /\ heap[heap[i].out].by = heap[i].by
                     /\ heap[heap[i].out].at \in {"awaiting", "resumed"}
            <4> DEFINE o == heap[i].out
            <4>1. o \in Live /\ heap[o].code \in Holders /\ heap[o].by = heap[i].by
                  /\ Rank(heap[o]) < Rank(heap[i])
                BY <2>1, <3>3 DEF Outs
            <4>2. o # i
                BY <2>1, <4>1, LiveFrames, Places
            <4>3. heap[o].child # None
                BY <2>1, <4>1, <4>2 DEF Total
            <4>4. heap[o].at \in {"awaiting", "resumed"}
                BY <2>1, <4>1, <4>3 DEF Children
            <4> QED
                BY <4>1, <4>4
        <3> QED
            BY <3>1, <3>2, <3>3
    <2>3. OneRunner
        <3> SUFFICES ASSUME NEW c \in Callers
                     PROVE  /\ calls[c].state = "pending" =>
                                 Cardinality(Of(c) \intersect (asleep \union {active})) = 1
                            /\ calls[c].state \in {"idle", "done"} => Of(c) = {}
                            /\ calls[c].state = "crashed" => calls[c].run
                            /\ calls[c].state \in States
            BY DEF OneRunner, States
        <3>1. ASSUME calls[c].state = "pending"
              PROVE  Cardinality(Of(c) \intersect (asleep \union {active})) = 1
            <4>1. PICK i \in asleep \union ({active} \ {None}) : heap[i].by = c
                BY <2>1, <3>1 DEF Runners
            <4>2. \A j \in Of(c) \intersect (asleep \union {active}) :
                     j \in Live /\ heap[j].by = c /\ heap[j].at \in {"ready", "resumed"}
                BY <2>1, Places DEF Of, Runners
            <4>3. i \in Of(c) \intersect (asleep \union {active})
                BY <2>1, <4>1 DEF Of, Typed
            <4>4. Of(c) \intersect (asleep \union {active}) = {i}
                BY <2>1, <4>2, <4>3, OneOfTwo
            <4> QED
                BY <4>4, FS_Singleton
        <3>2. calls[c].state \in {"idle", "done"} => Of(c) = {}
            BY <2>1 DEF Runners, Of
        <3>3. calls[c].state = "crashed" => calls[c].run
            BY <2>1 DEF Runners
        <3>4. calls[c].state \in States
            BY <2>1 DEF Typed, Records
        <3> QED
            BY <3>1, <3>2, <3>3, <3>4
    <2> QED
        BY <2>2, <2>3 DEF LinksHold
<1> QED
    BY <1>1, Invariance, PTL

\* A caller that has an answer has that of the implementation of its own call, unless it
\* threw or was a view: await_resume along the chain, and the places handed down it.
THEOREM Answered == Spec => []AnswersArrive
<1>1. IInv => AnswersArrive
    BY DEF IInv, Answers, AnswersArrive, Clean
<1> QED
    BY <1>1, Invariance, PTL
===============================================================================
