----------------------------- MODULE BitonicSort -----------------------------
(***************************************************************************)
(* Lab2: a bitonic sort in threads.  A call of bitonicSort or of           *)
(* bitonicMerge is a frame; it lets new threads run its two halves if the  *)
(* counter of threads allows that, and calls itself twice if not.          *)
(*                                                                         *)
(* A frame is on the stack of some thread; which one only matters for the  *)
(* order of the two halves, which one thread takes one after the other and *)
(* two threads at the same time.  A pair of elements is compared and       *)
(* swapped in one step, which DisjointWork justifies, and a section under  *)
(* the mutex is a step.  pthread_create succeeds.                          *)
(***************************************************************************)
EXTENDS Integers, FiniteSets

CONSTANTS
  N,            \* the length of the array
  MaxThreads,   \* max_threads; the pool of a negative number is refused
  Threshold,    \* halves shorter than that are merged without new threads
  Values        \* the elements; {0, 1} is enough for a network of comparisons

\* What main accepts: n has at most one bit.
Accepted(n) == \E e \in 0 .. n : n \in {0, 2 ^ e}

ASSUME SortAssumption ==
  /\ N \in Nat
  /\ Accepted(N)
  /\ MaxThreads \in Nat
  /\ Threshold \in Nat
  /\ Values \subseteq Int

Index == 0 .. N - 1

VARIABLES
  arr,              \* the array
  input,            \* history: the array before the sort
  frames,           \* the state of every call that has not been left
  active_threads    \* the counter of threads

vars == <<arr, input, frames, active_threads>>

Call == [kind : {"sort", "merge"}, low : 0 .. N, cnt : 0 .. N, dir : {0, 1}]

\* A call of a function, and where it is: at the comparison number i, before
\* the counter is asked, before one of its halves, or waiting for them.
Frame == [at : {"swap", "ask", "left", "right", "join", "release", "merging",
                "done"},
          i : 0 .. N, threads : 0 .. 2]

Whole == [kind |-> "sort", low |-> 0, cnt |-> N, dir |-> 1]

Half(t) == t.cnt \div 2

Left(t) ==
  [t EXCEPT !.cnt = Half(t), !.dir = IF t.kind = "sort" THEN 1 ELSE @]

Right(t) ==
  [t EXCEPT !.cnt = Half(t), !.low = @ + Half(t),
            !.dir = IF t.kind = "sort" THEN 0 ELSE @]

\* The merge at the end of a sort.
MergeOf(t) == [t EXCEPT !.kind = "merge"]

\* How a call begins; a single element is in order.
Entered(t) ==
  [at |-> IF t.cnt <= 1 THEN "done" ELSE IF t.kind = "sort" THEN "ask" ELSE "swap",
   i |-> t.low, threads |-> 0]

TypeOK ==
  /\ arr \in [Index -> Values]
  /\ input \in [Index -> Values]
  /\ \A t \in DOMAIN frames : t \in Call /\ frames[t] \in Frame
  /\ active_threads \in Nat

Init ==
  /\ arr \in [Index -> Values]
  /\ input = arr
  /\ frames = [t \in {Whole} |-> Entered(t)]
  /\ active_threads = 0

At(t, where) == t \in DOMAIN frames /\ frames[t].at = where
Done(t) == At(t, "done")

Goes(t, where) == [frames EXCEPT ![t].at = where]
Without(F, calls) == [t \in DOMAIN F \ calls |-> F[t]]

\* The function calls itself, or a thread of its own is given the call.
Called(F, t) ==
  [u \in DOMAIN F \cup {t} |-> IF u \in DOMAIN F THEN F[u] ELSE Entered(u)]

-----------------------------------------------------------------------------
\* Mutant: the direction is ignored.
CompareAndSwapUp(a, i, j, dir) ==
  IF a[i] > a[j] THEN [a EXCEPT ![i] = a[j], ![j] = a[i]] ELSE a

CompareAndSwap(a, i, j, dir) ==
  IF (dir = 1) <=> (a[i] > a[j])
  THEN [a EXCEPT ![i] = a[j], ![j] = a[i]]
  ELSE a

\* One round of the loop of bitonicMerge.
Swap(t) ==
  /\ At(t, "swap")
  /\ LET i == frames[t].i IN
     /\ arr' = CompareAndSwap(arr, i, i + Half(t), t.dir)
     /\ frames' = [frames EXCEPT
          ![t].i = i + 1,
          ![t].at = IF i + 1 < t.low + Half(t) THEN @
                    ELSE IF Half(t) < Threshold THEN "left" ELSE "ask"]
  /\ UNCHANGED <<input, active_threads>>

\* A sort starts two threads and waits; a merge starts one.
ThreadsAsked(t) == IF t.kind = "sort" THEN 2 ELSE 1

\* Mutant: a call waits until there are threads for it.
AskAndWait(t) ==
  /\ At(t, "ask")
  /\ active_threads + ThreadsAsked(t) <= MaxThreads
  /\ active_threads' = active_threads + ThreadsAsked(t)
  /\ frames' = [frames EXCEPT ![t].at = "left", ![t].threads = ThreadsAsked(t)]
  /\ UNCHANGED <<arr, input>>

\* Mutant: one thread more than the limit.
AskOffByOne(t) ==
  /\ At(t, "ask")
  /\ LET n == IF active_threads + ThreadsAsked(t) <= MaxThreads + 1
              THEN ThreadsAsked(t) ELSE 0 IN
     /\ active_threads' = active_threads + n
     /\ frames' = [frames EXCEPT ![t].at = "left", ![t].threads = n]
  /\ UNCHANGED <<arr, input>>

\* Mutant: the counter is not raised, though it is lowered later.
AskUncounted(t) ==
  /\ At(t, "ask")
  /\ LET n == IF active_threads + ThreadsAsked(t) <= MaxThreads
              THEN ThreadsAsked(t) ELSE 0 IN
     frames' = [frames EXCEPT ![t].at = "left", ![t].threads = n]
  /\ UNCHANGED <<arr, input, active_threads>>

\* The counter is tested and raised under the mutex.
Ask(t) ==
  /\ At(t, "ask")
  /\ LET n == IF active_threads + ThreadsAsked(t) <= MaxThreads
              THEN ThreadsAsked(t) ELSE 0 IN
     /\ active_threads' = active_threads + n
     /\ frames' = [frames EXCEPT ![t].at = "left", ![t].threads = n]
  /\ UNCHANGED <<arr, input>>

\* The left half is called, or given to a thread.
StartLeft(t) ==
  /\ At(t, "left")
  /\ frames' = Called(Goes(t, "right"), Left(t))
  /\ UNCHANGED <<arr, input, active_threads>>

\* The right half: without new threads after the left half only.
StartRight(t) ==
  /\ At(t, "right")
  /\ frames[t].threads > 0 \/ Done(Left(t))
  /\ frames' = Called(Goes(t, "join"), Right(t))
  /\ UNCHANGED <<arr, input, active_threads>>

\* After the halves a sort merges them, and a merge is at its end.
Continue(F, t) ==
  IF t.kind = "merge"
  THEN [F EXCEPT ![t].at = "done"]
  ELSE Called([F EXCEPT ![t].at = "merging"], MergeOf(t))

\* Mutant: nobody waits for the thread of the left half.
JoinRight(t) ==
  /\ At(t, "join")
  /\ Done(Right(t))
  /\ frames' = LET F == Without(frames, {Right(t)}) IN
               IF frames[t].threads > 0
               THEN [F EXCEPT ![t].at = "release"] ELSE Continue(F, t)
  /\ UNCHANGED <<arr, input, active_threads>>

\* Both halves are done: their threads are joined, their calls have returned.
Join(t) ==
  /\ At(t, "join")
  /\ Done(Left(t)) /\ Done(Right(t))
  /\ frames' = LET F == Without(frames, {Left(t), Right(t)}) IN
               IF frames[t].threads > 0
               THEN [F EXCEPT ![t].at = "release"] ELSE Continue(F, t)
  /\ UNCHANGED <<arr, input, active_threads>>

\* Mutant: one thread is given back whatever was taken.
ReleaseOne(t) ==
  /\ At(t, "release")
  /\ active_threads' = active_threads - 1
  /\ frames' = Continue(frames, t)
  /\ UNCHANGED <<arr, input>>

\* The counter is lowered under the mutex.
Release(t) ==
  /\ At(t, "release")
  /\ active_threads' = active_threads - frames[t].threads
  /\ frames' = Continue(frames, t)
  /\ UNCHANGED <<arr, input>>

\* The merge at the end of a sort returns, and so does the sort.
EndSort(t) ==
  /\ At(t, "merging")
  /\ Done(MergeOf(t))
  /\ frames' = Without(Goes(t, "done"), {MergeOf(t)})
  /\ UNCHANGED <<arr, input, active_threads>>

Next ==
  \E t \in DOMAIN frames :
    \/ Swap(t) \/ Ask(t) \/ StartLeft(t) \/ StartRight(t)
    \/ Join(t) \/ Release(t) \/ EndSort(t)

Spec == Init /\ [][Next]_vars

\* The scheduler lets some thread that can go on go on.
FairSpec == Spec /\ WF_vars(Next)

-----------------------------------------------------------------------------
Places(a, v) == {x \in Index : a[x] = v}

(***************************************************************************)
(* When the first call returns, the array is sorted and has the elements   *)
(* of the input, whatever threads did the work (main.cpp:131-145).  By the *)
(* 0-1 principle that holds for all integers if it holds for zeros and     *)
(* ones, as no comparison decides which pair is compared next.             *)
(***************************************************************************)
SortedAtEnd ==
  Done(Whole) =>
    /\ \A x, y \in Index : x <= y => arr[x] <= arr[y]
    /\ \A v \in Values : Cardinality(Places(arr, v)) = Cardinality(Places(input, v))

\* The two elements that a call compares next.
Touches(t) == {frames[t].i, frames[t].i + Half(t)}

Comparing == {t \in DOMAIN frames : frames[t].at = "swap"}

(***************************************************************************)
(* Two threads never have their hands on the same element: the array needs *)
(* no lock (main.cpp:22-26, 37-39).                                        *)
(***************************************************************************)
DisjointWork ==
  \A t, u \in Comparing : t # u => Touches(t) \cap Touches(u) = {}

(***************************************************************************)
(* The counter stays within the limit, and at the end every thread was     *)
(* given back (main.cpp:53-65, 90-103).                                    *)
(***************************************************************************)
ThreadsCounted ==
  active_threads \in 0 .. MaxThreads /\ (Done(Whole) => active_threads = 0)

(***************************************************************************)
(* Besides the threads that the counter knows at most one more is at work: *)
(* the one that waits for two threads does nothing, the one that has       *)
(* started one works as well (main.cpp:53-70, 90-108).                     *)
(***************************************************************************)
WorkersBounded == Cardinality(Comparing) <= MaxThreads + 1

(***************************************************************************)
(* The sort ends, as no call waits for a thread it cannot have             *)
(* (main.cpp:66-70, 104-108).                                              *)
(***************************************************************************)
Terminates == <>Done(Whole)

-----------------------------------------------------------------------------
(***************************************************************************)
(* What the report says, and the run refutes: "the maximal number of       *)
(* threads that work at the same time is given by a key of the program".   *)
(***************************************************************************)
WorkersWithinLimit == Cardinality(Comparing) <= MaxThreads
=============================================================================
