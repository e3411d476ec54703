-------------------------- MODULE BitonicSortProofs --------------------------
(***************************************************************************)
(* Proofs about Lab2, for an array of any length, any limit of the threads *)
(* and any elements: two threads never have their hands on the same        *)
(* element, the counter of threads stays within its limit and is given     *)
(* back, at most one thread more than the limit is at work, and the array  *)
(* is sorted at the end.                                                   *)
(***************************************************************************)
EXTENDS BitonicSort, FiniteSetTheorems, TLAPS

-----------------------------------------------------------------------------
(***************************************************************************)
(* Where calls lie in the array: apart, or one below the other, which is   *)
(* in a smaller range or is the merge of the same range.                   *)
(***************************************************************************)
Apart(t, u) == t.low + t.cnt <= u.low \/ u.low + u.cnt <= t.low

Below(u, t) ==
  /\ t.low <= u.low /\ u.low + u.cnt <= t.low + t.cnt
  /\ \/ u.cnt < t.cnt
     \/ /\ u.low = t.low /\ u.cnt = t.cnt
        /\ t.kind = "sort" /\ u.kind = "merge"

Inside(u, t) == u = t \/ Below(u, t)

(***************************************************************************)
(* The calls that a call has made and that it has still to leave.          *)
(***************************************************************************)
KidsAt(t, where) ==
  CASE where = "right"   -> {Left(t)}
    [] where = "join"    -> {Left(t), Right(t)}
    [] where = "merging" -> {MergeOf(t)}
    [] OTHER             -> {}

Kids(t) == KidsAt(t, frames[t].at)

(***************************************************************************)
(* What is true of every call.  A left half that was called by the same    *)
(* thread has returned before the right one is called.                     *)
(***************************************************************************)
Fine(t, f) ==
  /\ f \in Frame
  /\ f.at # "done" => t.cnt >= 2
  /\ f.at = "swap" => /\ t.kind = "merge" /\ f.threads = 0
                      /\ t.low <= f.i /\ f.i < t.low + Half(t)
  /\ f.at = "merging" => t.kind = "sort"

AloneAtRight(f) == f.at = "join" /\ f.threads = 0

FrameInv ==
  /\ frames = [t \in DOMAIN frames |-> frames[t]]
  /\ \A t \in DOMAIN frames : /\ t \in Call /\ t.low + t.cnt <= N /\ (N > 0 => t.cnt > 0)
                              /\ Fine(t, frames[t])
                              /\ AloneAtRight(frames[t]) => Done(Left(t))

(***************************************************************************)
(* The calls form a tree: two calls are apart or one below the other, and  *)
(* what is below a call is inside of one of its kids.                      *)
(***************************************************************************)
Tree ==
  /\ Whole \in DOMAIN frames
  /\ \A t \in DOMAIN frames : Inside(t, Whole)
  /\ \A t \in DOMAIN frames : Kids(t) \subseteq DOMAIN frames
  /\ \A t, u \in DOMAIN frames : t = u \/ Apart(t, u) \/ Below(t, u) \/ Below(u, t)
  /\ \A t, u \in DOMAIN frames : Below(u, t) => \E k \in Kids(t) : Inside(u, k)

(***************************************************************************)
(* The counter is the number of the threads that the calls hold: Holders(k)*)
(* are the calls that hold at least k of them.                             *)
(***************************************************************************)
Holding(f, k) == f.at \in {"left", "right", "join", "release"} /\ f.threads >= k
Holders(k) == {t \in DOMAIN frames : Holding(frames[t], k)}

(***************************************************************************)
(* A call that started threads has one more at work than before.  At work  *)
(* is a call that does not wait for another, unless it is a left half that *)
(* was left before the right half was called.                              *)
(***************************************************************************)
Forks(f) == f.at \in {"right", "join"} /\ f.threads > 0
Forked == {t \in DOMAIN frames : Forks(frames[t])}

Spent(v) == \E t \in DOMAIN frames : AloneAtRight(frames[t]) /\ v = Left(t)

Works(f) ==
  \/ f.at \in {"swap", "ask", "left", "release", "done"}
  \/ f.at = "right" /\ f.threads > 0

Running == {t \in DOMAIN frames : Works(frames[t]) /\ ~ Spent(t)}

CountInv ==
  /\ IsFiniteSet(DOMAIN frames)
  /\ active_threads = Cardinality(Holders(1)) + Cardinality(Holders(2))
  /\ active_threads <= MaxThreads
  /\ Cardinality(Running) = Cardinality(Forked) + 1

ArrayInv == arr \in [Index -> Values] /\ input \in [Index -> Values]

SortInv == ArrayInv /\ FrameInv /\ Tree /\ CountInv
-----------------------------------------------------------------------------
(***************************************************************************)
(* The halves of a call lie apart and inside of it, and so does its merge. *)
(***************************************************************************)
LEMMA HalfFacts == \A n \in Nat : n >= 2 => n \div 2 \in Nat /\ n \div 2 >= 1 /\ 2 * (n \div 2) <= n
OBVIOUS

LEMMA HalvesFit ==
  ASSUME NEW t \in Call, t.cnt >= 2, t.low + t.cnt <= N
  PROVE  /\ Left(t) \in Call /\ Left(t).low + Left(t).cnt <= N /\ Left(t).cnt > 0
         /\ Right(t) \in Call /\ Right(t).low + Right(t).cnt <= N /\ Right(t).cnt > 0
         /\ Below(Left(t), t) /\ Below(Right(t), t)
         /\ Apart(Left(t), Right(t)) /\ Apart(Right(t), Left(t))
         /\ Left(t).kind = t.kind /\ Left(t).cnt < t.cnt
         /\ Right(t).kind = t.kind /\ Right(t).cnt < t.cnt
<1>1. /\ t.low \in Nat /\ t.cnt \in Nat /\ t.low <= N /\ t.cnt <= N /\ t.dir \in {0, 1}
      /\ t.kind \in {"sort", "merge"} /\ N \in Nat
  BY SortAssumption DEF Call
<1>2. Half(t) \in Nat /\ Half(t) >= 1 /\ 2 * Half(t) <= t.cnt
  BY <1>1, HalfFacts DEF Half
<1>3. /\ Left(t) \in Call /\ Left(t).kind = t.kind
      /\ Left(t).low = t.low /\ Left(t).cnt = Half(t)
  <2> DEFINE d == IF t.kind = "sort" THEN 1 ELSE t.dir
  <2>1. Left(t) = [[t EXCEPT !.cnt = Half(t)] EXCEPT !.dir = d]
    BY DEF Left, Call
  <2>2. d \in {0, 1} /\ Half(t) \in 0 .. N
    BY <1>1, <1>2
  <2> HIDE DEF d
  <2> QED
    BY <1>1, <2>1, <2>2 DEF Call
<1>4. /\ Right(t) \in Call /\ Right(t).kind = t.kind
      /\ Right(t).low = t.low + Half(t) /\ Right(t).cnt = Half(t)
  <2> DEFINE d == IF t.kind = "sort" THEN 0 ELSE t.dir
             l == t.low + Half(t)
  <2>1. Right(t) = [[[t EXCEPT !.cnt = Half(t)] EXCEPT !.low = l] EXCEPT !.dir = d]
    BY DEF Right, Call
  <2>2. d \in {0, 1} /\ Half(t) \in 0 .. N /\ l \in 0 .. N
    BY <1>1, <1>2
  <2> HIDE DEF d, l
  <2>3. /\ Right(t) \in Call /\ Right(t).kind = t.kind
        /\ Right(t).low = l /\ Right(t).cnt = Half(t)
    BY <1>1, <2>1, <2>2 DEF Call
  <2> QED
    BY <2>3 DEF l
<1>5. Left(t).cnt < t.cnt /\ Right(t).cnt < t.cnt
  BY <1>1, <1>2, <1>3, <1>4
<1>6. Below(Left(t), t) /\ Below(Right(t), t)
  BY <1>1, <1>2, <1>3, <1>4 DEF Below
<1>7. Apart(Left(t), Right(t)) /\ Apart(Right(t), Left(t))
  BY <1>1, <1>2, <1>3, <1>4 DEF Apart
<1> QED
  BY <1>1, <1>2, <1>3, <1>4, <1>5, <1>6, <1>7

LEMMA MergeFits ==
  ASSUME NEW t \in Call, t.kind = "sort"
  PROVE  /\ MergeOf(t) \in Call /\ MergeOf(t).low = t.low /\ MergeOf(t).cnt = t.cnt
         /\ MergeOf(t).kind = "merge" /\ Below(MergeOf(t), t)
<1>1. t.low \in Nat /\ t.cnt \in Nat
  BY SortAssumption DEF Call
<1>2. /\ MergeOf(t) \in Call /\ MergeOf(t).low = t.low /\ MergeOf(t).cnt = t.cnt
      /\ MergeOf(t).kind = "merge"
  BY DEF Call, MergeOf
<1> QED
  BY <1>1, <1>2 DEF Below

(***************************************************************************)
(* Below is a strict order, and what is below a call is apart from what    *)
(* the call is apart from.                                                 *)
(***************************************************************************)
LEMMA BelowIsStrict ==
  ASSUME NEW t \in Call, NEW u \in Call, Below(u, t)
  PROVE  u # t /\ ~ Below(t, u)
BY SortAssumption DEF Call, Below

LEMMA BelowTransitive ==
  ASSUME NEW t \in Call, NEW u \in Call, NEW v \in Call, Below(v, u), Below(u, t)
  PROVE  Below(v, t)
BY SortAssumption DEF Call, Below

LEMMA BelowApart ==
  ASSUME NEW t \in Call, NEW u \in Call, NEW v \in Call, Inside(u, t),
         Apart(t, v) \/ Apart(v, t)
  PROVE  Apart(u, v) /\ Apart(v, u)
BY SortAssumption DEF Call, Below, Apart, Inside

LEMMA ApartNotInside ==
  ASSUME NEW t \in Call, NEW u \in Call, u.cnt > 0, Inside(u, t)
  PROVE  ~ Apart(u, t) /\ ~ Apart(t, u)
BY SortAssumption DEF Call, Below, Apart, Inside

-----------------------------------------------------------------------------
(***************************************************************************)
(* The kids of a call lie below it, and apart from each other.             *)
(***************************************************************************)
LEMMA KidsFit ==
  ASSUME FrameInv, NEW t \in DOMAIN frames, NEW k \in Kids(t)
  PROVE  /\ k \in Call /\ k.low + k.cnt <= N /\ k.cnt > 0 /\ Below(k, t)
         /\ \A l \in Kids(t) : l = k \/ Apart(l, k)
         /\ t.cnt >= 2 /\ frames[t].at \in {"right", "join", "merging"}
<1>1. frames[t].at \in {"right", "join", "merging"}
  BY DEF Kids, KidsAt
<1>2. t \in Call /\ t.cnt >= 2 /\ t.low + t.cnt <= N
  BY <1>1 DEF FrameInv, Fine
<1>3. CASE frames[t].at = "right"
  BY <1>2, <1>3, HalvesFit DEF Kids, KidsAt
<1>4. CASE frames[t].at = "join"
  BY <1>2, <1>4, HalvesFit DEF Kids, KidsAt
<1>5. CASE frames[t].at = "merging"
  <2>1. Kids(t) = {MergeOf(t)} /\ t.kind = "sort"
    BY <1>5 DEF Kids, KidsAt, FrameInv, Fine
  <2>2. t.cnt \in Nat
    BY <1>2, SortAssumption DEF Call
  <2> QED
    BY <1>2, <1>5, <2>1, <2>2, MergeFits
<1> QED
  BY <1>1, <1>3, <1>4, <1>5

(***************************************************************************)
(* A call has one caller.                                                  *)
(***************************************************************************)
LEMMA OneCaller ==
  ASSUME FrameInv, Tree, NEW t \in DOMAIN frames, NEW u \in DOMAIN frames,
         NEW k \in Kids(t), k \in Kids(u)
  PROVE  t = u
<1> SUFFICES ASSUME t # u
             PROVE  FALSE
  OBVIOUS
<1>1. t \in Call /\ u \in Call /\ k \in Call /\ k.cnt > 0 /\ Below(k, t) /\ Below(k, u)
  BY KidsFit DEF FrameInv
<1>2. ASSUME NEW v \in DOMAIN frames, NEW w \in DOMAIN frames, v \in Call, w \in Call,
             k \in Kids(v), k \in Kids(w), Below(k, v), Below(v, w)
      PROVE  FALSE
  <2>1. PICK l \in Kids(w) : Inside(v, l)
    BY <1>2 DEF Tree
  <2>2. l \in Call /\ (l = k \/ Apart(l, k))
    BY <1>2, KidsFit
  <2>3. Inside(k, l) /\ (l = k => Below(k, k))
    BY <1>1, <1>2, <2>1, <2>2, BelowTransitive DEF Inside
  <2> QED
    BY <1>1, <2>2, <2>3, BelowIsStrict, ApartNotInside
<1>3. ~ Apart(t, u) /\ ~ Apart(u, t)
  BY <1>1, BelowApart, ApartNotInside DEF Inside
<1>4. Below(t, u) \/ Below(u, t)
  BY <1>3 DEF Tree
<1> QED
  BY <1>1, <1>2, <1>4

(***************************************************************************)
(* What is below a call that has no kids to leave is not there.            *)
(***************************************************************************)
LEMMA BelowKids ==
  ASSUME FrameInv, Tree, NEW t \in DOMAIN frames, NEW R \in SUBSET Kids(t),
         \A r \in R : Kids(r) = {}, NEW v \in DOMAIN frames, Below(v, t), v \notin R
  PROVE  \E k \in Kids(t) \ R : Inside(v, k)
<1>1. PICK k \in Kids(t) : Inside(v, k)
  BY DEF Tree
<1>2. CASE k \in R
  <2>1. k \in DOMAIN frames /\ Below(v, k)
    BY <1>1, <1>2 DEF Inside, Tree
  <2> QED
    BY <1>2, <2>1 DEF Tree
<1> QED
  BY <1>1, <1>2

-----------------------------------------------------------------------------
(***************************************************************************)
(* What every step does: one call t gets a new state x, the calls in gone  *)
(* are left, those in new are made.                                        *)
(***************************************************************************)
Changes(t, x, gone, new) ==
  /\ frames' = [u \in DOMAIN frames' |-> frames'[u]]
  /\ DOMAIN frames' = (DOMAIN frames \ gone) \cup new
  /\ frames'[t] = x
  /\ \A u \in DOMAIN frames \ (gone \cup {t}) : frames'[u] = frames[u]
  /\ \A u \in new : frames'[u] = Entered(u)

(***************************************************************************)
(* Such a step is made in the right order: what is left is a kid that has  *)
(* returned, what is made is a kid apart from the kids that stay.          *)
(***************************************************************************)
Orderly(t, x, gone, new) ==
  /\ t \in DOMAIN frames /\ frames[t].at # "done" /\ Fine(t, x)
  /\ gone \subseteq Kids(t)
  /\ frames[t].at = "join" => Left(t) \in gone
  /\ \A r \in gone : Done(r) /\ r \notin new
  /\ \A a \in new : /\ a \in Call /\ a.low + a.cnt <= N /\ a.cnt > 0 /\ Below(a, t)
                    /\ \A k \in Kids(t) \ gone : Apart(a, k)
                    /\ \A b \in new : a = b
  /\ KidsAt(t, x.at) = (Kids(t) \ gone) \cup new
  /\ AloneAtRight(x) => Done(Left(t)) /\ Left(t) \notin gone \cup new

LEMMA GoneHasNoKids ==
  ASSUME NEW t, NEW x, NEW gone, NEW new, Orderly(t, x, gone, new), NEW r \in gone
  PROVE  Kids(r) = {}
BY DEF Orderly, Kids, KidsAt, Done, At

(***************************************************************************)
(* A call that is made was not there.                                      *)
(***************************************************************************)
LEMMA NewIsNew ==
  ASSUME FrameInv, Tree, NEW t, NEW x, NEW gone, NEW new, Orderly(t, x, gone, new)
  PROVE  new \cap DOMAIN frames = {}
<1> SUFFICES ASSUME NEW a \in new, a \in DOMAIN frames
             PROVE  FALSE
  OBVIOUS
<1>1. a \in Call /\ a.cnt > 0 /\ Below(a, t) /\ a \notin gone
  BY DEF Orderly
<1>2. PICK k \in Kids(t) \ gone : Inside(a, k)
  BY <1>1, BelowKids, GoneHasNoKids DEF Orderly
<1>3. k \in Call /\ Apart(a, k)
  BY KidsFit DEF Orderly
<1> QED
  BY <1>1, <1>2, <1>3, ApartNotInside

(***************************************************************************)
(* Such a step keeps the tree.                                             *)
(***************************************************************************)
LEMMA TreeStep ==
  ASSUME FrameInv, Tree, NEW t, NEW x, NEW gone, NEW new,
         Changes(t, x, gone, new), Orderly(t, x, gone, new)
  PROVE  Tree'
<1> DEFINE D == DOMAIN frames
           stay == Kids(t) \ gone
<1>1. /\ t \in D /\ DOMAIN frames' = (D \ gone) \cup new /\ gone \subseteq Kids(t)
      /\ new \cap D = {}
  <2>1. new \cap D = {}
    BY NewIsNew
  <2> QED
    BY <2>1 DEF Changes, Orderly
<1>2. \A u \in D : u \in Call /\ Kids(u) \subseteq D
  BY DEF FrameInv, Tree
<1>3. \A r \in gone : r \in D /\ Below(r, t) /\ r # t
  BY <1>1, <1>2, KidsFit, BelowIsStrict
<1>4. \A a \in new : a \in Call /\ a.cnt > 0 /\ Below(a, t) /\ a # t
  BY <1>1 DEF Orderly
<1>5. Kids(t)' = stay \cup new
  BY DEF Kids, Changes, Orderly
<1>6. \A a \in new : Kids(a)' = {}
  BY DEF Kids, KidsAt, Changes, Entered
<1>7. \A u \in D \ (gone \cup {t}) : Kids(u)' = Kids(u)
  BY DEF Kids, Changes
<1>8. \A u \in D \ gone : Below(u, t) => \E k \in stay : Inside(u, k)
  BY <1>1, BelowKids, GoneHasNoKids DEF Orderly
<1>9. \A a \in new, k \in stay : Apart(a, k) /\ k \in Call /\ k.cnt > 0
  BY <1>1, KidsFit DEF Orderly
\* A new call is apart from what lies below its caller.
<1>10. ASSUME NEW a \in new, NEW u \in D \ gone, Below(u, t)
       PROVE  Apart(a, u) /\ Apart(u, a)
  <2>1. PICK k \in stay : Inside(u, k)
    BY <1>8, <1>10
  <2> QED
    BY <1>2, <1>4, <1>9, <2>1, BelowApart
<1>11. ASSUME NEW a \in new, NEW u \in D
       PROVE  u.cnt > 0
  <2>1. a.low \in Nat /\ a.cnt \in Nat /\ a.cnt > 0 /\ a.low + a.cnt <= N
    BY DEF Orderly, Call
  <2> QED
    BY <2>1, SortAssumption DEF FrameInv
<1>12. Whole \in DOMAIN frames'
  <2>1. Whole \notin gone
    <3> SUFFICES ASSUME Whole \in gone
                 PROVE  FALSE
      OBVIOUS
    <3>1. Below(Whole, t) /\ Inside(t, Whole)
      BY <1>1, <1>3 DEF Tree
    <3> QED
      BY <1>1, <1>2, <1>3, <3>1, BelowIsStrict DEF Inside
  <2> QED
    BY <1>1, <2>1 DEF Tree
<1>13. \A u \in DOMAIN frames' : Inside(u, Whole)
  <2>1. Whole \in Call /\ \A u \in D : Inside(u, Whole)
    BY <1>2 DEF Tree
  <2>2. ASSUME NEW a \in new
        PROVE  Inside(a, Whole)
    BY <1>1, <1>2, <1>4, <2>1, BelowTransitive DEF Inside
  <2> QED
    BY <1>1, <2>1, <2>2
<1>14. \A u \in DOMAIN frames' : Kids(u)' \subseteq DOMAIN frames'
  <2>1. ASSUME NEW u \in D \ (gone \cup {t})
        PROVE  Kids(u) \cap gone = {}
    BY <1>1, <2>1, OneCaller
  <2> QED
    BY <1>1, <1>2, <1>5, <1>6, <1>7, <2>1
<1>15. \A u, v \in DOMAIN frames' : u = v \/ Apart(u, v) \/ Below(u, v) \/ Below(v, u)
  <2>1. ASSUME NEW a \in new, NEW u \in D \ gone
        PROVE  /\ Apart(a, u) \/ Below(a, u)
               /\ Apart(u, a) \/ Below(a, u)
    <3>1. CASE u = t
      BY <1>4, <3>1
    <3>2. CASE Apart(t, u) \/ Apart(u, t)
      BY <1>1, <1>2, <1>4, <3>2, BelowApart DEF Inside
    <3>3. CASE Below(t, u)
      BY <1>1, <1>2, <1>4, <3>3, BelowTransitive
    <3>4. CASE Below(u, t)
      BY <1>10, <3>4
    <3> QED
      BY <1>1, <3>1, <3>2, <3>3, <3>4 DEF Tree
  <2>2. \A a, b \in new : a = b
    BY DEF Orderly
  <2>3. \A u, v \in D : u = v \/ Apart(u, v) \/ Below(u, v) \/ Below(v, u)
    BY DEF Tree
  <2> QED
    BY <1>1, <2>1, <2>2, <2>3
<1>16. ASSUME NEW w \in DOMAIN frames', NEW u \in DOMAIN frames', Below(u, w)
       PROVE  \E k \in Kids(w)' : Inside(u, k)
  <2>1. CASE w \in new
    <3>1. u \notin new
      BY <1>4, <1>16, <2>1, BelowIsStrict DEF Orderly
    <3>2. u \in D \ gone
      BY <1>1, <3>1
    <3>3. Below(u, t)
      BY <1>1, <1>2, <1>4, <1>16, <2>1, <3>2, BelowTransitive
    <3>4. Apart(u, w)
      BY <1>10, <2>1, <3>2, <3>3
    <3> QED
      BY <1>2, <1>4, <1>11, <1>16, <2>1, <3>2, <3>4, ApartNotInside DEF Inside
  <2>2. CASE w = t
    <3>1. CASE u \in new
      BY <1>5, <2>2, <3>1 DEF Inside
    <3>2. CASE u \in D \ gone
      BY <1>5, <1>8, <1>16, <2>2, <3>2
    <3> QED
      BY <1>1, <3>1, <3>2
  <2>3. CASE w \in D \ (gone \cup {t})
    <3>1. CASE u \in D \ gone
      BY <1>7, <1>16, <2>3, <3>1 DEF Tree
    <3>2. CASE u \in new
      <4>1. ~ Apart(t, w)
        BY <1>1, <1>2, <1>4, <1>16, <2>3, <3>2, BelowApart, ApartNotInside DEF Inside
      <4>2. ~ Below(w, t)
        BY <1>2, <1>4, <1>10, <1>16, <2>3, <3>2, ApartNotInside DEF Inside
      <4>3. Below(t, w)
        BY <1>1, <2>3, <4>1, <4>2 DEF Tree
      <4>4. PICK k \in Kids(w) : Inside(t, k)
        BY <1>1, <2>3, <4>3 DEF Tree
      <4>5. k \in Call
        BY <1>2, <2>3
      <4>6. Inside(u, k)
        BY <1>1, <1>2, <1>4, <3>2, <4>4, <4>5, BelowTransitive DEF Inside
      <4> QED
        BY <1>7, <2>3, <4>6
    <3> QED
      BY <1>1, <3>1, <3>2
  <2> QED
    BY <1>1, <2>1, <2>2, <2>3
<1> QED
  BY <1>12, <1>13, <1>14, <1>15, <1>16 DEF Tree

(***************************************************************************)
(* Such a step keeps what is true of every call.                           *)
(***************************************************************************)
LEMMA EnteredFine ==
  ASSUME NEW a \in Call
  PROVE  Fine(a, Entered(a)) /\ ~ AloneAtRight(Entered(a)) /\ Entered(a).threads = 0
<1>1. a.low \in Nat /\ a.cnt \in Nat /\ a.low \in 0 .. N /\ a.kind \in {"sort", "merge"}
  BY SortAssumption DEF Call
<1>2. a.cnt > 1 => a.low < a.low + Half(a)
  BY <1>1, HalfFacts DEF Half
<1> QED
  BY <1>1, <1>2 DEF Fine, Entered, Frame, AloneAtRight

LEMMA FrameStep ==
  ASSUME FrameInv, Tree, NEW t, NEW x, NEW gone, NEW new,
         Changes(t, x, gone, new), Orderly(t, x, gone, new)
  PROVE  FrameInv'
<1>1. /\ t \in DOMAIN frames /\ DOMAIN frames' = (DOMAIN frames \ gone) \cup new
      /\ frames'[t] = x /\ Fine(t, x) /\ gone \subseteq Kids(t)
  BY DEF Changes, Orderly
<1>2. \A u \in DOMAIN frames \ (gone \cup {t}) : frames'[u] = frames[u]
  BY DEF Changes
<1>3. \A u \in DOMAIN frames' : /\ u \in Call /\ u.low + u.cnt <= N /\ (N > 0 => u.cnt > 0)
                                /\ Fine(u, frames'[u])
  <2>1. ASSUME NEW a \in new
        PROVE  /\ a \in Call /\ a.low + a.cnt <= N /\ a.cnt > 0
               /\ Fine(a, frames'[a])
    <3>1. /\ a \in Call /\ a.low + a.cnt <= N /\ a.cnt > 0
      BY DEF Orderly
    <3> QED
      BY <3>1, EnteredFine DEF Changes
  <2> QED
    BY <1>1, <1>2, <2>1 DEF FrameInv
<1>4. ASSUME NEW u \in DOMAIN frames', AloneAtRight(frames'[u])
      PROVE  Done(Left(u))'
  <2>1. CASE u \in new
    <3>1. u \in Call
      BY <2>1 DEF Orderly
    <3> QED
      BY <1>4, <2>1, <3>1, EnteredFine DEF Changes
  <2>2. CASE u = t
    <3>1. Done(Left(t)) /\ Left(t) \notin gone /\ frames[t].at # "done"
      BY <1>1, <1>4, <2>2 DEF Orderly
    <3> QED
      BY <1>1, <1>2, <2>2, <3>1 DEF Done, At
  <2>3. CASE u \in DOMAIN frames \ (gone \cup {t})
    <3>1. AloneAtRight(frames[u])
      BY <1>2, <1>4, <2>3
    <3>2. Done(Left(u)) /\ Left(u) \in Kids(u) /\ frames[t].at # "done"
      BY <2>3, <3>1 DEF FrameInv, Kids, KidsAt, AloneAtRight, Orderly
    <3>3. Left(u) \notin gone
      BY <1>1, <2>3, <3>2, OneCaller
    <3> QED
      BY <1>1, <1>2, <3>2, <3>3 DEF Done, At
  <2> QED
    BY <1>1, <2>1, <2>2, <2>3
<1>5. frames' = [u \in DOMAIN frames' |-> frames'[u]]
  BY DEF Changes
<1> QED
  BY <1>3, <1>4, <1>5 DEF FrameInv

-----------------------------------------------------------------------------
(***************************************************************************)
(* The steps of the program are such steps.  One round of the loop of a    *)
(* merge:                                                                  *)
(***************************************************************************)
LEMMA SwapChanges ==
  ASSUME FrameInv, Tree, NEW t \in DOMAIN frames, Swap(t)
  PROVE  LET x == frames'[t] IN
         /\ Changes(t, x, {}, {}) /\ Orderly(t, x, {}, {})
         /\ frames[t].at = "swap" /\ x.at \in {"swap", "ask", "left"} /\ x.threads = 0
<1> DEFINE f == frames[t]
           i == f.i
           w == IF i + 1 < t.low + Half(t) THEN f.at
                ELSE IF Half(t) < Threshold THEN "left" ELSE "ask"
           x == [f EXCEPT !.i = i + 1, !.at = w]
<1>1. /\ f.at = "swap" /\ f \in Frame /\ t \in Call /\ t.low + t.cnt <= N /\ t.cnt >= 2
      /\ t.kind = "merge" /\ f.threads = 0 /\ t.low <= i /\ i < t.low + Half(t)
  BY DEF Swap, At, FrameInv, Fine
<1>2. frames' = [frames EXCEPT ![t] = x]
  BY <1>1 DEF Swap, FrameInv
<1>3. /\ i \in Nat /\ t.low \in Nat /\ t.cnt \in Nat /\ N \in Nat
  BY <1>1, SortAssumption DEF Frame, Call
<1>4. Half(t) \in Nat /\ 2 * Half(t) <= t.cnt /\ i + 1 <= N
  BY <1>1, <1>3, HalfFacts DEF Half
<1>5. w \in {"swap", "left", "ask"} /\ (w = "swap" => i + 1 < t.low + Half(t))
  BY <1>1
<1>6. x \in Frame /\ x.at = w /\ x.i = i + 1 /\ x.threads = 0
  <2> DEFINE j == i + 1
  <2>1. j \in 0 .. N /\ w \in {"swap", "left", "ask"}
    BY <1>3, <1>4, <1>5
  <2> HIDE DEF w, j
  <2>2. /\ [f EXCEPT !.i = j, !.at = w] \in Frame
        /\ [f EXCEPT !.i = j, !.at = w].at = w
        /\ [f EXCEPT !.i = j, !.at = w].i = j
        /\ [f EXCEPT !.i = j, !.at = w].threads = f.threads
    BY <1>1, <2>1 DEF Frame
  <2> QED
    BY <1>1, <2>2 DEF j
<1> HIDE DEF x, w
<1>7. frames'[t] = x /\ Changes(t, x, {}, {})
  BY <1>2 DEF Changes
<1>8. Fine(t, x)
  BY <1>1, <1>3, <1>5, <1>6 DEF Fine
<1>9. Orderly(t, x, {}, {})
  BY <1>1, <1>5, <1>6, <1>8 DEF Orderly, Kids, KidsAt, AloneAtRight
<1> QED
  BY <1>1, <1>5, <1>6, <1>7, <1>9

(***************************************************************************)
(* The counter is asked for threads.                                       *)
(***************************************************************************)
LEMMA AskChanges ==
  ASSUME FrameInv, Tree, NEW t \in DOMAIN frames, Ask(t)
  PROVE  LET x == frames'[t] IN
         /\ Changes(t, x, {}, {}) /\ Orderly(t, x, {}, {})
         /\ frames[t].at = "ask" /\ x.at = "left" /\ x.threads \in 0 .. 2
         /\ active_threads' = active_threads + x.threads
         /\ x.threads > 0 => active_threads + x.threads <= MaxThreads
<1> DEFINE f == frames[t]
           n == IF active_threads + ThreadsAsked(t) <= MaxThreads
                THEN ThreadsAsked(t) ELSE 0
           x == [f EXCEPT !.at = "left", !.threads = n]
<1>1. f.at = "ask" /\ f \in Frame /\ t.cnt >= 2
  BY DEF Ask, At, FrameInv, Fine
<1>2. frames' = [frames EXCEPT ![t] = x] /\ active_threads' = active_threads + n
  BY <1>1 DEF Ask, FrameInv
<1>3. n \in 0 .. 2 /\ (n > 0 => active_threads + n <= MaxThreads)
  BY DEF ThreadsAsked
<1> HIDE DEF n
<1>4. x \in Frame /\ x.at = "left" /\ x.threads = n
  BY <1>1, <1>3 DEF Frame
<1> HIDE DEF x
<1>5. frames'[t] = x /\ Changes(t, x, {}, {})
  BY <1>2 DEF Changes
<1>6. Orderly(t, x, {}, {})
  BY <1>1, <1>4 DEF Orderly, Fine, Kids, KidsAt, AloneAtRight
<1> QED
  BY <1>1, <1>2, <1>3, <1>4, <1>5, <1>6

(***************************************************************************)
(* A half is called, or given to a thread.                                 *)
(***************************************************************************)
LEMMA StartLeftChanges ==
  ASSUME FrameInv, Tree, NEW t \in DOMAIN frames, StartLeft(t)
  PROVE  LET x == frames'[t] IN
         /\ Changes(t, x, {}, {Left(t)}) /\ Orderly(t, x, {}, {Left(t)})
         /\ frames[t].at = "left" /\ x.at = "right" /\ x.threads = frames[t].threads
<1> DEFINE x == [frames[t] EXCEPT !.at = "right"]
<1>1. /\ frames[t].at = "left" /\ frames[t] \in Frame
      /\ t \in Call /\ t.low + t.cnt <= N /\ t.cnt >= 2
  BY DEF StartLeft, At, FrameInv, Fine
<1>2. x \in Frame /\ x.at = "right" /\ x.threads = frames[t].threads
  BY <1>1 DEF Frame
<1>3. Goes(t, "right") = [frames EXCEPT ![t] = x]
  BY DEF Goes
<1> HIDE DEF x
<1>4. Orderly(t, x, {}, {Left(t)})
  BY <1>1, <1>2, HalvesFit DEF Orderly, Fine, Kids, KidsAt, AloneAtRight
<1>5. Left(t) \notin DOMAIN frames
  BY <1>4, NewIsNew
<1>6. frames'[t] = x /\ Changes(t, x, {}, {Left(t)})
  BY <1>3, <1>5 DEF StartLeft, Called, Changes
<1> QED
  BY <1>1, <1>2, <1>4, <1>6

LEMMA StartRightChanges ==
  ASSUME FrameInv, Tree, NEW t \in DOMAIN frames, StartRight(t)
  PROVE  LET x == frames'[t] IN
         /\ Changes(t, x, {}, {Right(t)}) /\ Orderly(t, x, {}, {Right(t)})
         /\ frames[t].at = "right" /\ x.at = "join" /\ x.threads = frames[t].threads
         /\ frames[t].threads > 0 \/ Done(Left(t))
<1> DEFINE x == [frames[t] EXCEPT !.at = "join"]
<1>1. /\ frames[t].at = "right" /\ frames[t] \in Frame
      /\ frames[t].threads > 0 \/ Done(Left(t))
      /\ t \in Call /\ t.low + t.cnt <= N /\ t.cnt >= 2
  BY DEF StartRight, At, FrameInv, Fine
<1>2. x \in Frame /\ x.at = "join" /\ x.threads = frames[t].threads
  BY <1>1 DEF Frame
<1>3. Goes(t, "join") = [frames EXCEPT ![t] = x]
  BY DEF Goes
<1> HIDE DEF x
<1>4. Right(t) # Left(t) /\ Apart(Right(t), Left(t))
  BY <1>1, HalvesFit, ApartNotInside DEF Inside
<1>5. Orderly(t, x, {}, {Right(t)})
  <2>1. Kids(t) = {Left(t)} /\ KidsAt(t, x.at) = {Left(t), Right(t)}
    BY <1>1, <1>2 DEF Kids, KidsAt
  <2>2. AloneAtRight(x) => Done(Left(t))
    BY <1>1, <1>2 DEF AloneAtRight
  <2> QED
    BY <1>1, <1>2, <1>4, <2>1, <2>2, HalvesFit DEF Orderly, Fine
<1>6. Right(t) \notin DOMAIN frames
  BY <1>5, NewIsNew
<1>7. frames'[t] = x /\ Changes(t, x, {}, {Right(t)})
  BY <1>3, <1>6 DEF StartRight, Called, Changes
<1> QED
  BY <1>1, <1>2, <1>5, <1>7

(***************************************************************************)
(* After the halves a sort calls its merge, and a merge is at its end.     *)
(***************************************************************************)
MergeCall(t) == IF t.kind = "merge" THEN {} ELSE {MergeOf(t)}

LEMMA MergeCallFits ==
  ASSUME FrameInv, Tree, NEW t \in DOMAIN frames, frames[t].at \in {"join", "release"}
  PROVE  /\ t \in Call /\ t.cnt >= 2 /\ frames[t] \in Frame
         /\ \A k \in Kids(t) : k \notin MergeCall(t) /\ k # t
         /\ \A a \in MergeCall(t) :
              a \in Call /\ a.low + a.cnt <= N /\ a.cnt > 0 /\ Below(a, t)
         /\ t.kind # "merge" => t.kind = "sort" /\ MergeOf(t) \notin Kids(t)
<1>1. /\ t \in Call /\ t.cnt >= 2 /\ frames[t] \in Frame /\ t.low + t.cnt <= N
      /\ t.kind \in {"sort", "merge"} /\ t.cnt \in Nat /\ t.low \in Nat
  BY SortAssumption DEF FrameInv, Fine, Call
<1>2. ASSUME NEW k \in Kids(t)
      PROVE  k.cnt < t.cnt /\ k.cnt \in Nat /\ k # t
  <2>1. k \in Call /\ k \in {Left(t), Right(t)}
    BY KidsFit DEF Kids, KidsAt
  <2> QED
    BY <1>1, <2>1, HalvesFit, SortAssumption DEF Call
<1>3. t.kind # "merge" => /\ MergeOf(t) \in Call /\ MergeOf(t).low = t.low
                          /\ MergeOf(t).cnt = t.cnt /\ Below(MergeOf(t), t)
  BY <1>1, MergeFits
<1>4. t.kind # "merge" => t.kind = "sort" /\ MergeOf(t) \notin Kids(t)
  BY <1>1, <1>2, <1>3
<1> QED
  BY <1>1, <1>2, <1>3, <1>4 DEF MergeCall

LEMMA ContinueChanges ==
  ASSUME FrameInv, Tree, NEW t \in DOMAIN frames, frames[t].at \in {"join", "release"},
         \A r \in Kids(t) : Done(r),
         frames' = Continue(Without(frames, Kids(t)), t)
  PROVE  LET x == frames'[t] IN
         /\ Changes(t, x, Kids(t), MergeCall(t)) /\ Orderly(t, x, Kids(t), MergeCall(t))
         /\ x.at = IF t.kind = "merge" THEN "done" ELSE "merging"
<1> DEFINE w == IF t.kind = "merge" THEN "done" ELSE "merging"
           x == [frames[t] EXCEPT !.at = w]
           F == Without(frames, Kids(t))
           G == [F EXCEPT ![t].at = w]
<1>1. /\ t \in Call /\ t.cnt >= 2 /\ frames[t] \in Frame
      /\ \A k \in Kids(t) : k \notin MergeCall(t) /\ k # t
      /\ \A a \in MergeCall(t) :
           a \in Call /\ a.low + a.cnt <= N /\ a.cnt > 0 /\ Below(a, t)
      /\ t.kind # "merge" => t.kind = "sort" /\ MergeOf(t) \notin Kids(t)
  BY MergeCallFits
<1>2. x \in Frame /\ x.at = w /\ w \in {"done", "merging"}
  BY <1>1 DEF Frame
<1>3. Fine(t, x)
  BY <1>1, <1>2 DEF Fine
<1>4. KidsAt(t, w) = MergeCall(t)
  BY DEF KidsAt, MergeCall
<1>5. frames[t].at = "join" => Left(t) \in Kids(t)
  BY DEF Kids, KidsAt
<1>6. \A a, b \in MergeCall(t) : a = b
  BY DEF MergeCall
<1> HIDE DEF x
<1>7. Orderly(t, x, Kids(t), MergeCall(t))
  BY <1>1, <1>2, <1>3, <1>4, <1>5, <1>6 DEF Orderly, AloneAtRight
<1>8. MergeCall(t) \cap DOMAIN frames = {}
  BY <1>7, NewIsNew
<1>9. F = [u \in DOMAIN frames \ Kids(t) |-> frames[u]] /\ t \in DOMAIN F /\ F[t] = frames[t]
  BY <1>1 DEF Without
<1>10. /\ DOMAIN G = DOMAIN frames \ Kids(t) /\ G[t] = x
       /\ \A u \in DOMAIN frames \ (Kids(t) \cup {t}) : G[u] = frames[u]
       /\ G = [u \in DOMAIN G |-> G[u]]
  BY <1>9 DEF x
<1> HIDE DEF F, G, w
<1>11. frames' = IF t.kind = "merge" THEN G ELSE Called(G, MergeOf(t))
  BY DEF Continue, G, F, w
<1>12. CASE t.kind = "merge"
  BY <1>2, <1>7, <1>10, <1>11, <1>12 DEF Changes, MergeCall, w
<1>13. CASE t.kind # "merge"
  <2>1. MergeCall(t) = {MergeOf(t)} /\ MergeOf(t) \notin DOMAIN G
    BY <1>8, <1>10, <1>13 DEF MergeCall
  <2>2. frames' = Called(G, MergeOf(t)) /\ t # MergeOf(t)
    BY <1>10, <1>11, <1>13, <2>1, <1>1
  <2>3. Changes(t, x, Kids(t), MergeCall(t)) /\ frames'[t] = x
    BY <1>1, <1>10, <2>1, <2>2 DEF Changes, Called
  <2> QED
    BY <1>2, <1>7, <1>13, <2>3 DEF w
<1> QED
  BY <1>12, <1>13

(***************************************************************************)
(* Both halves are done.                                                   *)
(***************************************************************************)
LEMMA JoinChanges ==
  ASSUME FrameInv, Tree, NEW t \in DOMAIN frames, Join(t)
  PROVE  LET x   == frames'[t]
             new == IF frames[t].threads > 0 THEN {} ELSE MergeCall(t) IN
         /\ Changes(t, x, Kids(t), new) /\ Orderly(t, x, Kids(t), new)
         /\ frames[t].at = "join" /\ Kids(t) = {Left(t), Right(t)}
         /\ frames[t].threads > 0 => x.at = "release" /\ x.threads = frames[t].threads
         /\ ~ frames[t].threads > 0 => x.at = IF t.kind = "merge" THEN "done" ELSE "merging"
<1>1. /\ frames[t].at = "join" /\ Kids(t) = {Left(t), Right(t)}
      /\ \A r \in Kids(t) : Done(r)
  BY DEF Join, At, Kids, KidsAt
<1>2. CASE ~ frames[t].threads > 0
  <2>1. frames' = Continue(Without(frames, Kids(t)), t)
    BY <1>1, <1>2 DEF Join
  <2> QED
    BY <1>1, <1>2, <2>1, ContinueChanges
<1>3. CASE frames[t].threads > 0
  <2> DEFINE x == [frames[t] EXCEPT !.at = "release"]
             F == Without(frames, Kids(t))
  <2>1. frames' = [F EXCEPT ![t].at = "release"]
    BY <1>1, <1>3 DEF Join
  <2>2. /\ t \in Call /\ t.cnt >= 2 /\ frames[t] \in Frame /\ t \notin Kids(t)
    BY <1>1, MergeCallFits
  <2>3. x \in Frame /\ x.at = "release" /\ x.threads = frames[t].threads
    BY <2>2 DEF Frame
  <2>4. F = [u \in DOMAIN frames \ Kids(t) |-> frames[u]] /\ t \in DOMAIN F /\ F[t] = frames[t]
    BY <2>2 DEF Without
  <2>5. /\ DOMAIN frames' = DOMAIN frames \ Kids(t) /\ frames'[t] = x
        /\ \A u \in DOMAIN frames \ (Kids(t) \cup {t}) : frames'[u] = frames[u]
        /\ frames' = [u \in DOMAIN frames' |-> frames'[u]]
    BY <2>1, <2>4
  <2> HIDE DEF x, F
  <2>6. Changes(t, x, Kids(t), {})
    BY <2>5 DEF Changes
  <2>7. Orderly(t, x, Kids(t), {})
    BY <1>1, <2>2, <2>3 DEF Orderly, Fine, KidsAt, AloneAtRight
  <2> QED
    BY <1>1, <1>3, <2>3, <2>5, <2>6, <2>7
<1> QED
  BY <1>2, <1>3

(***************************************************************************)
(* The threads are given back.                                             *)
(***************************************************************************)
LEMMA ReleaseChanges ==
  ASSUME FrameInv, Tree, NEW t \in DOMAIN frames, Release(t)
  PROVE  LET x == frames'[t] IN
         /\ Changes(t, x, {}, MergeCall(t)) /\ Orderly(t, x, {}, MergeCall(t))
         /\ frames[t].at = "release" /\ x.at = IF t.kind = "merge" THEN "done" ELSE "merging"
         /\ active_threads' = active_threads - frames[t].threads
<1>1. frames[t].at = "release" /\ Kids(t) = {}
  BY DEF Release, At, Kids, KidsAt
<1>2. Without(frames, {}) = frames
  BY DEF FrameInv, Without
<1>3. frames' = Continue(Without(frames, Kids(t)), t)
  BY <1>1, <1>2 DEF Release
<1>4. LET x == frames'[t] IN
      /\ Changes(t, x, Kids(t), MergeCall(t)) /\ Orderly(t, x, Kids(t), MergeCall(t))
      /\ x.at = IF t.kind = "merge" THEN "done" ELSE "merging"
  BY <1>1, <1>3, ContinueChanges
<1> QED
  BY <1>1, <1>4 DEF Release

(***************************************************************************)
(* The merge of a sort has returned.                                       *)
(***************************************************************************)
LEMMA EndSortChanges ==
  ASSUME FrameInv, Tree, NEW t \in DOMAIN frames, EndSort(t)
  PROVE  LET x == frames'[t] IN
         /\ Changes(t, x, Kids(t), {}) /\ Orderly(t, x, Kids(t), {})
         /\ frames[t].at = "merging" /\ x.at = "done" /\ Kids(t) = {MergeOf(t)}
<1> DEFINE x == [frames[t] EXCEPT !.at = "done"]
           F == Goes(t, "done")
<1>1. /\ frames[t].at = "merging" /\ Kids(t) = {MergeOf(t)} /\ frames[t] \in Frame
      /\ Done(MergeOf(t)) /\ t \in Call /\ t.kind = "sort"
  BY DEF EndSort, At, Kids, KidsAt, FrameInv, Fine
<1>2. t # MergeOf(t)
  BY <1>1, MergeFits, BelowIsStrict
<1>3. x \in Frame /\ x.at = "done"
  BY <1>1 DEF Frame
<1>4. F = [frames EXCEPT ![t] = x]
  BY DEF Goes
<1> HIDE DEF x
<1>5. /\ DOMAIN F = DOMAIN frames /\ F[t] = x
      /\ \A u \in DOMAIN frames \ {t} : F[u] = frames[u]
  BY <1>4
<1>6. frames' = [u \in DOMAIN F \ {MergeOf(t)} |-> F[u]]
  BY DEF EndSort, Without
<1> HIDE DEF F
<1>7. frames'[t] = x /\ Changes(t, x, Kids(t), {})
  BY <1>1, <1>2, <1>5, <1>6 DEF Changes
<1>8. Orderly(t, x, Kids(t), {})
  BY <1>1, <1>3 DEF Orderly, Fine, KidsAt, AloneAtRight
<1> QED
  BY <1>1, <1>3, <1>7, <1>8

-----------------------------------------------------------------------------
(***************************************************************************)
(* How such a step changes what is counted.                                *)
(***************************************************************************)
LEMMA HoldersStep ==
  ASSUME FrameInv, Tree, NEW t, NEW x, NEW gone, NEW new,
         Changes(t, x, gone, new), Orderly(t, x, gone, new), NEW k \in {1, 2}
  PROVE  Holders(k)' = (Holders(k) \ {t}) \cup (IF Holding(x, k) THEN {t} ELSE {})
<1>1. /\ DOMAIN frames' = (DOMAIN frames \ gone) \cup new /\ t \in DOMAIN frames
      /\ frames'[t] = x /\ t \notin gone
      /\ \A u \in DOMAIN frames \ (gone \cup {t}) : frames'[u] = frames[u]
  BY DEF Changes, Orderly, Done, At
<1>2. \A r \in gone : ~ Holding(frames[r], k)
  BY DEF Orderly, Holding, Done, At
<1>3. \A a \in new : ~ Holding(frames'[a], k)
  BY DEF Changes, Holding, Entered
<1>4. new \cap DOMAIN frames = {}
  BY NewIsNew
<1> QED
  BY <1>1, <1>2, <1>3, <1>4 DEF Holders

LEMMA ForkedStep ==
  ASSUME FrameInv, Tree, NEW t, NEW x, NEW gone, NEW new,
         Changes(t, x, gone, new), Orderly(t, x, gone, new)
  PROVE  Forked' = (Forked \ {t}) \cup (IF Forks(x) THEN {t} ELSE {})
<1>1. /\ DOMAIN frames' = (DOMAIN frames \ gone) \cup new /\ t \in DOMAIN frames
      /\ frames'[t] = x /\ t \notin gone
      /\ \A u \in DOMAIN frames \ (gone \cup {t}) : frames'[u] = frames[u]
  BY DEF Changes, Orderly, Done, At
<1>2. \A r \in gone : ~ Forks(frames[r])
  BY DEF Orderly, Forks, Done, At
<1>3. \A a \in new : ~ Forks(frames'[a])
  BY DEF Changes, Forks, Entered
<1>4. new \cap DOMAIN frames = {}
  BY NewIsNew
<1> QED
  BY <1>1, <1>2, <1>3, <1>4 DEF Forked

LEMMA FiniteStep ==
  ASSUME FrameInv, Tree, NEW t, NEW x, NEW gone, NEW new,
         Changes(t, x, gone, new), Orderly(t, x, gone, new), IsFiniteSet(DOMAIN frames)
  PROVE  IsFiniteSet(DOMAIN frames')
<1>1. IsFiniteSet(DOMAIN frames \ gone)
  BY FS_Subset
<1>2. DOMAIN frames' = (DOMAIN frames \ gone) \cup new
  BY DEF Changes
<1>3. CASE new = {}
  BY <1>1, <1>2, <1>3
<1>4. CASE new # {}
  <2>1. PICK a \in new : new = {a}
    BY <1>4 DEF Orderly
  <2> QED
    BY <1>1, <1>2, <2>1, FS_AddElement
<1> QED
  BY <1>3, <1>4

(***************************************************************************)
(* A kid is spent only if its own caller is alone at its right half.       *)
(***************************************************************************)
LEMMA SpentKid ==
  ASSUME FrameInv, Tree, NEW t \in DOMAIN frames, NEW k \in Kids(t)
  PROVE  Spent(k) <=> AloneAtRight(frames[t]) /\ k = Left(t)
<1>1. ASSUME NEW u \in DOMAIN frames, AloneAtRight(frames[u]), k = Left(u)
      PROVE  u = t
  <2>1. k \in Kids(u)
    BY <1>1 DEF Kids, KidsAt, AloneAtRight
  <2> QED
    BY <2>1, OneCaller
<1> QED
  BY <1>1 DEF Spent

LEMMA SpentIsDone ==
  ASSUME FrameInv, NEW v, Spent(v)
  PROVE  Done(v)
BY DEF FrameInv, Spent

LEMMA RunningStep ==
  ASSUME FrameInv, Tree, FrameInv', NEW t, NEW x, NEW gone, NEW new,
         Changes(t, x, gone, new), Orderly(t, x, gone, new)
  PROVE  /\ t \in Running <=> Works(frames[t])
         /\ t \in Running' <=> x.at = "done" \/ Works(x)
         /\ \A a \in new : a \in Running' /\ a \notin Running
         /\ \A r \in gone : /\ r \notin Running'
                            /\ r \in Running <=> ~ (AloneAtRight(frames[t]) /\ r = Left(t))
         /\ \A v \in DOMAIN frames \ ({t} \cup gone) :
              IF AloneAtRight(x) /\ v = Left(t)
              THEN v \notin Running'
              ELSE v \in Running' <=> v \in Running
<1>1. /\ DOMAIN frames' = (DOMAIN frames \ gone) \cup new /\ t \in DOMAIN frames
      /\ frames'[t] = x /\ t \notin gone /\ frames[t].at # "done"
      /\ \A r \in gone : Done(r) /\ r \notin new /\ r \in Kids(t)
  BY DEF Changes, Orderly, Done, At
<1>2. \A u \in DOMAIN frames \ (gone \cup {t}) : frames'[u] = frames[u]
  BY DEF Changes
<1>3. new \cap DOMAIN frames = {}
  BY NewIsNew
\* Who is spent after the step.
<1>4. ASSUME NEW v
      PROVE  Spent(v)' <=> \/ AloneAtRight(x) /\ v = Left(t)
                           \/ v # Left(t) /\ Spent(v)
                           \/ v = Left(t) /\ \E u \in DOMAIN frames \ {t} :
                                               AloneAtRight(frames[u]) /\ v = Left(u)
  <2>1. \A a \in new : ~ AloneAtRight(frames'[a])
    BY EnteredFine DEF Changes, Orderly
  <2>2. \A r \in gone : ~ AloneAtRight(frames[r])
    BY <1>1 DEF Done, At, AloneAtRight
  <2> QED
    BY <1>1, <1>2, <2>1, <2>2 DEF Spent
<1>5. ASSUME NEW u \in DOMAIN frames \ {t}, AloneAtRight(frames[u])
      PROVE  /\ Left(u) \in Kids(u) /\ Done(Left(u)) /\ Left(u) # t
             /\ Left(u) \notin Kids(t) /\ Left(u) \notin new
  <2>1. Left(u) \in Kids(u) /\ Done(Left(u))
    BY <1>5 DEF Kids, KidsAt, AloneAtRight, FrameInv
  <2>2. Left(u) # t /\ Left(u) \notin new
    BY <1>1, <1>3, <2>1 DEF Done, At
  <2> QED
    BY <1>1, <2>1, <2>2, OneCaller
<1>6. t # Left(t) /\ (frames[t].at \in {"right", "join"} => Left(t) \in Kids(t))
  <2>1. t \in Call /\ t.cnt >= 2 /\ t.low + t.cnt <= N
    BY <1>1 DEF FrameInv, Fine
  <2> QED
    BY <2>1, HalvesFit, BelowIsStrict DEF Kids, KidsAt
<1>7. ~ Spent(t) /\ ~ Spent(t)'
  <2>1. ~ Spent(t)
    BY <1>1, SpentIsDone DEF Done, At
  <2> QED
    BY <1>4, <1>6, <2>1
<1>8. ASSUME NEW a \in new
      PROVE  ~ Spent(a)' /\ Works(frames'[a])
  <2>1. AloneAtRight(x) => a # Left(t)
    BY DEF Orderly
  <2>2. \A u \in DOMAIN frames \ {t} : AloneAtRight(frames[u]) => a # Left(u)
    BY <1>5
  <2>3. AloneAtRight(frames[t]) => Done(Left(t))
    BY <1>1 DEF FrameInv
  <2>4. ~ Spent(a)
    BY <1>3, <2>2, <2>3 DEF Spent, Done, At
  <2>5. Works(frames'[a])
    BY DEF Changes, Works, Entered
  <2> QED
    BY <1>4, <2>1, <2>2, <2>4, <2>5
<1>9. \A r \in gone : r \in Running <=> ~ (AloneAtRight(frames[t]) /\ r = Left(t))
  BY <1>1, SpentKid DEF Running, Works, Done, At
<1>10. ASSUME NEW v \in DOMAIN frames \ ({t} \cup gone)
       PROVE  IF AloneAtRight(x) /\ v = Left(t)
              THEN v \notin Running'
              ELSE v \in Running' <=> v \in Running
  <2>1. CASE AloneAtRight(x) /\ v = Left(t)
    BY <1>4, <2>1 DEF Running
  <2>2. CASE ~ (AloneAtRight(x) /\ v = Left(t))
    <3>1. v = Left(t) => ~ AloneAtRight(frames[t])
      BY <1>10 DEF Orderly, AloneAtRight
    <3>2. Spent(v)' <=> Spent(v)
      BY <1>4, <2>2, <3>1 DEF Spent
    <3> QED
      BY <1>1, <1>2, <1>10, <2>2, <3>2 DEF Running
  <2> QED
    BY <2>1, <2>2
<1>11. \A r \in gone : r \notin Running'
  BY <1>1 DEF Running
<1>12. t \in Running <=> Works(frames[t])
  BY <1>1, <1>7 DEF Running
<1>13. t \in Running' <=> x.at = "done" \/ Works(x)
  BY <1>1, <1>7 DEF Running, Works
<1>14. \A a \in new : a \in Running' /\ a \notin Running
  BY <1>1, <1>3, <1>8 DEF Running
<1> QED
  BY <1>9, <1>10, <1>11, <1>12, <1>13, <1>14

-----------------------------------------------------------------------------
(***************************************************************************)
(* The counts stay what they are.                                          *)
(***************************************************************************)
LEMMA Exchange ==
  ASSUME NEW S, IsFiniteSet(S), NEW a \in S, NEW b, b \notin S
  PROVE  Cardinality((S \ {a}) \cup {b}) = Cardinality(S)
<1>1. IsFiniteSet(S \ {a}) /\ Cardinality(S \ {a}) = Cardinality(S) - 1
  BY FS_RemoveElement
<1>2. Cardinality((S \ {a}) \cup {b}) = Cardinality(S \ {a}) + 1
  BY <1>1, FS_AddElement
<1> QED
  BY <1>1, <1>2, FS_CardinalityType

LEMMA Finite ==
  ASSUME IsFiniteSet(DOMAIN frames)
  PROVE  /\ IsFiniteSet(Holders(1)) /\ IsFiniteSet(Holders(2))
         /\ IsFiniteSet(Running) /\ IsFiniteSet(Forked)
         /\ Cardinality(Holders(1)) \in Nat /\ Cardinality(Holders(2)) \in Nat
         /\ Cardinality(Running) \in Nat /\ Cardinality(Forked) \in Nat
<1>1. /\ Holders(1) \subseteq DOMAIN frames /\ Holders(2) \subseteq DOMAIN frames
      /\ Running \subseteq DOMAIN frames /\ Forked \subseteq DOMAIN frames
  BY DEF Holders, Running, Forked
<1>2. /\ IsFiniteSet(Holders(1)) /\ IsFiniteSet(Holders(2))
      /\ IsFiniteSet(Running) /\ IsFiniteSet(Forked)
  BY <1>1, FS_Subset
<1> QED
  BY <1>2, FS_CardinalityType

\* A call that holds as many threads as before.
LEMMA SameHolders ==
  ASSUME FrameInv, Tree, CountInv, NEW t, NEW x, NEW gone, NEW new,
         Changes(t, x, gone, new), Orderly(t, x, gone, new),
         \A k \in {1, 2} : Holding(x, k) <=> Holding(frames[t], k),
         active_threads' = active_threads
  PROVE  /\ IsFiniteSet(DOMAIN frames')
         /\ active_threads' = Cardinality(Holders(1)') + Cardinality(Holders(2)')
         /\ active_threads' <= MaxThreads
<1>1. t \in DOMAIN frames
  BY DEF Orderly
<1>2. \A k \in {1, 2} : Holders(k)' = (Holders(k) \ {t}) \cup (IF Holding(x, k) THEN {t} ELSE {})
  BY HoldersStep
<1>3. \A k \in {1, 2} : Holders(k)' = Holders(k)
  BY <1>1, <1>2 DEF Holders
<1>4. IsFiniteSet(DOMAIN frames')
  BY FiniteStep DEF CountInv
<1> QED
  BY <1>3, <1>4 DEF CountInv

LEMMA SwapCounts ==
  ASSUME FrameInv, Tree, FrameInv', CountInv, NEW t \in DOMAIN frames, Swap(t)
  PROVE  CountInv'
<1> DEFINE x == frames'[t]
<1>1. /\ Changes(t, x, {}, {}) /\ Orderly(t, x, {}, {})
      /\ frames[t].at = "swap" /\ x.at \in {"swap", "ask", "left"} /\ x.threads = 0
  BY SwapChanges
<1> HIDE DEF x
<1>2. active_threads' = active_threads
  BY DEF Swap
<1>3. \A k \in {1, 2} : Holding(x, k) <=> Holding(frames[t], k)
  BY <1>1 DEF Holding
<1>4. Forked' = Forked
  <2>1. Forked' = (Forked \ {t}) \cup (IF Forks(x) THEN {t} ELSE {})
    BY <1>1, ForkedStep
  <2> QED
    BY <1>1, <2>1 DEF Forks, Forked
<1>5. Running' = Running
  <2>1. /\ t \in Running <=> Works(frames[t])
        /\ t \in Running' <=> x.at = "done" \/ Works(x)
        /\ \A v \in DOMAIN frames \ {t} : v \in Running' <=> v \in Running
    BY <1>1, RunningStep DEF AloneAtRight
  <2>2. DOMAIN frames' = DOMAIN frames
    BY <1>1 DEF Changes
  <2> QED
    BY <1>1, <2>1, <2>2 DEF Works, Running
<1>6. /\ IsFiniteSet(DOMAIN frames')
      /\ active_threads' = Cardinality(Holders(1)') + Cardinality(Holders(2)')
      /\ active_threads' <= MaxThreads
  BY <1>1, <1>2, <1>3, SameHolders
<1> QED
  BY <1>4, <1>5, <1>6 DEF CountInv

LEMMA AskCounts ==
  ASSUME FrameInv, Tree, FrameInv', CountInv, NEW t \in DOMAIN frames, Ask(t)
  PROVE  CountInv'
<1> DEFINE x == frames'[t]
<1>1. /\ Changes(t, x, {}, {}) /\ Orderly(t, x, {}, {})
      /\ frames[t].at = "ask" /\ x.at = "left" /\ x.threads \in 0 .. 2
      /\ active_threads' = active_threads + x.threads
      /\ x.threads > 0 => active_threads + x.threads <= MaxThreads
  BY AskChanges
<1> HIDE DEF x
<1>2. /\ IsFiniteSet(Holders(1)) /\ IsFiniteSet(Holders(2))
      /\ Cardinality(Holders(1)) \in Nat /\ Cardinality(Holders(2)) \in Nat
  BY Finite DEF CountInv
<1>3. ASSUME NEW k \in {1, 2}
      PROVE  Cardinality(Holders(k)') =
               Cardinality(Holders(k)) + (IF x.threads >= k THEN 1 ELSE 0)
  <2>1. Holders(k)' = (Holders(k) \ {t}) \cup (IF Holding(x, k) THEN {t} ELSE {})
    BY <1>1, HoldersStep
  <2>2. t \notin Holders(k) /\ (Holding(x, k) <=> x.threads >= k) /\ IsFiniteSet(Holders(k))
    BY <1>1, <1>2 DEF Holders, Holding
  <2>3. Cardinality(Holders(k) \cup {t}) = Cardinality(Holders(k)) + 1
    BY <2>2, FS_AddElement
  <2>4. CASE x.threads >= k
    <3>1. Holders(k)' = Holders(k) \cup {t}
      BY <2>1, <2>2, <2>4
    <3> QED
      BY <2>3, <2>4, <3>1
  <2>5. CASE ~ x.threads >= k
    <3>1. Holders(k)' = Holders(k)
      BY <2>1, <2>2, <2>5
    <3> QED
      BY <1>2, <2>5, <3>1
  <2> QED
    BY <2>4, <2>5
<1>4. active_threads' = Cardinality(Holders(1)') + Cardinality(Holders(2)')
  BY <1>1, <1>2, <1>3 DEF CountInv
<1>5. active_threads' <= MaxThreads
  BY <1>1, <1>2 DEF CountInv
<1>6. Forked' = Forked
  <2>1. Forked' = (Forked \ {t}) \cup (IF Forks(x) THEN {t} ELSE {})
    BY <1>1, ForkedStep
  <2> QED
    BY <1>1, <2>1 DEF Forks, Forked
<1>7. Running' = Running
  <2>1. /\ t \in Running <=> Works(frames[t])
        /\ t \in Running' <=> x.at = "done" \/ Works(x)
        /\ \A v \in DOMAIN frames \ {t} : v \in Running' <=> v \in Running
    BY <1>1, RunningStep DEF AloneAtRight
  <2>2. DOMAIN frames' = DOMAIN frames
    BY <1>1 DEF Changes
  <2> QED
    BY <1>1, <2>1, <2>2 DEF Works, Running
<1>8. IsFiniteSet(DOMAIN frames')
  BY <1>1, FiniteStep DEF CountInv
<1> QED
  BY <1>4, <1>5, <1>6, <1>7, <1>8 DEF CountInv

LEMMA StartLeftCounts ==
  ASSUME FrameInv, Tree, FrameInv', CountInv, NEW t \in DOMAIN frames, StartLeft(t)
  PROVE  CountInv'
<1> DEFINE x == frames'[t]
           l == Left(t)
<1>1. /\ Changes(t, x, {}, {l}) /\ Orderly(t, x, {}, {l})
      /\ frames[t].at = "left" /\ x.at = "right" /\ x.threads = frames[t].threads
  BY StartLeftChanges
<1> HIDE DEF x, l
<1>2. active_threads' = active_threads
  BY DEF StartLeft
<1>3. \A k \in {1, 2} : Holding(x, k) <=> Holding(frames[t], k)
  BY <1>1 DEF Holding
<1>4. /\ IsFiniteSet(DOMAIN frames')
      /\ active_threads' = Cardinality(Holders(1)') + Cardinality(Holders(2)')
      /\ active_threads' <= MaxThreads
  BY <1>1, <1>2, <1>3, SameHolders
<1>5. Forked' = (Forked \ {t}) \cup (IF Forks(x) THEN {t} ELSE {}) /\ t \notin Forked
  BY <1>1, ForkedStep DEF Forked, Forks
<1>6. /\ t \in Running /\ (t \in Running' <=> x.threads > 0)
      /\ l \in Running' /\ l \notin Running
      /\ \A v \in DOMAIN frames \ {t} : v \in Running' <=> v \in Running
  <2>1. /\ t \in Running <=> Works(frames[t])
        /\ t \in Running' <=> x.at = "done" \/ Works(x)
        /\ \A a \in {l} : a \in Running' /\ a \notin Running
        /\ \A v \in DOMAIN frames \ ({t} \cup {}) :
             IF AloneAtRight(x) /\ v = Left(t)
             THEN v \notin Running'
             ELSE v \in Running' <=> v \in Running
    BY <1>1, RunningStep
  <2>2. ~ AloneAtRight(x)
    BY <1>1 DEF AloneAtRight
  <2> QED
    BY <1>1, <2>1, <2>2 DEF Works
<1>7. DOMAIN frames' = DOMAIN frames \cup {l}
  BY <1>1 DEF Changes
<1>8. /\ IsFiniteSet(Running) /\ IsFiniteSet(Forked)
      /\ Cardinality(Running) \in Nat /\ Cardinality(Forked) \in Nat
  BY Finite DEF CountInv
<1>9. CASE x.threads > 0
  <2>1. Running' = Running \cup {l} /\ Forked' = Forked \cup {t}
    BY <1>1, <1>5, <1>6, <1>7, <1>9 DEF Running, Forks
  <2>2. /\ Cardinality(Running') = Cardinality(Running) + 1
        /\ Cardinality(Forked') = Cardinality(Forked) + 1
    BY <1>5, <1>6, <1>8, <2>1, FS_AddElement
  <2> QED
    BY <1>4, <1>8, <2>2 DEF CountInv
<1>10. CASE ~ x.threads > 0
  <2>1. Running' = (Running \ {t}) \cup {l} /\ Forked' = Forked
    BY <1>1, <1>5, <1>6, <1>7, <1>10 DEF Running, Forks
  <2>2. Cardinality(Running') = Cardinality(Running)
    BY <1>6, <1>8, <2>1, Exchange
  <2> QED
    BY <1>4, <2>1, <2>2 DEF CountInv
<1> QED
  BY <1>9, <1>10

LEMMA StartRightCounts ==
  ASSUME FrameInv, Tree, FrameInv', CountInv, NEW t \in DOMAIN frames, StartRight(t)
  PROVE  CountInv'
<1> DEFINE x == frames'[t]
           l == Left(t)
           r == Right(t)
<1>1. /\ Changes(t, x, {}, {r}) /\ Orderly(t, x, {}, {r})
      /\ frames[t].at = "right" /\ x.at = "join" /\ x.threads = frames[t].threads
      /\ frames[t].threads > 0 \/ Done(l)
  BY StartRightChanges
<1>2. /\ l \in Kids(t) /\ x.threads \in 0 .. 2 /\ l # t /\ l \in DOMAIN frames
  <2>1. l \in Kids(t)
    BY <1>1 DEF Kids, KidsAt
  <2>2. x.threads \in 0 .. 2
    BY <1>1 DEF FrameInv, Fine, Frame
  <2>3. l # t
    BY <2>1, KidsFit, BelowIsStrict DEF FrameInv
  <2> QED
    BY <2>1, <2>2, <2>3 DEF Tree
<1> HIDE DEF x, r
<1>3. active_threads' = active_threads
  BY DEF StartRight
<1>4. \A k \in {1, 2} : Holding(x, k) <=> Holding(frames[t], k)
  BY <1>1 DEF Holding
<1>5. /\ IsFiniteSet(DOMAIN frames')
      /\ active_threads' = Cardinality(Holders(1)') + Cardinality(Holders(2)')
      /\ active_threads' <= MaxThreads
  BY <1>1, <1>3, <1>4, SameHolders
<1>6. Forked' = Forked
  <2>1. Forked' = (Forked \ {t}) \cup (IF Forks(x) THEN {t} ELSE {})
    BY <1>1, ForkedStep
  <2> QED
    BY <1>1, <2>1 DEF Forks, Forked
<1>7. /\ t \in Running <=> x.threads > 0
      /\ t \notin Running'
      /\ r \in Running' /\ r \notin Running
      /\ \A v \in DOMAIN frames \ {t} : IF x.threads = 0 /\ v = l
                                        THEN v \notin Running'
                                        ELSE v \in Running' <=> v \in Running
  <2>1. /\ t \in Running <=> Works(frames[t])
        /\ t \in Running' <=> x.at = "done" \/ Works(x)
        /\ \A a \in {r} : a \in Running' /\ a \notin Running
        /\ \A v \in DOMAIN frames \ ({t} \cup {}) :
             IF AloneAtRight(x) /\ v = Left(t)
             THEN v \notin Running'
             ELSE v \in Running' <=> v \in Running
    BY <1>1, RunningStep
  <2>2. AloneAtRight(x) <=> x.threads = 0
    BY <1>1 DEF AloneAtRight
  <2> QED
    BY <1>1, <2>1, <2>2 DEF Works
<1>8. DOMAIN frames' = DOMAIN frames \cup {r} /\ r \notin DOMAIN frames
  <2>1. {r} \cap DOMAIN frames = {}
    BY <1>1, NewIsNew
  <2> QED
    BY <1>1, <2>1 DEF Changes
<1>9. IsFiniteSet(Running) /\ Cardinality(Running) \in Nat
  BY Finite DEF CountInv
<1>10. CASE x.threads > 0
  <2>1. Running' = (Running \ {t}) \cup {r}
    BY <1>7, <1>8, <1>10 DEF Running
  <2>2. Cardinality(Running') = Cardinality(Running)
    BY <1>7, <1>9, <1>10, <2>1, Exchange
  <2> QED
    BY <1>5, <1>6, <2>2 DEF CountInv
<1>11. CASE x.threads = 0
  <2>1. l \in Running
    <3>1. ~ Spent(l)
      BY <1>1, <1>2, SpentKid DEF AloneAtRight
    <3> QED
      BY <1>1, <1>2, <1>11, <3>1 DEF Running, Works, Done, At
  <2>2. Running' = (Running \ {l}) \cup {r}
    <3> HIDE DEF l
    <3> QED
      BY <1>2, <1>7, <1>8, <1>11, <2>1 DEF Running
  <2>3. Cardinality(Running') = Cardinality(Running)
    BY <1>7, <1>9, <2>1, <2>2, Exchange
  <2> QED
    BY <1>5, <1>6, <2>3 DEF CountInv
<1> QED
  BY <1>2, <1>10, <1>11

LEMMA JoinCounts ==
  ASSUME FrameInv, Tree, FrameInv', CountInv, NEW t \in DOMAIN frames, Join(t)
  PROVE  CountInv'
<1> DEFINE f   == frames[t]
           x   == frames'[t]
           l   == Left(t)
           r   == Right(t)
           new == IF f.threads > 0 THEN {} ELSE MergeCall(t)
<1>1. /\ Changes(t, x, Kids(t), new) /\ Orderly(t, x, Kids(t), new)
      /\ f.at = "join" /\ Kids(t) = {l, r}
      /\ f.threads > 0 => x.at = "release" /\ x.threads = f.threads
      /\ ~ f.threads > 0 => x.at = IF t.kind = "merge" THEN "done" ELSE "merging"
  BY JoinChanges
<1>2. /\ f.threads \in 0 .. 2 /\ l # r /\ t \notin {l, r}
      /\ l \in DOMAIN frames /\ r \in DOMAIN frames
  <2>1. t \in Call /\ t.cnt >= 2 /\ t.low + t.cnt <= N /\ f.threads \in 0 .. 2
    BY <1>1 DEF FrameInv, Fine, Frame
  <2>2. l # r
    BY <2>1, HalvesFit, ApartNotInside DEF Inside
  <2>3. t \notin {l, r}
    BY <2>1, HalvesFit, BelowIsStrict
  <2> QED
    BY <1>1, <2>1, <2>2, <2>3 DEF Tree
<1>3. \A k \in {1, 2} : Holding(x, k) <=> Holding(f, k)
  BY <1>1, <1>2 DEF Holding
<1>4. active_threads' = active_threads
  BY DEF Join
<1>5. AloneAtRight(f) <=> ~ f.threads > 0
  BY <1>1, <1>2 DEF AloneAtRight
<1>6. ~ AloneAtRight(x)
  BY <1>1, <1>2 DEF AloneAtRight
<1> HIDE DEF x, l, r, f, new
<1>7. /\ IsFiniteSet(DOMAIN frames')
      /\ active_threads' = Cardinality(Holders(1)') + Cardinality(Holders(2)')
      /\ active_threads' <= MaxThreads
  BY <1>1, <1>3, <1>4, SameHolders DEF f
<1>8. Forked' = Forked \ {t} /\ (t \in Forked <=> f.threads > 0)
  <2>1. Forked' = (Forked \ {t}) \cup (IF Forks(x) THEN {t} ELSE {})
    BY <1>1, ForkedStep
  <2>2. ~ Forks(x)
    BY <1>1, <1>2 DEF Forks
  <2> QED
    BY <1>1, <2>1, <2>2 DEF Forked, Forks, f
<1>9. /\ t \notin Running
      /\ t \in Running' <=> x.at \in {"done", "release"}
      /\ \A a \in new : a \in Running' /\ a \notin Running
      /\ l \notin Running' /\ r \notin Running' /\ r \in Running
      /\ l \in Running <=> f.threads > 0
      /\ \A v \in DOMAIN frames \ {t, l, r} : v \in Running' <=> v \in Running
  <2>1. /\ t \in Running <=> Works(frames[t])
        /\ t \in Running' <=> x.at = "done" \/ Works(x)
        /\ \A a \in new : a \in Running' /\ a \notin Running
        /\ \A k \in Kids(t) : /\ k \notin Running'
                              /\ k \in Running <=> ~ (AloneAtRight(frames[t]) /\ k = Left(t))
        /\ \A v \in DOMAIN frames \ ({t} \cup Kids(t)) :
             IF AloneAtRight(x) /\ v = Left(t)
             THEN v \notin Running'
             ELSE v \in Running' <=> v \in Running
    BY <1>1, RunningStep
  <2>2. t \notin Running
    BY <1>1, <2>1 DEF Works, f
  <2>3. t \in Running' <=> x.at \in {"done", "release"}
    BY <1>1, <2>1 DEF Works
  <2>4. /\ l \notin Running' /\ r \notin Running' /\ r \in Running
        /\ l \in Running <=> f.threads > 0
    BY <1>1, <1>2, <1>5, <2>1 DEF f, l
  <2> QED
    BY <1>1, <1>6, <2>1, <2>2, <2>3, <2>4
<1>10. DOMAIN frames' = (DOMAIN frames \ {l, r}) \cup new /\ new \cap DOMAIN frames = {}
  <2>1. new \cap DOMAIN frames = {}
    BY <1>1, NewIsNew
  <2> QED
    BY <1>1, <2>1 DEF Changes
<1>11. /\ IsFiniteSet(Running) /\ Cardinality(Running) \in Nat
       /\ IsFiniteSet(Forked) /\ Cardinality(Forked) \in Nat
  BY Finite DEF CountInv
<1>12. Running \subseteq DOMAIN frames /\ Running' \subseteq DOMAIN frames'
  BY DEF Running
<1>13. CASE f.threads > 0
  <2>1. new = {} /\ t \in Running'
    BY <1>1, <1>9, <1>13 DEF new
  <2>2. Running' = ((Running \ {l}) \ {r}) \cup {t}
    BY <1>2, <1>9, <1>10, <1>12, <2>1
  <2>3. /\ IsFiniteSet(Running \ {l}) /\ Cardinality(Running \ {l}) = Cardinality(Running) - 1
    BY <1>9, <1>11, <1>13, FS_RemoveElement
  <2>4. r \in Running \ {l} /\ t \notin Running \ {l}
    BY <1>2, <1>9
  <2>5. Cardinality(Running') = Cardinality(Running) - 1
    BY <2>2, <2>3, <2>4, Exchange
  <2>6. Cardinality(Forked') = Cardinality(Forked) - 1
    BY <1>8, <1>11, <1>13, FS_RemoveElement
  <2> QED
    BY <1>7, <1>11, <2>5, <2>6 DEF CountInv
<1>14. CASE ~ f.threads > 0
  <2>1. Forked' = Forked /\ l \notin Running
    BY <1>8, <1>9, <1>14
  <2>2. PICK b : Running' = (Running \ {r}) \cup {b} /\ b \notin Running
    <3>1. CASE t.kind = "merge"
      <4>1. new = {} /\ t \in Running'
        BY <1>1, <1>9, <1>14, <3>1 DEF new, MergeCall
      <4>2. Running' = (Running \ {r}) \cup {t}
        BY <1>2, <1>9, <1>10, <1>12, <2>1, <4>1
      <4> QED
        BY <1>9, <4>2
    <3>2. CASE t.kind # "merge"
      <4>1. new = {MergeOf(t)} /\ t \notin Running'
        BY <1>1, <1>9, <1>14, <3>2 DEF new, MergeCall
      <4>2. MergeOf(t) \in Running' /\ MergeOf(t) \notin Running
        BY <1>9, <4>1
      <4>3. Running' = (Running \ {r}) \cup {MergeOf(t)}
        BY <1>2, <1>9, <1>10, <1>12, <2>1, <4>1, <4>2
      <4> QED
        BY <4>2, <4>3
    <3> QED
      BY <3>1, <3>2
  <2>3. Cardinality(Running') = Cardinality(Running)
    BY <1>9, <1>11, <2>2, Exchange
  <2> QED
    BY <1>7, <2>1, <2>3 DEF CountInv
<1> QED
  BY <1>13, <1>14

LEMMA ReleaseCounts ==
  ASSUME FrameInv, Tree, FrameInv', CountInv, NEW t \in DOMAIN frames, Release(t)
  PROVE  CountInv'
<1> DEFINE f   == frames[t]
           x   == frames'[t]
           new == MergeCall(t)
<1>1. /\ Changes(t, x, {}, new) /\ Orderly(t, x, {}, new)
      /\ f.at = "release" /\ x.at = IF t.kind = "merge" THEN "done" ELSE "merging"
      /\ active_threads' = active_threads - f.threads
  BY ReleaseChanges
<1>2. f.threads \in 0 .. 2
  BY DEF FrameInv, Fine, Frame
<1> HIDE DEF x, f, new
<1>3. /\ IsFiniteSet(Holders(1)) /\ IsFiniteSet(Holders(2))
      /\ Cardinality(Holders(1)) \in Nat /\ Cardinality(Holders(2)) \in Nat
      /\ IsFiniteSet(Running) /\ Cardinality(Running) \in Nat
  BY Finite DEF CountInv
<1>4. ASSUME NEW k \in {1, 2}
      PROVE  Cardinality(Holders(k)') =
               Cardinality(Holders(k)) - (IF f.threads >= k THEN 1 ELSE 0)
  <2>1. Holders(k)' = (Holders(k) \ {t}) \cup (IF Holding(x, k) THEN {t} ELSE {})
    BY <1>1, HoldersStep
  <2>2. Holders(k)' = Holders(k) \ {t}
    BY <1>1, <2>1 DEF Holding
  <2>3. (t \in Holders(k) <=> f.threads >= k) /\ IsFiniteSet(Holders(k))
    BY <1>1, <1>3 DEF Holders, Holding, f
  <2>4. Cardinality(Holders(k)') =
          IF t \in Holders(k) THEN Cardinality(Holders(k)) - 1 ELSE Cardinality(Holders(k))
    BY <2>2, <2>3, FS_RemoveElement
  <2>5. Cardinality(Holders(k)) \in Nat
    BY <1>3
  <2> QED
    BY <2>3, <2>4, <2>5
<1>5. active_threads' = Cardinality(Holders(1)') + Cardinality(Holders(2)')
  BY <1>1, <1>2, <1>3, <1>4 DEF CountInv
<1>6. active_threads' <= MaxThreads
  BY <1>1, <1>2, <1>3, SortAssumption DEF CountInv
<1>7. Forked' = Forked
  <2>1. Forked' = (Forked \ {t}) \cup (IF Forks(x) THEN {t} ELSE {})
    BY <1>1, ForkedStep
  <2>2. ~ Forks(x) /\ t \notin Forked
    BY <1>1 DEF Forks, Forked, f
  <2> QED
    BY <2>1, <2>2
<1>8. /\ t \in Running /\ (t \in Running' <=> x.at = "done")
      /\ \A a \in new : a \in Running' /\ a \notin Running
      /\ \A v \in DOMAIN frames \ {t} : v \in Running' <=> v \in Running
  <2>1. /\ t \in Running <=> Works(frames[t])
        /\ t \in Running' <=> x.at = "done" \/ Works(x)
        /\ \A a \in new : a \in Running' /\ a \notin Running
        /\ \A v \in DOMAIN frames \ ({t} \cup {}) :
             IF AloneAtRight(x) /\ v = Left(t)
             THEN v \notin Running'
             ELSE v \in Running' <=> v \in Running
    BY <1>1, RunningStep
  <2>2. ~ AloneAtRight(x) /\ Works(frames[t]) /\ (Works(x) => x.at = "done")
    BY <1>1 DEF AloneAtRight, Works, f
  <2> QED
    BY <2>1, <2>2
<1>9. DOMAIN frames' = DOMAIN frames \cup new
  BY <1>1 DEF Changes
<1>10. Running \subseteq DOMAIN frames /\ Running' \subseteq DOMAIN frames'
  BY DEF Running
<1>11. Cardinality(Running') = Cardinality(Running)
  <2>1. CASE t.kind = "merge"
    <3>1. new = {} /\ t \in Running'
      BY <1>1, <1>8, <2>1 DEF new, MergeCall
    <3>2. Running' = Running
      BY <1>8, <1>9, <1>10, <3>1
    <3> QED
      BY <3>2
  <2>2. CASE t.kind # "merge"
    <3>1. new = {MergeOf(t)} /\ t \notin Running'
      BY <1>1, <1>8, <2>2 DEF new, MergeCall
    <3>2. MergeOf(t) \in Running' /\ MergeOf(t) \notin Running
      BY <1>8, <3>1
    <3>3. Running' = (Running \ {t}) \cup {MergeOf(t)}
      BY <1>8, <1>9, <1>10, <3>1, <3>2
    <3> QED
      BY <1>3, <1>8, <3>2, <3>3, Exchange
  <2> QED
    BY <2>1, <2>2
<1>12. IsFiniteSet(DOMAIN frames')
  BY <1>1, FiniteStep DEF CountInv
<1> QED
  BY <1>5, <1>6, <1>7, <1>11, <1>12 DEF CountInv

LEMMA EndSortCounts ==
  ASSUME FrameInv, Tree, FrameInv', CountInv, NEW t \in DOMAIN frames, EndSort(t)
  PROVE  CountInv'
<1> DEFINE x == frames'[t]
           m == MergeOf(t)
<1>1. /\ Changes(t, x, Kids(t), {}) /\ Orderly(t, x, Kids(t), {})
      /\ frames[t].at = "merging" /\ x.at = "done" /\ Kids(t) = {m}
  BY EndSortChanges
<1>2. active_threads' = active_threads
  BY DEF EndSort
<1>3. m # t /\ m \in DOMAIN frames
  BY <1>1, KidsFit, BelowIsStrict DEF FrameInv, Tree
<1> HIDE DEF x, m
<1>4. \A k \in {1, 2} : Holding(x, k) <=> Holding(frames[t], k)
  BY <1>1 DEF Holding
<1>5. /\ IsFiniteSet(DOMAIN frames')
      /\ active_threads' = Cardinality(Holders(1)') + Cardinality(Holders(2)')
      /\ active_threads' <= MaxThreads
  BY <1>1, <1>2, <1>4, SameHolders
<1>6. Forked' = Forked
  <2>1. Forked' = (Forked \ {t}) \cup (IF Forks(x) THEN {t} ELSE {})
    BY <1>1, ForkedStep
  <2> QED
    BY <1>1, <2>1 DEF Forks, Forked
<1>7. /\ t \notin Running /\ t \in Running' /\ m \notin Running' /\ m \in Running
      /\ \A v \in DOMAIN frames \ {t, m} : v \in Running' <=> v \in Running
  <2>1. /\ t \in Running <=> Works(frames[t])
        /\ t \in Running' <=> x.at = "done" \/ Works(x)
        /\ \A k \in Kids(t) : /\ k \notin Running'
                              /\ k \in Running <=> ~ (AloneAtRight(frames[t]) /\ k = Left(t))
        /\ \A v \in DOMAIN frames \ ({t} \cup Kids(t)) :
             IF AloneAtRight(x) /\ v = Left(t)
             THEN v \notin Running'
             ELSE v \in Running' <=> v \in Running
    BY <1>1, RunningStep
  <2>2. ~ AloneAtRight(x) /\ ~ AloneAtRight(frames[t]) /\ ~ Works(frames[t])
    BY <1>1 DEF AloneAtRight, Works
  <2> QED
    BY <1>1, <2>1, <2>2
<1>8. DOMAIN frames' = DOMAIN frames \ {m}
  BY <1>1 DEF Changes
<1>9. Running \subseteq DOMAIN frames /\ Running' \subseteq DOMAIN frames'
  BY DEF Running
<1>10. Running' = (Running \ {m}) \cup {t}
  BY <1>3, <1>7, <1>8, <1>9
<1>11. IsFiniteSet(Running)
  BY Finite DEF CountInv
<1>12. Cardinality(Running') = Cardinality(Running)
  BY <1>7, <1>10, <1>11, Exchange
<1> QED
  BY <1>5, <1>6, <1>12 DEF CountInv

-----------------------------------------------------------------------------
(***************************************************************************)
(* The invariant holds at the first call, and every step keeps it.         *)
(***************************************************************************)
LEMMA InitInv == Init => SortInv
<1> SUFFICES ASSUME Init
             PROVE  SortInv
  OBVIOUS
<1>1. Whole \in Call /\ Whole.low + Whole.cnt <= N /\ Whole.cnt = N /\ N \in Nat
  BY SortAssumption DEF Whole, Call
<1>2. /\ DOMAIN frames = {Whole} /\ frames[Whole] = Entered(Whole)
      /\ frames = [t \in DOMAIN frames |-> frames[t]] /\ active_threads = 0
  BY DEF Init
<1>3. Entered(Whole).at \in {"done", "ask"} /\ Entered(Whole).threads = 0
  BY DEF Entered, Whole
<1>4. FrameInv
  BY <1>1, <1>2, EnteredFine DEF FrameInv
<1>5. Tree
  <2>1. Kids(Whole) = {}
    BY <1>2, <1>3 DEF Kids, KidsAt
  <2>2. ~ Below(Whole, Whole)
    BY <1>1, BelowIsStrict
  <2> QED
    BY <1>2, <2>1, <2>2 DEF Tree, Inside
<1>6. CountInv
  <2>1. Holders(1) = {} /\ Holders(2) = {} /\ Forked = {}
    BY <1>2, <1>3 DEF Holders, Holding, Forked, Forks
  <2>2. Running = {Whole}
    BY <1>2, <1>3 DEF Running, Works, Spent, AloneAtRight
  <2>3. IsFiniteSet(DOMAIN frames) /\ Cardinality(Running) = 1
    BY <1>2, <2>2, FS_Singleton
  <2>4. Cardinality(Holders(1)) = 0 /\ Cardinality(Holders(2)) = 0 /\ Cardinality(Forked) = 0
    BY <2>1, FS_EmptySet
  <2> QED
    BY <1>2, <2>3, <2>4, SortAssumption DEF CountInv
<1> QED
  BY <1>4, <1>5, <1>6 DEF SortInv, ArrayInv, Init

LEMMA ArrayStep ==
  ASSUME ArrayInv, FrameInv, NEW t \in DOMAIN frames, Swap(t)
  PROVE  ArrayInv'
<1> DEFINE i == frames[t].i
           j == i + Half(t)
<1>1. /\ t.low \in Nat /\ t.cnt \in Nat /\ t.low + t.cnt <= N /\ t.cnt >= 2 /\ i \in Nat
      /\ t.low <= i /\ i < t.low + Half(t)
  BY SortAssumption DEF Swap, At, FrameInv, Fine, Frame, Call
<1>2. i \in Index /\ j \in Index
  BY <1>1, HalfFacts, SortAssumption DEF Half, Index
<1>3. arr' = CompareAndSwap(arr, i, j, t.dir) /\ input' = input
  BY DEF Swap
<1> HIDE DEF i, j
<1>4. arr[i] \in Values /\ arr[j] \in Values
  BY <1>2 DEF ArrayInv
<1> QED
  BY <1>2, <1>3, <1>4 DEF ArrayInv, CompareAndSwap

LEMMA NextInv == SortInv /\ Next => SortInv'
<1> SUFFICES ASSUME SortInv, NEW t \in DOMAIN frames,
                    \/ Swap(t) \/ Ask(t) \/ StartLeft(t) \/ StartRight(t)
                    \/ Join(t) \/ Release(t) \/ EndSort(t)
             PROVE  SortInv'
  BY DEF Next
<1>1. ArrayInv /\ FrameInv /\ Tree /\ CountInv
  BY DEF SortInv
<1>2. ArrayInv'
  <2>1. CASE Swap(t)
    BY <1>1, <2>1, ArrayStep
  <2>2. CASE ~ Swap(t)
    <3>1. arr' = arr /\ input' = input
      BY <2>2 DEF Ask, StartLeft, StartRight, Join, Release, EndSort
    <3> QED
      BY <1>1, <3>1 DEF ArrayInv
  <2> QED
    BY <2>1, <2>2
<1>3. \E x, gone, new : Changes(t, x, gone, new) /\ Orderly(t, x, gone, new)
  <2>1. CASE Swap(t)
    BY <1>1, <2>1, SwapChanges
  <2>2. CASE Ask(t)
    BY <1>1, <2>2, AskChanges
  <2>3. CASE StartLeft(t)
    BY <1>1, <2>3, StartLeftChanges
  <2>4. CASE StartRight(t)
    BY <1>1, <2>4, StartRightChanges
  <2>5. CASE Join(t)
    BY <1>1, <2>5, JoinChanges
  <2>6. CASE Release(t)
    BY <1>1, <2>6, ReleaseChanges
  <2>7. CASE EndSort(t)
    BY <1>1, <2>7, EndSortChanges
  <2> QED
    BY <2>1, <2>2, <2>3, <2>4, <2>5, <2>6, <2>7
<1>4. FrameInv' /\ Tree'
  BY <1>1, <1>3, FrameStep, TreeStep
<1>5. CountInv'
  BY <1>1, <1>4, SwapCounts, AskCounts, StartLeftCounts, StartRightCounts, JoinCounts,
     ReleaseCounts, EndSortCounts
<1> QED
  BY <1>2, <1>4, <1>5 DEF SortInv

LEMMA SpecInv == Spec => []SortInv
<1>1. Init => SortInv
  BY InitInv
<1>2. SortInv /\ UNCHANGED vars => SortInv'
  BY DEF SortInv, ArrayInv, FrameInv, Tree, CountInv, Kids, Holders, Running, Spent, Forked,
         Done, At, vars
<1>3. SortInv /\ Next => SortInv'
  BY NextInv
<1> QED
  BY <1>1, <1>2, <1>3, PTL DEF Spec

-----------------------------------------------------------------------------
(***************************************************************************)
(* Every variable keeps its type: no call reaches beyond the array, and    *)
(* the counter of threads never becomes negative (main.cpp:28-115).        *)
(***************************************************************************)
THEOREM TypeCorrect == Spec => []TypeOK
<1>1. SortInv => TypeOK
  <2> SUFFICES ASSUME SortInv
               PROVE  TypeOK
    OBVIOUS
  <2>1. active_threads \in Nat
    BY Finite DEF SortInv, CountInv
  <2>2. \A t \in DOMAIN frames : t \in Call /\ frames[t] \in Frame
    BY DEF SortInv, FrameInv, Fine
  <2> QED
    BY <2>1, <2>2 DEF SortInv, ArrayInv, TypeOK
<1> QED
  BY <1>1, SpecInv, PTL

(***************************************************************************)
(* Two threads never have their hands on the same element, so that the     *)
(* array needs no lock: a call that compares has no calls below it, and    *)
(* every other call is apart from it or waits (main.cpp:22-26, 37-39).     *)
(***************************************************************************)
THEOREM NoLockNeeded == Spec => []DisjointWork
<1>1. SortInv => DisjointWork
  <2> SUFFICES ASSUME SortInv, NEW t \in Comparing, NEW u \in Comparing, t # u
               PROVE  Touches(t) \cap Touches(u) = {}
    BY DEF DisjointWork
  <2>1. ASSUME NEW v \in Comparing
        PROVE  /\ v \in DOMAIN frames /\ Kids(v) = {}
               /\ v.low \in Nat /\ v.cnt \in Nat /\ frames[v].i \in Nat /\ Half(v) \in Nat
               /\ \A e \in Touches(v) : v.low <= e /\ e < v.low + v.cnt
    <3>1. /\ v \in DOMAIN frames /\ Kids(v) = {} /\ v \in Call /\ Fine(v, frames[v])
          /\ frames[v].at = "swap"
      BY DEF Comparing, Kids, KidsAt, SortInv, FrameInv
    <3>2. /\ v.low \in Nat /\ v.cnt \in Nat /\ frames[v].i \in Nat /\ v.cnt >= 2
          /\ v.low <= frames[v].i /\ frames[v].i < v.low + Half(v)
      BY <3>1, SortAssumption DEF Fine, Frame, Call
    <3>3. Half(v) \in Nat /\ 2 * Half(v) <= v.cnt
      BY <3>2, HalfFacts DEF Half
    <3> QED
      BY <3>1, <3>2, <3>3 DEF Touches
  <2>2. Apart(t, u)
    BY <2>1 DEF SortInv, Tree
  <2> QED
    BY <2>1, <2>2 DEF Apart, Touches
<1> QED
  BY <1>1, SpecInv, PTL

(***************************************************************************)
(* The counter stays within the limit, and when the first call has         *)
(* returned every thread was given back (main.cpp:53-65, 90-103).          *)
(***************************************************************************)
THEOREM CounterWithinLimit == Spec => []ThreadsCounted
<1>1. SortInv => ThreadsCounted
  <2> SUFFICES ASSUME SortInv
               PROVE  ThreadsCounted
    OBVIOUS
  <2>1. active_threads \in 0 .. MaxThreads
    BY Finite, SortAssumption DEF SortInv, CountInv
  <2>2. ASSUME Done(Whole)
        PROVE  active_threads = 0
    <3>1. Kids(Whole) = {} /\ frames[Whole].at = "done"
      BY <2>2 DEF Done, At, Kids, KidsAt
    <3>2. DOMAIN frames = {Whole}
      BY <3>1 DEF SortInv, Tree, Inside
    <3>3. Holders(1) = {} /\ Holders(2) = {}
      BY <3>1, <3>2 DEF Holders, Holding
    <3> QED
      BY <3>3, FS_EmptySet DEF SortInv, CountInv
  <2> QED
    BY <2>1, <2>2 DEF ThreadsCounted
<1> QED
  BY <1>1, SpecInv, PTL

(***************************************************************************)
(* At most one thread more than the limit is at work: every call that      *)
(* started threads has one more at work than before, and it holds at least *)
(* one of those that the counter knows (main.cpp:53-70, 90-108).           *)
(***************************************************************************)
THEOREM AtMostOneMore == Spec => []WorkersBounded
<1>1. SortInv => WorkersBounded
  <2> SUFFICES ASSUME SortInv
               PROVE  WorkersBounded
    OBVIOUS
  <2>1. Comparing \subseteq Running
    BY SpentIsDone DEF Comparing, Running, Works, SortInv, Done, At
  <2>2. Forked \subseteq Holders(1)
    BY DEF Forked, Forks, Holders, Holding, SortInv, FrameInv, Fine, Frame
  <2>3. /\ IsFiniteSet(Running) /\ IsFiniteSet(Holders(1))
        /\ Cardinality(Holders(1)) \in Nat /\ Cardinality(Holders(2)) \in Nat
        /\ Cardinality(Running) \in Nat /\ Cardinality(Forked) \in Nat
    BY Finite DEF SortInv, CountInv
  <2>4. /\ Cardinality(Comparing) <= Cardinality(Running)
        /\ Cardinality(Forked) <= Cardinality(Holders(1))
        /\ IsFiniteSet(Comparing)
    BY <2>1, <2>2, <2>3, FS_Subset
  <2>5. Cardinality(Comparing) \in Nat
    BY <2>4, FS_CardinalityType
  <2> QED
    BY <2>3, <2>4, <2>5, SortAssumption DEF SortInv, CountInv, WorkersBounded
<1> QED
  BY <1>1, SpecInv, PTL

-----------------------------------------------------------------------------
(***************************************************************************)
(* Half of a power of two is one.                                          *)
(***************************************************************************)

\* There are 2^n subsets of 1 .. n, and twice as many when n grows by one:
\* those with the new number and those without it.
LEMMA PowerOfTwo ==
  ASSUME NEW n \in Nat
  PROVE  2^n \in Nat \ {0} /\ 2^(n + 1) = 2 * 2^n
<1> DEFINE S == SUBSET (1 .. n)
           A == {s \cup {n + 1} : s \in S}
           f == [s \in S |-> s \cup {n + 1}]
<1>1. \A k \in Nat : IsFiniteSet(1 .. k) /\ Cardinality(1 .. k) = k
  BY FS_Interval
<1>2. \A k \in Nat : IsFiniteSet(SUBSET (1 .. k)) /\ Cardinality(SUBSET (1 .. k)) = 2^k
  BY <1>1, FS_SUBSET
<1>3. f \in Bijection(S, A)
  <2>1. f \in [S -> A]
    OBVIOUS
  <2>2. \A s, t \in S : f[s] = f[t] => s = t
    <3> SUFFICES ASSUME NEW s \in S, NEW t \in S, s \cup {n + 1} = t \cup {n + 1}
                 PROVE  s = t
      OBVIOUS
    <3>1. n + 1 \notin 1 .. n
      OBVIOUS
    <3> QED
      BY <3>1
  <2>3. \A a \in A : \E s \in S : f[s] = a
    OBVIOUS
  <2> HIDE DEF S, A, f
  <2>4. f \in Injection(S, A)
    BY <2>1, <2>2 DEF Injection, IsInjective
  <2>5. f \in Surjection(S, A)
    BY <2>1, <2>3 DEF Surjection
  <2> QED
    BY <2>4, <2>5 DEF Bijection
<1>4. IsFiniteSet(A) /\ Cardinality(A) = Cardinality(S)
  BY <1>2, <1>3, FS_Bijection DEF ExistsBijection
<1>5. SUBSET (1 .. n + 1) = S \cup A
  <2>1. 1 .. n + 1 = (1 .. n) \cup {n + 1}
    OBVIOUS
  <2>2. ASSUME NEW t \in SUBSET (1 .. n + 1)
        PROVE  t \in S \cup A
    <3>1. t \ {n + 1} \in S
      BY <2>1
    <3>2. CASE n + 1 \in t
      <4>1. t = (t \ {n + 1}) \cup {n + 1}
        BY <3>2
      <4> QED
        BY <3>1, <4>1
    <3>3. CASE n + 1 \notin t
      BY <3>1, <3>3
    <3> QED
      BY <3>2, <3>3
  <2>3. S \cup A \subseteq SUBSET (1 .. n + 1)
    BY <2>1
  <2> QED
    BY <2>2, <2>3
<1>6. S \cap A = {}
  <2>1. n + 1 \notin 1 .. n
    OBVIOUS
  <2> QED
    BY <2>1
<1>7. Cardinality(S \cup A) = Cardinality(S) + Cardinality(A) - Cardinality({})
  <2>1. IsFiniteSet(S)
    BY <1>2
  <2> HIDE DEF S, A
  <2> QED
    BY <1>4, <1>6, <2>1, FS_Union
<1>8. Cardinality({}) = 0
  BY FS_EmptySet
<1>9. Cardinality(S) \in Nat /\ Cardinality(S) # 0
  <2>1. {} \in S /\ IsFiniteSet(S)
    BY <1>2
  <2> HIDE DEF S
  <2> QED
    BY <2>1, FS_CardinalityType, FS_EmptySet
<1>10. n + 1 \in Nat /\ Cardinality(S) = 2^n /\ Cardinality(S \cup A) = 2^(n + 1)
  <2>1. n + 1 \in Nat
    OBVIOUS
  <2> QED
    BY <1>2, <1>5, <2>1
<1> HIDE DEF S, A
<1> QED
  BY <1>4, <1>7, <1>8, <1>9, <1>10

Power(n) == n = 0 \/ \E e \in Nat : n = 2^e

\* A call of two or more elements has two halves of the same length.
LEMMA HalfPower ==
  ASSUME NEW n \in Nat, n >= 2, Power(n)
  PROVE  n \div 2 \in Nat /\ n = 2 * (n \div 2) /\ Power(n \div 2)
<1>1. PICK e \in Nat : n = 2^e
  BY DEF Power
<1>2. 2^0 = 1
  OBVIOUS
<1>3. e # 0
  <2>1. CASE e = 0
    <3>1. n = 1
      BY <1>1, <1>2, <2>1, Zenon
    <3> QED
      BY <3>1
  <2> QED
    BY <2>1
<1>4. PICK d \in Nat : e = d + 1
  <2>1. e - 1 \in Nat /\ e = (e - 1) + 1
    BY <1>3
  <2> QED
    BY <2>1
<1>5. PICK p \in Nat : p = 2^d /\ 2^(d + 1) = 2 * p
  BY PowerOfTwo
<1>6. n = 2 * p
  BY <1>1, <1>4, <1>5
<1>7. n \div 2 = p
  BY <1>6
<1> QED
  BY <1>5, <1>6, <1>7 DEF Power

-----------------------------------------------------------------------------
(***************************************************************************)
(* Sequences in a part of the array.  In a bitonic one there are no four   *)
(* elements of which the first and the third are above the other two, or   *)
(* below them.                                                             *)
(***************************************************************************)
Area(lo, n) == lo .. lo + n - 1

InOrder(x, y, dir) == IF dir = 1 THEN x <= y ELSE y <= x

SortedIn(a, lo, n, dir) ==
  \A x, y \in Area(lo, n) : x <= y => InOrder(a[x], a[y], dir)

Above(a, w, x, y, z) == a[w] > a[y] /\ a[w] > a[z] /\ a[x] > a[y] /\ a[x] > a[z]

Bitonic(a, lo, n) ==
  \A w, x, y, z \in Area(lo, n) :
    w < x /\ x < y /\ y < z => ~ Above(a, w, y, x, z) /\ ~ Above(a, x, z, w, y)

\* No element of the first half is behind one of the second.
Split(a, lo, h, dir) ==
  \A x \in Area(lo, h), y \in Area(lo + h, h) : InOrder(a[x], a[y], dir)

Numbers(a, lo, n) == \A x \in Area(lo, n) : a[x] \in Int

\* a has the elements k and k + h of o, in order.
Paired(o, a, k, h, dir) ==
  /\ InOrder(a[k], a[k + h], dir)
  /\ \/ a[k] = o[k] /\ a[k + h] = o[k + h]
     \/ a[k] = o[k + h] /\ a[k + h] = o[k]

\* What is in order upwards and then downwards is bitonic.
LEMMA UpAndDown ==
  ASSUME NEW lo \in Nat, NEW h \in Nat, NEW a, Numbers(a, lo, 2 * h),
         SortedIn(a, lo, h, 1), SortedIn(a, lo + h, h, 0)
  PROVE  Bitonic(a, lo, 2 * h)
<1> SUFFICES ASSUME NEW w \in Area(lo, 2 * h), NEW x \in Area(lo, 2 * h),
                    NEW y \in Area(lo, 2 * h), NEW z \in Area(lo, 2 * h),
                    w < x, x < y, y < z
             PROVE  ~ Above(a, w, y, x, z) /\ ~ Above(a, x, z, w, y)
  BY DEF Bitonic
<1>1. w \in Int /\ x \in Int /\ y \in Int /\ z \in Int
  BY DEF Area
<1>2. a[w] \in Int /\ a[x] \in Int /\ a[y] \in Int /\ a[z] \in Int
  BY DEF Numbers
<1>3. \A i, j \in Area(lo, h) : i <= j => a[i] <= a[j]
  BY DEF SortedIn, InOrder
<1>4. \A i, j \in Area(lo + h, h) : i <= j => a[j] <= a[i]
  BY DEF SortedIn, InOrder
<1>5. \A i \in Area(lo, 2 * h) : i \in Area(lo, h) \/ i \in Area(lo + h, h)
  BY DEF Area
<1>6. \A i \in Area(lo + h, h), j \in Area(lo, 2 * h) : i < j => j \in Area(lo + h, h)
  BY DEF Area
<1>7. \A j \in Area(lo, h), i \in Area(lo, 2 * h) : i < j => i \in Area(lo, h)
  BY DEF Area
<1>8. ~ Above(a, w, y, x, z)
  <2>1. CASE x \in Area(lo, h)
    <3>1. a[w] <= a[x]
      BY <1>1, <1>3, <1>7, <2>1
    <3> QED
      BY <1>2, <3>1 DEF Above
  <2>2. CASE x \in Area(lo + h, h)
    <3>1. a[y] <= a[x]
      BY <1>1, <1>4, <1>6, <2>2
    <3> QED
      BY <1>2, <3>1 DEF Above
  <2> QED
    BY <1>5, <2>1, <2>2
<1>9. ~ Above(a, x, z, w, y)
  <2>1. CASE y \in Area(lo, h)
    <3>1. a[x] <= a[y]
      BY <1>1, <1>3, <1>7, <2>1
    <3> QED
      BY <1>2, <3>1 DEF Above
  <2>2. CASE y \in Area(lo + h, h)
    <3>1. a[z] <= a[y]
      BY <1>1, <1>4, <1>6, <2>2
    <3> QED
      BY <1>2, <3>1 DEF Above
  <2> QED
    BY <1>5, <2>1, <2>2
<1> QED
  BY <1>8, <1>9

\* Two sorted halves, the first before the second.
LEMMA TwoSorted ==
  ASSUME NEW lo \in Nat, NEW h \in Nat, NEW a, NEW dir \in {0, 1},
         Split(a, lo, h, dir), SortedIn(a, lo, h, dir), SortedIn(a, lo + h, h, dir)
  PROVE  SortedIn(a, lo, 2 * h, dir)
<1> SUFFICES ASSUME NEW x \in Area(lo, 2 * h), NEW y \in Area(lo, 2 * h), x <= y
             PROVE  InOrder(a[x], a[y], dir)
  BY DEF SortedIn
<1>1. \/ x \in Area(lo, h) /\ y \in Area(lo, h)
      \/ x \in Area(lo + h, h) /\ y \in Area(lo + h, h)
      \/ x \in Area(lo, h) /\ y \in Area(lo + h, h)
  BY DEF Area
<1> QED
  BY <1>1 DEF Split, SortedIn

\* What is compared in a bitonic sequence: x and y with x < y < x + h.
LEMMA Compared ==
  ASSUME NEW lo \in Nat, NEW h \in Nat, NEW o, Bitonic(o, lo, 2 * h),
         NEW p \in Area(lo, h), NEW q \in Area(lo, h), p < q
  PROVE  /\ ~ Above(o, p, p + h, q, q + h)
         /\ ~ Above(o, q, q + h, p, p + h)
<1>1. /\ p \in Area(lo, 2 * h) /\ q \in Area(lo, 2 * h)
      /\ p + h \in Area(lo, 2 * h) /\ q + h \in Area(lo, 2 * h)
      /\ p < q /\ q < p + h /\ p + h < q + h
  BY DEF Area
<1> QED
  BY <1>1 DEF Bitonic

\* The least of each pair are not above the greatest of any pair.
LEMMA PairsSplit ==
  ASSUME NEW lo \in Nat, NEW h \in Nat, NEW o, NEW a, NEW dir \in {0, 1},
         Numbers(o, lo, 2 * h), Bitonic(o, lo, 2 * h),
         \A k \in Area(lo, h) : Paired(o, a, k, h, dir)
  PROVE  Split(a, lo, h, dir)
<1> SUFFICES ASSUME NEW x \in Area(lo, h), NEW y \in Area(lo + h, h)
             PROVE  InOrder(a[x], a[y], dir)
  BY DEF Split
<1>1. PICK q \in Area(lo, h) : y = q + h
  <2>1. y - h \in Area(lo, h) /\ y = (y - h) + h
    BY DEF Area
  <2> QED
    BY <2>1
<1>2. /\ x \in Area(lo, 2 * h) /\ x + h \in Area(lo, 2 * h)
      /\ q \in Area(lo, 2 * h) /\ q + h \in Area(lo, 2 * h)
  BY DEF Area
<1>3. o[x] \in Int /\ o[x + h] \in Int /\ o[q] \in Int /\ o[q + h] \in Int
  BY <1>2 DEF Numbers
<1>4. Paired(o, a, x, h, dir) /\ Paired(o, a, q, h, dir)
  OBVIOUS
<1>5. x \in Int /\ q \in Int
  BY DEF Area
<1>6. CASE x = q
  BY <1>1, <1>4, <1>6 DEF Paired
<1>7. CASE x # q
  <2>1. ~ Above(o, x, x + h, q, q + h) /\ ~ Above(o, q, q + h, x, x + h)
    <3>1. x < q \/ q < x
      BY <1>5, <1>7
    <3> QED
      BY <3>1, Compared
  <2> QED
    BY <1>1, <1>3, <1>4, <2>1 DEF Paired, Above, InOrder
<1> QED
  BY <1>6, <1>7

\* Eight places of a bitonic sequence in two rows.
LEMMA Eight ==
  ASSUME NEW lo \in Nat, NEW h \in Nat, NEW o, Bitonic(o, lo, 2 * h),
         NEW w \in Area(lo, h), NEW x \in Area(lo, h),
         NEW y \in Area(lo, h), NEW z \in Area(lo, h), w < x, x < y, y < z
  PROVE  /\ ~ Above(o, w, y, x, z)         /\ ~ Above(o, x, z, w, y)
         /\ ~ Above(o, w, y, x, z + h)     /\ ~ Above(o, x, z + h, w, y)
         /\ ~ Above(o, y, w + h, z, x + h) /\ ~ Above(o, z, x + h, y, w + h)
         /\ ~ Above(o, w + h, y + h, x + h, z + h)
         /\ ~ Above(o, x + h, z + h, w + h, y + h)
         /\ ~ Above(o, w, y + h, x, z + h) /\ ~ Above(o, x, z + h, w, y + h)
<1>1. /\ w \in Area(lo, 2 * h) /\ w + h \in Area(lo, 2 * h)
      /\ x \in Area(lo, 2 * h) /\ x + h \in Area(lo, 2 * h)
      /\ y \in Area(lo, 2 * h) /\ y + h \in Area(lo, 2 * h)
      /\ z \in Area(lo, 2 * h) /\ z + h \in Area(lo, 2 * h)
      /\ y < z + h /\ z < w + h /\ w + h < x + h /\ x + h < y + h /\ y + h < z + h
      /\ x < y + h
  BY DEF Area
<1> QED
  BY <1>1 DEF Bitonic

\* The numbers of eight places.
LEMMA EightNumbers ==
  ASSUME NEW lo \in Nat, NEW h \in Nat, NEW o, Numbers(o, lo, 2 * h), NEW k \in Area(lo, h)
  PROVE  o[k] \in Int /\ o[k + h] \in Int
<1>1. k \in Area(lo, 2 * h) /\ k + h \in Area(lo, 2 * h)
  BY DEF Area
<1> QED
  BY <1>1 DEF Numbers

Least2(o, k, h, v)    == v \in {o[k], o[k + h]} /\ v <= o[k] /\ v <= o[k + h]
Greatest2(o, k, h, v) == v \in {o[k], o[k + h]} /\ v >= o[k] /\ v >= o[k + h]

\* The least of each pair form a bitonic sequence.
LEMMA LeastBitonic ==
  ASSUME NEW lo \in Nat, NEW h \in Nat, NEW s \in {0, h}, NEW o, NEW a,
         Numbers(o, lo, 2 * h), Bitonic(o, lo, 2 * h),
         \A k \in Area(lo, h) : Least2(o, k, h, a[k + s])
  PROVE  Bitonic(a, lo + s, h)
<1> SUFFICES ASSUME NEW i \in Area(lo + s, h), NEW j \in Area(lo + s, h),
                    NEW k \in Area(lo + s, h), NEW l \in Area(lo + s, h),
                    i < j, j < k, k < l
             PROVE  ~ Above(a, i, k, j, l) /\ ~ Above(a, j, l, i, k)
  BY DEF Bitonic
<1>1. PICK w, x, y, z \in Area(lo, h) :
        w + s = i /\ x + s = j /\ y + s = k /\ z + s = l /\ w < x /\ x < y /\ y < z
  <2>1. /\ i - s \in Area(lo, h) /\ j - s \in Area(lo, h)
        /\ k - s \in Area(lo, h) /\ l - s \in Area(lo, h)
        /\ i - s < j - s /\ j - s < k - s /\ k - s < l - s
        /\ (i - s) + s = i /\ (j - s) + s = j /\ (k - s) + s = k /\ (l - s) + s = l
    BY DEF Area
  <2> QED
    BY <2>1
<1>2. /\ Least2(o, w, h, a[i]) /\ Least2(o, x, h, a[j])
      /\ Least2(o, y, h, a[k]) /\ Least2(o, z, h, a[l])
  BY <1>1
<1>3. /\ o[w] \in Int /\ o[w + h] \in Int /\ o[x] \in Int /\ o[x + h] \in Int
      /\ o[y] \in Int /\ o[y + h] \in Int /\ o[z] \in Int /\ o[z + h] \in Int
  BY EightNumbers
<1>4. /\ ~ Above(o, w, y, x, z)         /\ ~ Above(o, x, z, w, y)
      /\ ~ Above(o, w, y, x, z + h)     /\ ~ Above(o, x, z + h, w, y)
      /\ ~ Above(o, y, w + h, z, x + h) /\ ~ Above(o, z, x + h, y, w + h)
      /\ ~ Above(o, w + h, y + h, x + h, z + h)
      /\ ~ Above(o, x + h, z + h, w + h, y + h)
      /\ ~ Above(o, w, y + h, x, z + h) /\ ~ Above(o, x, z + h, w, y + h)
  BY <1>1, Eight
<1>5. ~ Above(a, i, k, j, l)
  BY <1>2, <1>3, <1>4 DEF Least2, Above
<1>6. ~ Above(a, j, l, i, k)
  BY <1>2, <1>3, <1>4 DEF Least2, Above
<1> QED
  BY <1>5, <1>6

\* So do the greatest.
LEMMA GreatestBitonic ==
  ASSUME NEW lo \in Nat, NEW h \in Nat, NEW s \in {0, h}, NEW o, NEW a,
         Numbers(o, lo, 2 * h), Bitonic(o, lo, 2 * h),
         \A k \in Area(lo, h) : Greatest2(o, k, h, a[k + s])
  PROVE  Bitonic(a, lo + s, h)
<1> SUFFICES ASSUME NEW i \in Area(lo + s, h), NEW j \in Area(lo + s, h),
                    NEW k \in Area(lo + s, h), NEW l \in Area(lo + s, h),
                    i < j, j < k, k < l
             PROVE  ~ Above(a, i, k, j, l) /\ ~ Above(a, j, l, i, k)
  BY DEF Bitonic
<1>1. PICK w, x, y, z \in Area(lo, h) :
        w + s = i /\ x + s = j /\ y + s = k /\ z + s = l /\ w < x /\ x < y /\ y < z
  <2>1. /\ i - s \in Area(lo, h) /\ j - s \in Area(lo, h)
        /\ k - s \in Area(lo, h) /\ l - s \in Area(lo, h)
        /\ i - s < j - s /\ j - s < k - s /\ k - s < l - s
        /\ (i - s) + s = i /\ (j - s) + s = j /\ (k - s) + s = k /\ (l - s) + s = l
    BY DEF Area
  <2> QED
    BY <2>1
<1>2. /\ Greatest2(o, w, h, a[i]) /\ Greatest2(o, x, h, a[j])
      /\ Greatest2(o, y, h, a[k]) /\ Greatest2(o, z, h, a[l])
  BY <1>1
<1>3. /\ o[w] \in Int /\ o[w + h] \in Int /\ o[x] \in Int /\ o[x + h] \in Int
      /\ o[y] \in Int /\ o[y + h] \in Int /\ o[z] \in Int /\ o[z + h] \in Int
  BY EightNumbers
<1>4. /\ ~ Above(o, w, y, x, z)         /\ ~ Above(o, x, z, w, y)
      /\ ~ Above(o, w, y, x, z + h)     /\ ~ Above(o, x, z + h, w, y)
      /\ ~ Above(o, y, w + h, z, x + h) /\ ~ Above(o, z, x + h, y, w + h)
      /\ ~ Above(o, w + h, y + h, x + h, z + h)
      /\ ~ Above(o, x + h, z + h, w + h, y + h)
      /\ ~ Above(o, w, y + h, x, z + h) /\ ~ Above(o, x, z + h, w, y + h)
  BY <1>1, Eight
<1>5. ~ Above(a, i, k, j, l)
  BY <1>2, <1>3, <1>4 DEF Greatest2, Above
<1>6. ~ Above(a, j, l, i, k)
  BY <1>2, <1>3, <1>4 DEF Greatest2, Above
<1> QED
  BY <1>5, <1>6

\* A merge that has compared all pairs of a bitonic sequence has two of
\* them, the first before the second.
LEMMA HalfCleaned ==
  ASSUME NEW lo \in Nat, NEW h \in Nat, NEW o, NEW a, NEW dir \in {0, 1},
         Numbers(o, lo, 2 * h), Bitonic(o, lo, 2 * h),
         \A k \in Area(lo, h) : Paired(o, a, k, h, dir)
  PROVE  Split(a, lo, h, dir) /\ Bitonic(a, lo, h) /\ Bitonic(a, lo + h, h)
<1>1. Split(a, lo, h, dir)
  BY PairsSplit
<1>2. ASSUME NEW k \in Area(lo, h)
      PROVE  IF dir = 1 THEN Least2(o, k, h, a[k]) /\ Greatest2(o, k, h, a[k + h])
                        ELSE Greatest2(o, k, h, a[k]) /\ Least2(o, k, h, a[k + h])
  <2>1. o[k] \in Int /\ o[k + h] \in Int /\ Paired(o, a, k, h, dir)
    BY EightNumbers
  <2> QED
    BY <2>1 DEF Paired, InOrder, Least2, Greatest2
<1>3. \A k \in Area(lo, h) : k + 0 = k
  BY DEF Area
<1>4. lo + 0 = lo
  OBVIOUS
<1>5. CASE dir = 1
  <2>1. /\ \A k \in Area(lo, h) : Least2(o, k, h, a[k + 0])
        /\ \A k \in Area(lo, h) : Greatest2(o, k, h, a[k + h])
    BY <1>2, <1>3, <1>5
  <2>2. Bitonic(a, lo + 0, h)
    BY <2>1, LeastBitonic
  <2>3. Bitonic(a, lo + h, h)
    BY <2>1, GreatestBitonic
  <2> QED
    BY <1>1, <1>4, <2>2, <2>3
<1>6. CASE dir = 0
  <2>1. /\ \A k \in Area(lo, h) : Greatest2(o, k, h, a[k + 0])
        /\ \A k \in Area(lo, h) : Least2(o, k, h, a[k + h])
    BY <1>2, <1>3, <1>6
  <2>2. Bitonic(a, lo + 0, h)
    BY <2>1, GreatestBitonic
  <2>3. Bitonic(a, lo + h, h)
    BY <2>1, LeastBitonic
  <2> QED
    BY <1>1, <1>4, <2>2, <2>3
<1> QED
  BY <1>5, <1>6

-----------------------------------------------------------------------------
(***************************************************************************)
(* What a call has done to its part of the array a when it is at f.at: a   *)
(* merge compares the pairs of a bitonic sequence o, then its halves are   *)
(* bitonic and one before the other, then they are in order; of a sort     *)
(* only the end says something.  What a half that is not left yet has done *)
(* is said of the half.                                                    *)
(***************************************************************************)
Comparable(o, a, lo, h, dir, i) ==
  /\ Numbers(o, lo, 2 * h) /\ Bitonic(o, lo, 2 * h)
  /\ \A k \in Area(lo, h) :
       IF k < i THEN Paired(o, a, k, h, dir) ELSE a[k] = o[k] /\ a[k + h] = o[k + h]

InArea(t) == Area(t.low, t.cnt)

SplitBy(t, a) == Split(a, t.low, Half(t), t.dir)
Sorts(t, a)   == SortedIn(a, t.low, t.cnt, t.dir)
Mixed(t, a)   == Bitonic(a, t.low, t.cnt)

\* Swaps: before and while the pairs are compared.
Swapping(t, a, i) == \E o : Comparable(o, a, t.low, Half(t), t.dir, i)

MergeDoes(t, a, f) ==
  CASE f.at = "swap"            -> Swapping(t, a, f.i)
    [] f.at \in {"ask", "left"} -> SplitBy(t, a) /\ Mixed(Left(t), a) /\ Mixed(Right(t), a)
    [] f.at = "right"           -> SplitBy(t, a) /\ Mixed(Right(t), a)
    [] f.at = "join"            -> SplitBy(t, a)
    [] OTHER                    -> TRUE

Does(t, a, f) ==
  /\ f.at = "done" => Sorts(t, a)
  /\ f.at = "release" => Sorts(Left(t), a) /\ Sorts(Right(t), a) /\ (t.kind = "merge" => SplitBy(t, a))
  /\ t.kind = "merge" => MergeDoes(t, a, f)

Settled ==
  \A t \in DOMAIN frames : Power(t.cnt) /\ Does(t, arr, frames[t])

\* The halves of a call.
LEMMA HalfAreas ==
  ASSUME NEW t \in Call, t.cnt >= 2, Power(t.cnt)
  PROVE  /\ Half(t) \in Nat /\ t.cnt = 2 * Half(t) /\ t.low \in Nat /\ t.dir \in {0, 1}
         /\ Power(Left(t).cnt) /\ Power(Right(t).cnt)
         /\ Left(t).low = t.low /\ Left(t).cnt = Half(t)
         /\ Right(t).low = t.low + Half(t) /\ Right(t).cnt = Half(t)
         /\ t.kind = "merge" => Left(t).dir = t.dir /\ Right(t).dir = t.dir
         /\ t.kind = "sort" => Left(t).dir = 1 /\ Right(t).dir = 0
<1>1. t.cnt \in Nat /\ t.low \in Nat /\ t.dir \in {0, 1}
  BY DEF Call
<1>2. Half(t) \in Nat /\ t.cnt = 2 * Half(t) /\ Power(Half(t))
  BY <1>1, HalfPower DEF Half
<1>3. /\ Left(t).low = t.low /\ Left(t).cnt = Half(t)
      /\ Right(t).low = t.low + Half(t) /\ Right(t).cnt = Half(t)
      /\ t.kind = "merge" => Left(t).dir = t.dir /\ Right(t).dir = t.dir
      /\ t.kind = "sort" => Left(t).dir = 1 /\ Right(t).dir = 0
  BY DEF Call, Left, Right
<1> QED
  BY <1>1, <1>2, <1>3

\* The array has numbers in the part of every call.
LEMMA AllNumbers ==
  ASSUME ArrayInv, NEW t \in Call, t.low + t.cnt <= N
  PROVE  Numbers(arr, t.low, t.cnt)
<1>1. t.low \in Nat /\ t.cnt \in Nat /\ N \in Nat
  BY SortAssumption DEF Call
<1>2. \A x \in Area(t.low, t.cnt) : x \in Index
  BY <1>1 DEF Area, Index
<1> QED
  BY <1>2, SortAssumption DEF Numbers, ArrayInv

\* A call that was just made: a single element is in order, a merge needs a
\* bitonic sequence.
LEMMA NewDoes ==
  ASSUME NEW a, NEW t \in Call, Numbers(a, t.low, t.cnt), Power(t.cnt),
         t.kind = "merge" => Mixed(t, a)
  PROVE  Does(t, a, Entered(t))
<1>1. t.cnt \in Nat /\ t.low \in Nat /\ t.kind \in {"sort", "merge"}
  BY DEF Call
<1>2. CASE t.cnt <= 1
  <2>1. Entered(t).at = "done"
    BY <1>2 DEF Entered
  <2>2. \A x, y \in Area(t.low, t.cnt) : x = y /\ a[x] \in Int
    BY <1>1, <1>2 DEF Area, Numbers
  <2>3. Sorts(t, a)
    BY <2>2 DEF Sorts, SortedIn, InOrder
  <2> QED
    BY <2>1, <2>3 DEF Does, MergeDoes
<1>3. CASE t.cnt >= 2 /\ t.kind = "sort"
  <2>1. Entered(t).at = "ask"
    BY <1>1, <1>3 DEF Entered
  <2> QED
    BY <1>3, <2>1 DEF Does
<1>4. CASE t.cnt >= 2 /\ t.kind = "merge"
  <2>1. Entered(t).at = "swap" /\ Entered(t).i = t.low
    BY <1>1, <1>4 DEF Entered
  <2>2. Half(t) \in Nat /\ t.cnt = 2 * Half(t)
    BY <1>4, HalfAreas
  <2>3. Comparable(a, a, t.low, Half(t), t.dir, t.low)
    <3>1. Bitonic(a, t.low, 2 * Half(t)) /\ Numbers(a, t.low, 2 * Half(t))
      BY <1>4, <2>2 DEF Mixed
    <3>2. \A k \in Area(t.low, Half(t)) : ~ (k < t.low)
      BY <1>1, <2>2 DEF Area
    <3> QED
      BY <3>1, <3>2 DEF Comparable
  <2>4. Swapping(t, a, t.low)
    BY <2>3 DEF Swapping
  <2> QED
    BY <2>1, <2>4 DEF Does, MergeDoes
<1> QED
  BY <1>1, <1>2, <1>3, <1>4

-----------------------------------------------------------------------------
(***************************************************************************)
(* A step that leaves the array alone: who made it and what it calls.      *)
(***************************************************************************)
LEMMA SettledStep ==
  ASSUME FrameInv, Tree, Settled, UNCHANGED arr,
         NEW t, NEW x, NEW gone, NEW new, Changes(t, x, gone, new), Orderly(t, x, gone, new),
         Does(t, arr, x), \A b \in new : Power(b.cnt) /\ Does(b, arr, Entered(b))
  PROVE  Settled'
<1>1. t \in DOMAIN frames /\ frames'[t] = x
  BY DEF Changes, Orderly
<1>2. SUFFICES ASSUME NEW u \in DOMAIN frames'
               PROVE  Power(u.cnt) /\ Does(u, arr, frames'[u])
  BY DEF Settled
<1>3. CASE u = t
  BY <1>1, <1>3 DEF Settled
<1>4. CASE u # t /\ u \in new
  <2>1. frames'[u] = Entered(u)
    BY <1>4 DEF Changes
  <2> QED
    BY <1>4, <2>1
<1>5. CASE u # t /\ u \notin new
  <2>1. u \in DOMAIN frames /\ frames'[u] = frames[u]
    BY <1>2, <1>5 DEF Changes
  <2> QED
    BY <2>1 DEF Settled
<1> QED
  BY <1>3, <1>4, <1>5

\* What is known of the call that makes a step.
LEMMA Stepping ==
  ASSUME FrameInv, ArrayInv, Settled, NEW t \in DOMAIN frames, frames[t].at # "done"
  PROVE  /\ t \in Call /\ t.cnt >= 2 /\ t.low + t.cnt <= N /\ Power(t.cnt)
         /\ frames[t] \in Frame /\ Does(t, arr, frames[t])
         /\ Half(t) \in Nat /\ t.cnt = 2 * Half(t) /\ t.low \in Nat /\ t.dir \in {0, 1}
         /\ t.kind \in {"sort", "merge"} /\ Numbers(arr, t.low, t.cnt)
         /\ Left(t) \in Call /\ Right(t) \in Call
         /\ Power(Left(t).cnt) /\ Power(Right(t).cnt)
         /\ Numbers(arr, Left(t).low, Left(t).cnt) /\ Numbers(arr, Right(t).low, Right(t).cnt)
         /\ Left(t).kind = t.kind /\ Right(t).kind = t.kind
<1>1. /\ t \in Call /\ t.cnt >= 2 /\ t.low + t.cnt <= N /\ Power(t.cnt)
      /\ frames[t] \in Frame /\ Does(t, arr, frames[t])
  BY DEF FrameInv, Fine, Settled
<1>2. /\ Half(t) \in Nat /\ t.cnt = 2 * Half(t) /\ t.low \in Nat /\ t.dir \in {0, 1}
      /\ Power(Left(t).cnt) /\ Power(Right(t).cnt)
  BY <1>1, HalfAreas
<1>3. /\ Left(t) \in Call /\ Left(t).low + Left(t).cnt <= N
      /\ Right(t) \in Call /\ Right(t).low + Right(t).cnt <= N
      /\ Left(t).kind = t.kind /\ Right(t).kind = t.kind
  BY <1>1, HalvesFit
<1>4. /\ Numbers(arr, t.low, t.cnt) /\ Numbers(arr, Left(t).low, Left(t).cnt)
      /\ Numbers(arr, Right(t).low, Right(t).cnt)
  BY <1>1, <1>3, AllNumbers
<1>5. t.kind \in {"sort", "merge"}
  BY <1>1 DEF Call
<1> QED
  BY <1>1, <1>2, <1>3, <1>4, <1>5

\* Two halves in order make a merge sorted, and a sort ready for its merge.
LEMMA Finished ==
  ASSUME FrameInv, ArrayInv, Settled, NEW t \in DOMAIN frames, frames[t].at # "done",
         Sorts(Left(t), arr), Sorts(Right(t), arr), t.kind = "merge" => SplitBy(t, arr)
  PROVE  IF t.kind = "merge" THEN Sorts(t, arr) ELSE Mixed(t, arr)
<1>1. /\ t \in Call /\ t.cnt >= 2 /\ Power(t.cnt) /\ Numbers(arr, t.low, t.cnt)
      /\ t.kind \in {"sort", "merge"}
  BY Stepping
<1>2. /\ Half(t) \in Nat /\ t.cnt = 2 * Half(t) /\ t.low \in Nat /\ t.dir \in {0, 1}
      /\ Left(t).low = t.low /\ Left(t).cnt = Half(t)
      /\ Right(t).low = t.low + Half(t) /\ Right(t).cnt = Half(t)
      /\ t.kind = "merge" => Left(t).dir = t.dir /\ Right(t).dir = t.dir
      /\ t.kind = "sort" => Left(t).dir = 1 /\ Right(t).dir = 0
  BY <1>1, HalfAreas
<1>3. CASE t.kind = "merge"
  <2>1. /\ Split(arr, t.low, Half(t), t.dir)
        /\ SortedIn(arr, t.low, Half(t), t.dir)
        /\ SortedIn(arr, t.low + Half(t), Half(t), t.dir)
    BY <1>2, <1>3 DEF Sorts, SplitBy
  <2>2. SortedIn(arr, t.low, 2 * Half(t), t.dir)
    BY <1>2, <2>1, TwoSorted
  <2> QED
    BY <1>2, <1>3, <2>2 DEF Sorts
<1>4. CASE t.kind = "sort"
  <2>1. SortedIn(arr, t.low, Half(t), 1) /\ SortedIn(arr, t.low + Half(t), Half(t), 0)
    BY <1>2, <1>4 DEF Sorts
  <2>2. Bitonic(arr, t.low, 2 * Half(t))
    BY <1>1, <1>2, <2>1, UpAndDown
  <2> QED
    BY <1>2, <1>4, <2>2 DEF Mixed
<1> QED
  BY <1>1, <1>3, <1>4

LEMMA AskSettled ==
  ASSUME FrameInv, Tree, ArrayInv, Settled, NEW t \in DOMAIN frames, Ask(t)
  PROVE  Settled'
<1>1. PICK x : x = frames'[t]
  OBVIOUS
<1>2. /\ Changes(t, x, {}, {}) /\ Orderly(t, x, {}, {})
      /\ frames[t].at = "ask" /\ x.at = "left"
  BY <1>1, AskChanges
<1>3. Does(t, arr, frames[t])
  BY DEF Settled
<1>4. Does(t, arr, x)
  BY <1>2, <1>3 DEF Does, MergeDoes
<1>5. UNCHANGED arr
  BY DEF Ask
<1> QED
  BY <1>2, <1>4, <1>5, SettledStep

LEMMA StartLeftSettled ==
  ASSUME FrameInv, Tree, ArrayInv, Settled, NEW t \in DOMAIN frames, StartLeft(t)
  PROVE  Settled'
<1>1. PICK x : x = frames'[t]
  OBVIOUS
<1>2. /\ Changes(t, x, {}, {Left(t)}) /\ Orderly(t, x, {}, {Left(t)})
      /\ frames[t].at = "left" /\ x.at = "right"
  BY <1>1, StartLeftChanges
<1>3. /\ Does(t, arr, frames[t]) /\ Left(t) \in Call /\ Power(Left(t).cnt)
      /\ Numbers(arr, Left(t).low, Left(t).cnt) /\ Left(t).kind = t.kind
  BY <1>2, Stepping
<1>4. Does(t, arr, x) /\ (t.kind = "merge" => Mixed(Left(t), arr))
  BY <1>2, <1>3 DEF Does, MergeDoes
<1>5. Does(Left(t), arr, Entered(Left(t)))
  BY <1>3, <1>4, NewDoes
<1>6. UNCHANGED arr
  BY DEF StartLeft
<1>7. \A b \in {Left(t)} : Power(b.cnt) /\ Does(b, arr, Entered(b))
  BY <1>3, <1>5
<1> QED
  BY <1>2, <1>4, <1>6, <1>7, SettledStep

LEMMA StartRightSettled ==
  ASSUME FrameInv, Tree, ArrayInv, Settled, NEW t \in DOMAIN frames, StartRight(t)
  PROVE  Settled'
<1>1. PICK x : x = frames'[t]
  OBVIOUS
<1>2. /\ Changes(t, x, {}, {Right(t)}) /\ Orderly(t, x, {}, {Right(t)})
      /\ frames[t].at = "right" /\ x.at = "join"
  BY <1>1, StartRightChanges
<1>3. /\ Does(t, arr, frames[t]) /\ Right(t) \in Call /\ Power(Right(t).cnt)
      /\ Numbers(arr, Right(t).low, Right(t).cnt) /\ Right(t).kind = t.kind
  BY <1>2, Stepping
<1>4. Does(t, arr, x) /\ (t.kind = "merge" => Mixed(Right(t), arr))
  BY <1>2, <1>3 DEF Does, MergeDoes
<1>5. Does(Right(t), arr, Entered(Right(t)))
  BY <1>3, <1>4, NewDoes
<1>6. UNCHANGED arr
  BY DEF StartRight
<1>7. \A b \in {Right(t)} : Power(b.cnt) /\ Does(b, arr, Entered(b))
  BY <1>3, <1>5
<1> QED
  BY <1>2, <1>4, <1>6, <1>7, SettledStep

\* A sort calls its merge when its halves are in order.
LEMMA MergeReady ==
  ASSUME FrameInv, ArrayInv, Settled, NEW t \in DOMAIN frames, frames[t].at # "done",
         t.kind # "merge" => Mixed(t, arr)
  PROVE  \A b \in MergeCall(t) : Power(b.cnt) /\ Does(b, arr, Entered(b))
<1> SUFFICES ASSUME t.kind # "merge"
             PROVE  Power(MergeOf(t).cnt) /\ Does(MergeOf(t), arr, Entered(MergeOf(t)))
  BY DEF MergeCall
<1>1. t \in Call /\ Power(t.cnt) /\ Numbers(arr, t.low, t.cnt) /\ t.kind = "sort"
  BY Stepping
<1>2. /\ MergeOf(t) \in Call /\ MergeOf(t).low = t.low /\ MergeOf(t).cnt = t.cnt
  BY <1>1, MergeFits
<1>3. Mixed(MergeOf(t), arr) /\ Numbers(arr, MergeOf(t).low, MergeOf(t).cnt)
  BY <1>1, <1>2 DEF Mixed
<1> QED
  BY <1>1, <1>2, <1>3, NewDoes

LEMMA JoinSettled ==
  ASSUME FrameInv, Tree, ArrayInv, Settled, NEW t \in DOMAIN frames, Join(t)
  PROVE  Settled'
<1>1. PICK x : x = frames'[t]
  OBVIOUS
<1>2. PICK new : new = IF frames[t].threads > 0 THEN {} ELSE MergeCall(t)
  OBVIOUS
<1>3. /\ Changes(t, x, Kids(t), new) /\ Orderly(t, x, Kids(t), new)
      /\ frames[t].at = "join" /\ Kids(t) = {Left(t), Right(t)}
      /\ frames[t].threads > 0 => x.at = "release"
      /\ ~ frames[t].threads > 0 => x.at = IF t.kind = "merge" THEN "done" ELSE "merging"
  BY <1>1, <1>2, JoinChanges
<1>4. Does(t, arr, frames[t])
  BY DEF Settled
<1>5. Sorts(Left(t), arr) /\ Sorts(Right(t), arr)
  <2>1. /\ Left(t) \in DOMAIN frames /\ frames[Left(t)].at = "done"
        /\ Right(t) \in DOMAIN frames /\ frames[Right(t)].at = "done"
    BY DEF Join, Done, At
  <2> QED
    BY <2>1 DEF Settled, Does
<1>6. t.kind = "merge" => SplitBy(t, arr)
  BY <1>3, <1>4 DEF Does, MergeDoes
<1>7. IF t.kind = "merge" THEN Sorts(t, arr) ELSE Mixed(t, arr)
  BY <1>3, <1>5, <1>6, Finished
<1>8. Does(t, arr, x)
  BY <1>3, <1>5, <1>6, <1>7 DEF Does, MergeDoes
<1>9. \A b \in new : Power(b.cnt) /\ Does(b, arr, Entered(b))
  BY <1>2, <1>3, <1>7, MergeReady
<1>10. UNCHANGED arr
  BY DEF Join
<1> QED
  BY <1>3, <1>8, <1>9, <1>10, SettledStep

LEMMA ReleaseSettled ==
  ASSUME FrameInv, Tree, ArrayInv, Settled, NEW t \in DOMAIN frames, Release(t)
  PROVE  Settled'
<1>1. PICK x : x = frames'[t]
  OBVIOUS
<1>3. /\ Changes(t, x, {}, MergeCall(t)) /\ Orderly(t, x, {}, MergeCall(t))
      /\ frames[t].at = "release" /\ x.at = IF t.kind = "merge" THEN "done" ELSE "merging"
  BY <1>1, ReleaseChanges
<1>4. Does(t, arr, frames[t])
  BY DEF Settled
<1>5. Sorts(Left(t), arr) /\ Sorts(Right(t), arr) /\ (t.kind = "merge" => SplitBy(t, arr))
  BY <1>3, <1>4 DEF Does
<1>7. IF t.kind = "merge" THEN Sorts(t, arr) ELSE Mixed(t, arr)
  BY <1>3, <1>5, Finished
<1>8. Does(t, arr, x)
  BY <1>3, <1>7 DEF Does, MergeDoes
<1>9. \A b \in MergeCall(t) : Power(b.cnt) /\ Does(b, arr, Entered(b))
  BY <1>3, <1>7, MergeReady
<1>10. UNCHANGED arr
  BY DEF Release
<1> QED
  BY <1>3, <1>8, <1>9, <1>10, SettledStep

LEMMA EndSortSettled ==
  ASSUME FrameInv, Tree, ArrayInv, Settled, NEW t \in DOMAIN frames, EndSort(t)
  PROVE  Settled'
<1>1. PICK x : x = frames'[t]
  OBVIOUS
<1>3. /\ Changes(t, x, Kids(t), {}) /\ Orderly(t, x, Kids(t), {})
      /\ frames[t].at = "merging" /\ x.at = "done"
  BY <1>1, EndSortChanges
<1>4. t \in Call /\ t.kind = "sort"
  BY <1>3 DEF FrameInv, Fine
<1>5. Sorts(MergeOf(t), arr)
  <2>1. MergeOf(t) \in DOMAIN frames /\ frames[MergeOf(t)].at = "done"
    BY DEF EndSort, Done, At
  <2> QED
    BY <2>1 DEF Settled, Does
<1>6. MergeOf(t).low = t.low /\ MergeOf(t).cnt = t.cnt /\ MergeOf(t).dir = t.dir
  BY <1>4 DEF MergeOf, Call
<1>7. Sorts(t, arr)
  BY <1>5, <1>6 DEF Sorts
<1>8. Does(t, arr, x)
  BY <1>3, <1>4, <1>7 DEF Does
<1>10. UNCHANGED arr
  BY DEF EndSort
<1> QED
  BY <1>3, <1>8, <1>10, SettledStep

-----------------------------------------------------------------------------
(***************************************************************************)
(* A swap: the array b after it differs from a in i and j at most.         *)
(***************************************************************************)
Swapped(a, b, i, j, dir) ==
  /\ \A k \in Index : k # i /\ k # j => b[k] = a[k]
  /\ InOrder(b[i], b[j], dir)
  /\ \/ b[i] = a[i] /\ b[j] = a[j]
     \/ b[i] = a[j] /\ b[j] = a[i]

LEMMA SwapSwaps ==
  ASSUME FrameInv, ArrayInv, NEW t \in DOMAIN frames, Swap(t)
  PROVE  LET i == frames[t].i
             x == frames'[t] IN
         /\ i \in Index /\ i + Half(t) \in Index /\ i \in Area(t.low, Half(t))
         /\ Swapped(arr, arr', i, i + Half(t), t.dir)
         /\ t.kind = "merge" /\ t.cnt >= 2
         /\ x.at = "swap" => x.i = i + 1
         /\ x.at # "swap" => i + 1 = t.low + Half(t)
<1> DEFINE i == frames[t].i
           j == i + Half(t)
<1>1. /\ t \in Call /\ t.low + t.cnt <= N /\ t.cnt >= 2 /\ t.kind = "merge"
      /\ frames[t] \in Frame /\ t.low <= i /\ i < t.low + Half(t) /\ frames[t].at = "swap"
  BY DEF Swap, At, FrameInv, Fine
<1>2. i \in Nat /\ t.low \in Nat /\ t.cnt \in Nat /\ N \in Nat /\ t.dir \in {0, 1}
  BY <1>1, SortAssumption DEF Frame, Call
<1>3. Half(t) \in Nat /\ Half(t) >= 1 /\ 2 * Half(t) <= t.cnt
  BY <1>1, <1>2, HalfFacts DEF Half
<1>4. i \in Index /\ j \in Index /\ i # j /\ i \in Area(t.low, Half(t))
  BY <1>1, <1>2, <1>3 DEF Index, Area
<1>5. arr' = CompareAndSwap(arr, i, j, t.dir)
  BY DEF Swap
<1>6. Swapped(arr, arr', i, j, t.dir)
  <2>1. arr \in [Index -> Values] /\ arr[i] \in Int /\ arr[j] \in Int
    BY <1>4, SortAssumption DEF ArrayInv
  <2> HIDE DEF i, j
  <2>2. CASE (t.dir = 1) <=> (arr[i] > arr[j])
    <3>1. arr' = [arr EXCEPT ![i] = arr[j], ![j] = arr[i]]
      BY <1>5, <2>2 DEF CompareAndSwap
    <3>2. arr'[i] = arr[j] /\ arr'[j] = arr[i]
      BY <1>4, <2>1, <3>1
    <3>3. \A k \in Index : k # i /\ k # j => arr'[k] = arr[k]
      BY <2>1, <3>1
    <3> QED
      BY <1>2, <2>1, <2>2, <3>2, <3>3 DEF Swapped, InOrder
  <2>3. CASE ~ ((t.dir = 1) <=> (arr[i] > arr[j]))
    <3>1. arr' = arr
      BY <1>5, <2>3 DEF CompareAndSwap
    <3> QED
      BY <1>2, <2>1, <2>3, <3>1 DEF Swapped, InOrder
  <2> QED
    BY <2>2, <2>3
<1>7. /\ frames'[t].at = "swap" => frames'[t].i = i + 1
      /\ frames'[t].at # "swap" => i + 1 = t.low + Half(t)
  <2> DEFINE w == IF i + 1 < t.low + Half(t) THEN frames[t].at
                  ELSE IF Half(t) < Threshold THEN "left" ELSE "ask"
  <2>1. frames' = [frames EXCEPT ![t].i = i + 1, ![t].at = w]
    BY DEF Swap
  <2>2. w = "swap" => i + 1 < t.low + Half(t)
    BY <1>1
  <2>3. w # "swap" => i + 1 = t.low + Half(t)
    BY <1>1, <1>2, <1>3
  <2> HIDE DEF w
  <2>4. frames'[t].at = w /\ frames'[t].i = i + 1
    BY <1>1, <2>1 DEF FrameInv, Frame
  <2> QED
    BY <2>2, <2>3, <2>4
<1> QED
  BY <1>1, <1>4, <1>6, <1>7

\* What is said of a part of the array that did not change stays true.
LEMMA SameArea ==
  ASSUME NEW a, NEW b, NEW lo, NEW n, NEW dir, \A k \in Area(lo, n) : b[k] = a[k]
  PROVE  /\ SortedIn(a, lo, n, dir) => SortedIn(b, lo, n, dir)
         /\ Bitonic(a, lo, n) => Bitonic(b, lo, n)
<1>1. SortedIn(a, lo, n, dir) => SortedIn(b, lo, n, dir)
  BY DEF SortedIn
<1>2. Bitonic(a, lo, n) => Bitonic(b, lo, n)
  BY DEF Bitonic, Above
<1> QED
  BY <1>1, <1>2

\* The parts of the halves.
LEMMA PartOfHalf ==
  ASSUME NEW lo \in Nat, NEW h \in Nat
  PROVE  /\ \A k \in Area(lo, h) : k \in Area(lo, 2 * h) /\ k + h \in Area(lo, 2 * h)
         /\ \A k \in Area(lo + h, h) : k \in Area(lo, 2 * h)
  BY DEF Area

LEMMA SameDoes ==
  ASSUME NEW t \in Call, Power(t.cnt), NEW f, f.at # "done" => t.cnt >= 2,
         NEW a, NEW b, \A k \in InArea(t) : b[k] = a[k], Does(t, a, f)
  PROVE  Does(t, b, f)
<1>1. Sorts(t, a) => Sorts(t, b)
  BY SameArea DEF Sorts, InArea
<1>2. CASE f.at = "done"
  BY <1>1, <1>2 DEF Does, MergeDoes
<1>3. CASE f.at # "done"
  <2>1. /\ Half(t) \in Nat /\ t.cnt = 2 * Half(t) /\ t.low \in Nat
        /\ Left(t).low = t.low /\ Left(t).cnt = Half(t)
        /\ Right(t).low = t.low + Half(t) /\ Right(t).cnt = Half(t)
    BY <1>3, HalfAreas
  <2>2. /\ \A k \in Area(t.low, Half(t)) : b[k] = a[k] /\ b[k + Half(t)] = a[k + Half(t)]
        /\ \A k \in Area(t.low + Half(t), Half(t)) : b[k] = a[k]
    BY <2>1, PartOfHalf DEF InArea
  <2>3. /\ \A k \in Area(Left(t).low, Left(t).cnt) : b[k] = a[k]
        /\ \A k \in Area(Right(t).low, Right(t).cnt) : b[k] = a[k]
    BY <2>1, <2>2
  <2>4. /\ Sorts(Left(t), a) => Sorts(Left(t), b)
        /\ Sorts(Right(t), a) => Sorts(Right(t), b)
        /\ Mixed(Left(t), a) => Mixed(Left(t), b)
        /\ Mixed(Right(t), a) => Mixed(Right(t), b)
    BY <2>3, SameArea DEF Sorts, Mixed
  <2>5. SplitBy(t, a) => SplitBy(t, b)
    BY <2>2 DEF SplitBy, Split
  <2>6. ASSUME NEW i, Swapping(t, a, i)
        PROVE  Swapping(t, b, i)
    <3>1. PICK o : Comparable(o, a, t.low, Half(t), t.dir, i)
      BY <2>6 DEF Swapping
    <3>2. Comparable(o, b, t.low, Half(t), t.dir, i)
      BY <2>2, <3>1 DEF Comparable, Paired
    <3> QED
      BY <3>2 DEF Swapping
  <2>7. MergeDoes(t, a, f) => MergeDoes(t, b, f)
    BY <2>4, <2>5, <2>6 DEF MergeDoes
  <2> QED
    BY <1>1, <2>4, <2>5, <2>7 DEF Does
<1> QED
  BY <1>2, <1>3

\* A swap within one half of a call.
LEMMA SplitStays ==
  ASSUME NEW lo \in Nat, NEW h \in Nat, NEW dir \in {0, 1}, NEW d, NEW a, NEW b,
         NEW i, NEW j, Swapped(a, b, i, j, d), Area(lo, 2 * h) \subseteq Index,
         \/ i \in Area(lo, h) /\ j \in Area(lo, h)
         \/ i \in Area(lo + h, h) /\ j \in Area(lo + h, h),
         Split(a, lo, h, dir)
  PROVE  Split(b, lo, h, dir)
<1>1. /\ \A k \in Area(lo, h) : k \in Index /\ k \notin Area(lo + h, h)
      /\ \A k \in Area(lo + h, h) : k \in Index
  BY PartOfHalf DEF Area
<1>2. \A k \in Index : b[k] \in {a[k], a[i], a[j]} /\ (k # i /\ k # j => b[k] = a[k])
  BY DEF Swapped
<1>3. \A x \in Area(lo, h), y \in Area(lo + h, h) : InOrder(a[x], a[y], dir)
  BY DEF Split
<1>4. ASSUME NEW x \in Area(lo, h), NEW y \in Area(lo + h, h)
      PROVE  InOrder(b[x], b[y], dir)
  <2>1. CASE i \in Area(lo, h) /\ j \in Area(lo, h)
    <3>1. b[y] = a[y] /\ b[x] \in {a[x], a[i], a[j]}
      BY <1>1, <1>2, <2>1
    <3> QED
      BY <1>3, <2>1, <3>1
  <2>2. CASE i \in Area(lo + h, h) /\ j \in Area(lo + h, h)
    <3>1. b[x] = a[x] /\ b[y] \in {a[y], a[i], a[j]}
      BY <1>1, <1>2, <2>2
    <3> QED
      BY <1>3, <2>2, <3>1
  <2> QED
    BY <2>1, <2>2
<1> QED
  BY <1>4 DEF Split

\* The call that swaps has one more pair in order; after the last one it has
\* two bitonic halves.
LEMMA SwapperDoes ==
  ASSUME FrameInv, Tree, ArrayInv, Settled, NEW t \in DOMAIN frames, Swap(t)
  PROVE  Does(t, arr', frames'[t])
<1>1. PICK x : x = frames'[t]
  OBVIOUS
<1>2. PICK b : b = arr'
  OBVIOUS
<1>3. PICK h : h = Half(t)
  OBVIOUS
<1>4. PICK i : i = frames[t].i
  OBVIOUS
<1>5. /\ i \in Index /\ i + h \in Index /\ i \in Area(t.low, h)
      /\ Swapped(arr, b, i, i + h, t.dir)
      /\ t.kind = "merge" /\ t.cnt >= 2
      /\ x.at = "swap" => x.i = i + 1
      /\ x.at # "swap" => i + 1 = t.low + h
  BY <1>1, <1>2, <1>3, <1>4, SwapSwaps
<1>6. frames[t].at = "swap" /\ x.at \in {"swap", "ask", "left"}
  BY <1>1, SwapChanges
<1>7. /\ t \in Call /\ Power(t.cnt) /\ Does(t, arr, frames[t])
      /\ h \in Nat /\ t.cnt = 2 * h /\ t.low \in Nat /\ t.dir \in {0, 1}
      /\ Left(t).low = t.low /\ Left(t).cnt = h
      /\ Right(t).low = t.low + h /\ Right(t).cnt = h
      /\ t.low + t.cnt <= N
  BY <1>3, <1>6, Stepping, HalfAreas
<1>8. PICK o : Comparable(o, arr, t.low, h, t.dir, i)
  BY <1>3, <1>4, <1>5, <1>6, <1>7 DEF Does, MergeDoes, Swapping
<1>9. \A k \in Area(t.low, h) : k \in Index /\ k + h \in Index /\ k \in Int /\ (k # i => k + h # i /\ k # i + h /\ k + h # i + h)
  BY <1>5, <1>7, SortAssumption DEF Area, Index
<1>10. i \in Int /\ ~ (i < i)
  BY <1>5 DEF Index
<1>11. ASSUME NEW k \in Area(t.low, h)
       PROVE  IF k < i + 1 THEN Paired(o, b, k, h, t.dir) ELSE b[k] = o[k] /\ b[k + h] = o[k + h]
  <2>1. IF k < i THEN Paired(o, arr, k, h, t.dir) ELSE arr[k] = o[k] /\ arr[k + h] = o[k + h]
    BY <1>8 DEF Comparable
  <2>2. CASE k = i
    <3>1. arr[i] = o[i] /\ arr[i + h] = o[i + h]
      BY <1>10, <2>1, <2>2
    <3>2. Paired(o, b, i, h, t.dir)
      BY <1>5, <3>1 DEF Swapped, Paired
    <3>3. k < i + 1
      BY <1>10, <2>2
    <3> QED
      BY <2>2, <3>2, <3>3
  <2>3. CASE k # i
    <3>1. b[k] = arr[k] /\ b[k + h] = arr[k + h]
      BY <1>5, <1>9, <2>3 DEF Swapped
    <3>2. k < i + 1 <=> k < i
      BY <1>9, <1>10, <2>3
    <3> QED
      BY <2>1, <3>1, <3>2 DEF Paired
  <2> QED
    BY <2>2, <2>3
<1>12. Numbers(o, t.low, 2 * h) /\ Bitonic(o, t.low, 2 * h)
  BY <1>8 DEF Comparable
<1>13. CASE x.at = "swap"
  <2>1. Comparable(o, b, t.low, h, t.dir, x.i)
    BY <1>5, <1>11, <1>12, <1>13 DEF Comparable
  <2>2. Swapping(t, b, x.i)
    BY <1>3, <2>1 DEF Swapping
  <2>3. Does(t, b, x)
    BY <1>13, <2>2 DEF Does, MergeDoes
  <2> QED
    BY <1>1, <1>2, <2>3
<1>14. CASE x.at # "swap"
  <2>1. \A k \in Area(t.low, h) : k < i + 1
    BY <1>5, <1>7, <1>14 DEF Area
  <2>2. \A k \in Area(t.low, h) : Paired(o, b, k, h, t.dir)
    BY <1>11, <2>1
  <2>3. Split(b, t.low, h, t.dir) /\ Bitonic(b, t.low, h) /\ Bitonic(b, t.low + h, h)
    BY <1>7, <1>12, <2>2, HalfCleaned
  <2>4. SplitBy(t, b) /\ Mixed(Left(t), b) /\ Mixed(Right(t), b)
    BY <1>3, <1>7, <2>3 DEF SplitBy, Mixed
  <2>5. Does(t, b, x)
    BY <1>6, <1>14, <2>4 DEF Does, MergeDoes
  <2> QED
    BY <1>1, <1>2, <2>5
<1> QED
  BY <1>13, <1>14

\* A swap leaves true what is said of the other calls: they are apart, or
\* wait for the half in which it is made.
LEMMA OthersDo ==
  ASSUME FrameInv, Tree, ArrayInv, Settled, NEW t \in DOMAIN frames, Swap(t),
         NEW u \in DOMAIN frames, u # t
  PROVE  Does(u, arr', frames[u])
<1>1. PICK b : b = arr'
  OBVIOUS
<1>2. PICK h : h = Half(t)
  OBVIOUS
<1>3. PICK i : i = frames[t].i
  OBVIOUS
<1>4. PICK j : j = i + h
  OBVIOUS
<1>5. /\ i \in Index /\ j \in Index /\ i \in Area(t.low, h)
      /\ Swapped(arr, b, i, j, t.dir)
  BY <1>1, <1>2, <1>3, <1>4, SwapSwaps
<1>6. frames[t].at = "swap" /\ Kids(t) = {}
  BY DEF Swap, At, Kids, KidsAt
<1>7. /\ t \in Call /\ h \in Nat /\ t.cnt = 2 * h /\ t.low \in Nat
  BY <1>2, <1>6, Stepping
<1>8. i \in InArea(t) /\ j \in InArea(t)
  BY <1>4, <1>5, <1>7, PartOfHalf DEF InArea
<1>9. /\ u \in Call /\ Power(u.cnt) /\ Does(u, arr, frames[u]) /\ u.low + u.cnt <= N
      /\ frames[u].at # "done" => u.cnt >= 2
      /\ u.low \in Nat /\ u.cnt \in Nat
  BY DEF Settled, FrameInv, Fine, Call
<1>10. \A k \in InArea(u) : k \in Index
  BY <1>9, SortAssumption DEF InArea, Area, Index
<1>11. CASE Apart(t, u) \/ Apart(u, t)
  <2>1. \A k \in InArea(u) : k # i /\ k # j
    BY <1>7, <1>8, <1>9, <1>11 DEF InArea, Area, Apart
  <2>2. \A k \in InArea(u) : b[k] = arr[k]
    BY <1>5, <1>10, <2>1 DEF Swapped
  <2> QED
    BY <1>1, <1>9, <2>2, SameDoes
<1>12. CASE Below(t, u)
  <2>1. PICK k \in Kids(u) : Inside(t, k)
    BY <1>12 DEF Tree
  <2>2. /\ k \in Call /\ u.cnt >= 2 /\ frames[u].at \in {"right", "join", "merging"}
    BY <2>1, KidsFit
  <2>3. CASE u.kind # "merge"
    BY <1>1, <2>2, <2>3 DEF Does
  <2>4. CASE u.kind = "merge"
    <3>1. frames[u].at # "merging"
      BY <2>4 DEF FrameInv, Fine
    <3>2. k \in {Left(u), Right(u)} /\ (frames[u].at = "right" => k = Left(u))
      BY <2>1, <2>2, <3>1 DEF Kids, KidsAt
    <3>3. /\ Half(u) \in Nat /\ u.cnt = 2 * Half(u) /\ u.dir \in {0, 1}
          /\ Left(u).low = u.low /\ Left(u).cnt = Half(u)
          /\ Right(u).low = u.low + Half(u) /\ Right(u).cnt = Half(u)
      BY <1>9, <2>2, HalfAreas
    <3>4. i \in Area(k.low, k.cnt) /\ j \in Area(k.low, k.cnt)
      <4>1. k.low \in Nat /\ k.cnt \in Nat
        BY <2>2 DEF Call
      <4>2. k.low <= t.low /\ t.low + t.cnt <= k.low + k.cnt
        BY <1>7, <2>1, <4>1 DEF Inside, Below
      <4> QED
        BY <1>7, <1>8, <4>1, <4>2 DEF InArea, Area
    <3>5. SplitBy(u, arr) /\ (frames[u].at = "right" => Mixed(Right(u), arr))
      BY <1>9, <2>2, <2>4, <3>1 DEF Does, MergeDoes
    <3>6. SplitBy(u, b)
      <4>1. \/ i \in Area(u.low, Half(u)) /\ j \in Area(u.low, Half(u))
            \/ i \in Area(u.low + Half(u), Half(u)) /\ j \in Area(u.low + Half(u), Half(u))
        BY <3>2, <3>3, <3>4
      <4>2. Area(u.low, 2 * Half(u)) \subseteq Index
        BY <1>10, <3>3 DEF InArea
      <4>3. Split(b, u.low, Half(u), u.dir)
        BY <1>5, <1>9, <3>3, <3>5, <4>1, <4>2, SplitStays DEF SplitBy
      <4> QED
        BY <4>3 DEF SplitBy
    <3>7. ASSUME frames[u].at = "right"
          PROVE  Mixed(Right(u), b)
      <4>1. i \in Area(u.low, Half(u)) /\ j \in Area(u.low, Half(u))
        BY <3>2, <3>3, <3>4, <3>7
      <4>2. \A l \in Area(u.low + Half(u), Half(u)) : l \in Index /\ l # i /\ l # j
        BY <1>9, <1>10, <3>3, <4>1, PartOfHalf DEF InArea, Area
      <4>3. \A l \in Area(u.low + Half(u), Half(u)) : b[l] = arr[l]
        BY <1>5, <4>2 DEF Swapped
      <4> QED
        BY <3>3, <3>5, <3>7, <4>3, SameArea DEF Mixed
    <3>8. Does(u, b, frames[u])
      BY <2>2, <3>1, <3>6, <3>7 DEF Does, MergeDoes
    <3> QED
      BY <1>1, <3>8
  <2> QED
    BY <2>3, <2>4
<1>13. CASE Below(u, t)
  BY <1>6, <1>13 DEF Tree
<1> QED
  BY <1>11, <1>12, <1>13 DEF Tree

LEMMA SwapSettled ==
  ASSUME FrameInv, Tree, ArrayInv, Settled, NEW t \in DOMAIN frames, Swap(t)
  PROVE  Settled'
<1>1. PICK x : x = frames'[t]
  OBVIOUS
<1>2. Changes(t, x, {}, {})
  BY <1>1, SwapChanges
<1>3. DOMAIN frames' = DOMAIN frames /\ \A u \in DOMAIN frames : u # t => frames'[u] = frames[u]
  BY <1>2 DEF Changes
<1>4. \A u \in DOMAIN frames : Power(u.cnt)
  BY DEF Settled
<1>5. \A u \in DOMAIN frames : Does(u, arr', frames'[u])
  BY <1>3, SwapperDoes, OthersDo
<1> QED
  BY <1>3, <1>4, <1>5 DEF Settled

-----------------------------------------------------------------------------
(***************************************************************************)
(* The array has the elements of the input: a swap exchanges two.          *)
(***************************************************************************)
SameElements ==
  \A v \in Values : Cardinality(Places(arr, v)) = Cardinality(Places(input, v))

LEMMA SwapKeeps ==
  ASSUME FrameInv, ArrayInv, NEW t \in DOMAIN frames, Swap(t), NEW v
  PROVE  Cardinality(Places(arr', v)) = Cardinality(Places(arr, v))
<1>1. PICK a : a = arr
  OBVIOUS
<1>2. PICK b : b = arr'
  OBVIOUS
<1>3. PICK i, j \in Index : Swapped(a, b, i, j, t.dir)
  BY <1>1, <1>2, SwapSwaps
<1>4. IsFiniteSet(Places(a, v))
  <2>1. IsFiniteSet(0 .. N - 1)
    BY SortAssumption, FS_Interval
  <2> QED
    BY <2>1, FS_Subset DEF Places, Index
<1>5. \A k \in Index : k # i /\ k # j => b[k] = a[k]
  BY <1>3 DEF Swapped
<1>6. CASE b[i] = a[i] /\ b[j] = a[j]
  <2>1. Places(b, v) = Places(a, v)
    BY <1>5, <1>6 DEF Places
  <2> QED
    BY <1>1, <1>2, <2>1
<1>7. CASE b[i] = a[j] /\ b[j] = a[i]
  <2>1. CASE a[i] = v /\ a[j] # v
    <3>1. i \in Places(a, v) /\ j \notin Places(a, v)
      BY <2>1 DEF Places
    <3>2. Places(b, v) = (Places(a, v) \ {i}) \cup {j}
      BY <1>5, <1>7, <2>1 DEF Places
    <3> QED
      BY <1>1, <1>2, <1>4, <3>1, <3>2, Exchange
  <2>2. CASE a[i] # v /\ a[j] = v
    <3>1. j \in Places(a, v) /\ i \notin Places(a, v)
      BY <2>2 DEF Places
    <3>2. Places(b, v) = (Places(a, v) \ {j}) \cup {i}
      BY <1>5, <1>7, <2>2 DEF Places
    <3> QED
      BY <1>1, <1>2, <1>4, <3>1, <3>2, Exchange
  <2>3. CASE (a[i] = v) <=> (a[j] = v)
    <3>1. Places(b, v) = Places(a, v)
      BY <1>5, <1>7, <2>3 DEF Places
    <3> QED
      BY <1>1, <1>2, <3>1
  <2> QED
    BY <2>1, <2>2, <2>3
<1> QED
  BY <1>3, <1>6, <1>7 DEF Swapped

LEMMA ElementsStep ==
  ASSUME FrameInv, ArrayInv, SameElements, Next
  PROVE  SameElements'
<1>1. PICK t \in DOMAIN frames :
        \/ Swap(t) \/ Ask(t) \/ StartLeft(t) \/ StartRight(t)
        \/ Join(t) \/ Release(t) \/ EndSort(t)
  BY DEF Next
<1>2. UNCHANGED input
  BY <1>1 DEF Swap, Ask, StartLeft, StartRight, Join, Release, EndSort
<1>3. CASE Swap(t)
  BY <1>2, <1>3, SwapKeeps DEF SameElements, Places
<1>4. CASE ~ Swap(t)
  <2>1. UNCHANGED arr
    BY <1>1, <1>4 DEF Ask, StartLeft, StartRight, Join, Release, EndSort
  <2> QED
    BY <1>2, <2>1 DEF SameElements, Places
<1> QED
  BY <1>3, <1>4

-----------------------------------------------------------------------------
(***************************************************************************)
(* The first call sorts.                                                   *)
(***************************************************************************)
LEMMA SettledInit == Init => Settled /\ SameElements
<1> SUFFICES ASSUME Init PROVE Settled /\ SameElements
  OBVIOUS
<1>1. arr \in [Index -> Values] /\ input = arr /\ frames = [u \in {Whole} |-> Entered(u)]
  BY DEF Init
<1>2. Whole \in Call /\ Whole.low = 0 /\ Whole.cnt = N /\ Whole.kind = "sort"
  BY SortAssumption DEF Whole, Call
<1>3. Power(N)
  <2>1. PICK e \in 0 .. N : N \in {0, 2^e}
    BY SortAssumption DEF Accepted
  <2> QED
    BY <2>1, SortAssumption DEF Power
<1>4. Numbers(arr, 0, N)
  <2>1. \A x \in Area(0, N) : x \in Index
    BY SortAssumption DEF Area, Index
  <2> QED
    BY <1>1, <2>1, SortAssumption DEF Numbers
<1>5. Does(Whole, arr, Entered(Whole))
  BY <1>2, <1>3, <1>4, NewDoes
<1>6. DOMAIN frames = {Whole} /\ frames[Whole] = Entered(Whole)
  BY <1>1
<1> QED
  BY <1>1, <1>2, <1>3, <1>5, <1>6 DEF Settled, SameElements

LEMMA SettledNext == SortInv /\ Settled /\ Next => Settled'
<1> SUFFICES ASSUME SortInv, Settled, Next PROVE Settled'
  OBVIOUS
<1>1. ArrayInv /\ FrameInv /\ Tree
  BY DEF SortInv
<1>2. PICK t \in DOMAIN frames :
        \/ Swap(t) \/ Ask(t) \/ StartLeft(t) \/ StartRight(t)
        \/ Join(t) \/ Release(t) \/ EndSort(t)
  BY DEF Next
<1> QED
  BY <1>1, <1>2, SwapSettled, AskSettled, StartLeftSettled, StartRightSettled,
     JoinSettled, ReleaseSettled, EndSortSettled

(***************************************************************************)
(* When the first call returns the array is sorted and has the elements of *)
(* the input, whatever threads did the work, for an array of any length    *)
(* that main accepts and any integers (main.cpp:131-145).                  *)
(***************************************************************************)
THEOREM ArraySorted == Spec => []SortedAtEnd
<1>1. Init => Settled /\ SameElements
  BY SettledInit
<1>2. SortInv /\ Settled /\ SameElements /\ [Next]_vars => Settled' /\ SameElements'
  <2> SUFFICES ASSUME SortInv, Settled, SameElements, [Next]_vars
               PROVE  Settled' /\ SameElements'
    OBVIOUS
  <2>1. CASE Next
    <3>1. FrameInv /\ ArrayInv
      BY DEF SortInv
    <3> QED
      BY <2>1, <3>1, SettledNext, ElementsStep
  <2>2. CASE UNCHANGED vars
    BY <2>2 DEF vars, Settled, SameElements, Places
  <2> QED
    BY <2>1, <2>2
<1>3. Settled /\ SameElements => SortedAtEnd
  <2> SUFFICES ASSUME Settled, SameElements, Done(Whole) PROVE SortedAtEnd
    BY DEF SortedAtEnd
  <2>1. Sorts(Whole, arr)
    BY DEF Settled, Does, Done, At
  <2>2. Whole.low = 0 /\ Whole.cnt = N /\ Whole.dir = 1
    BY DEF Whole
  <2>3. \A x \in Index : x \in Area(0, N)
    BY SortAssumption DEF Area, Index
  <2> QED
    BY <2>1, <2>2, <2>3 DEF SortedAtEnd, Sorts, SortedIn, InOrder, SameElements
<1> QED
  BY <1>1, <1>2, <1>3, SpecInv, PTL DEF Spec
===============================================================================
