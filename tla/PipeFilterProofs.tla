--------------------------- MODULE PipeFilterProofs ---------------------------
(***************************************************************************)
(* Proofs about Lab1, for any number of lines, any capacity of the pipes   *)
(* and any number of failing processes: it splits the input as             *)
(* LineSplitter promises, loses nothing if nothing fails, and a pipe       *)
(* breaks only if a child has failed.                                      *)
(***************************************************************************)
EXTENDS PipeFilter, SequenceTheorems, TLAPS

-----------------------------------------------------------------------------
(***************************************************************************)
(* The inductive invariant.  The lines on their way: a pipe keeps the      *)
(* order of the input and holds only lines later than those its child has  *)
(* written; no line is in two places, and none that was read is nowhere.   *)
(***************************************************************************)
InPipe(c, n) == \E i \in DOMAIN pipe[c] : pipe[c][i] = n

At(c, n) == n \in written[c] \/ InPipe(c, n)

InOrder ==
  \A c \in Child : \A i \in DOMAIN pipe[c] :
    /\ \A j \in DOMAIN pipe[c] : i < j => pipe[c][i] < pipe[c][j]
    /\ \A m \in written[c] : m < pipe[c][i]

Apart == \A c, d \in Child : \A n \in 1 .. Lines : At(c, n) /\ At(d, n) => c = d

Accounted ==
  \A n \in 1 .. Lines : n < next <=> \E c \in Child : At(c, n)

(***************************************************************************)
(* The descriptors: the parent can write as long as it forks or feeds, a   *)
(* child reads its own pipe until it ends, and it ends of itself only when *)
(* nobody can write to it any more.                                        *)
(***************************************************************************)
Writing == {"fork1", "fork2", "close", "feed"}

Places ==
  /\ pc[0] \in Writing \cup {"wait1", "wait2"} \cup Ended
  /\ \A c \in Child : pc[c] \in {"unborn", "setup", "open", "read"} \cup Ended
  /\ pc[0] \in {"fork2", "close", "feed"} => pc[1] # "unborn"
  /\ pc[0] \in {"close", "feed"} => pc[2] # "unborn"

Descriptors ==
  \A c \in Child :
    /\ pc[0] \in Writing => 0 \in writers[c]
    /\ pc[c] \in {"setup", "open", "read"} => c \in readers[c]
    /\ pc[c] = "exited" => writers[c] = {} /\ pipe[c] = <<>>

(***************************************************************************)
(* How far the parent is: it waits only after the last line, and at its    *)
(* end both children have ended.                                           *)
(***************************************************************************)
Progress ==
  /\ pc[0] \in {"wait1", "wait2", "exited"} => next = Lines + 1
  /\ pc[0] \in {"wait2", "exited"} => pc[1] \in Ended
  /\ pc[0] = "exited" => pc[2] \in Ended
  /\ \A p \in Process : pc[p] = "failed" => failures > 0

LinesInv   == InOrder /\ Apart /\ Accounted
ProcessInv == Places /\ Descriptors /\ Progress

FilterInv == TypeOK /\ LinesInv /\ ProcessInv

-----------------------------------------------------------------------------
LEMMA InitInv == Init => FilterInv
<1> SUFFICES ASSUME Init
             PROVE  FilterInv
  OBVIOUS
<1>1. TypeOK
  BY PipeAssumption, EmptySeq DEF Init, TypeOK, Process, Child, Ended
<1>2. LinesInv
  BY DEF Init, LinesInv, InOrder, Apart, Accounted, At, InPipe
<1>3. ProcessInv
  BY DEF Init, ProcessInv, Places, Descriptors, Progress, Writing, Process, Child, Ended
<1> QED
  BY <1>1, <1>2, <1>3 DEF FilterInv

-----------------------------------------------------------------------------
(***************************************************************************)
(* What a step does to the lines: a line enters a pipe, a line goes from a *)
(* pipe to the file of its child, or nothing moves.                        *)
(***************************************************************************)
LEMMA LinesMove ==
  Next => \/ \E c \in Child : Feed(c)
          \/ \E c \in Child : Filter(c)
          \/ UNCHANGED <<pipe, next, written>>
BY DEF Next, ParentStep, ChildStep, CloseReadEnds, CloseWriteEnds, Fork,
       BrokenPipe, Wait, ForkFails, Setup, OpenFile, EndOfInput, ChildFails

\* A pipe into which line n was put.
LEMMA FeedFacts ==
  ASSUME TypeOK, NEW c \in Child, Feed(c)
  PROVE  /\ next \in 1 .. Lines /\ next' = next + 1
         /\ pipe' \in [Child -> Seq(1 .. Lines)]
         /\ DOMAIN pipe'[c] = 1 .. Len(pipe[c]) + 1
         /\ DOMAIN pipe[c] = 1 .. Len(pipe[c]) /\ Len(pipe[c]) \in Nat
         /\ \A i \in DOMAIN pipe[c] : pipe'[c][i] = pipe[c][i]
         /\ pipe'[c][Len(pipe[c]) + 1] = next
         /\ \A d \in Child \ {c} : pipe'[d] = pipe[d]
         /\ written' = written
<1>1. next \in 1 .. Lines
  BY PipeAssumption DEF Feed, TypeOK
<1>2. pipe[c] \in Seq(1 .. Lines)
  BY DEF TypeOK
<1>3. pipe' = [pipe EXCEPT ![c] = Append(pipe[c], next)]
  BY DEF Feed
<1>4. /\ Append(pipe[c], next) \in Seq(1 .. Lines)
      /\ Len(Append(pipe[c], next)) = Len(pipe[c]) + 1
      /\ \A i \in 1 .. Len(pipe[c]) : Append(pipe[c], next)[i] = pipe[c][i]
      /\ Append(pipe[c], next)[Len(pipe[c]) + 1] = next
  BY <1>1, <1>2, AppendProperties
<1>5. pipe'[c] = Append(pipe[c], next)
  BY <1>3 DEF TypeOK
<1>6. DOMAIN pipe[c] = 1 .. Len(pipe[c]) /\ Len(pipe[c]) \in Nat
  BY <1>2, LenProperties
<1>7. DOMAIN pipe'[c] = 1 .. Len(pipe[c]) + 1
  BY <1>4, <1>5, LenProperties
<1>8. pipe' \in [Child -> Seq(1 .. Lines)]
  BY <1>3, <1>4 DEF TypeOK
<1> QED
  BY <1>1, <1>3, <1>4, <1>5, <1>6, <1>7, <1>8 DEF Feed, TypeOK

\* A pipe of which the first line was taken.
LEMMA FilterFacts ==
  ASSUME TypeOK, NEW c \in Child, Filter(c)
  PROVE  /\ pipe' \in [Child -> Seq(1 .. Lines)]
         /\ Len(pipe[c]) \in Nat \ {0} /\ DOMAIN pipe[c] = 1 .. Len(pipe[c])
         /\ DOMAIN pipe'[c] = 1 .. Len(pipe[c]) - 1
         /\ \A i \in 1 .. Len(pipe[c]) - 1 : pipe'[c][i] = pipe[c][i + 1]
         /\ Head(pipe[c]) = pipe[c][1] /\ pipe[c][1] \in 1 .. Lines
         /\ \A d \in Child \ {c} : pipe'[d] = pipe[d] /\ written'[d] = written[d]
         /\ written'[c] = written[c] \cup {pipe[c][1]}
         /\ next' = next
<1>1. pipe[c] \in Seq(1 .. Lines) /\ pipe[c] # <<>>
  BY DEF TypeOK, Filter
<1>2. pipe' = [pipe EXCEPT ![c] = Tail(pipe[c])]
  BY DEF Filter
<1>3. /\ Head(pipe[c]) \in 1 .. Lines
      /\ Tail(pipe[c]) \in Seq(1 .. Lines)
      /\ Len(Tail(pipe[c])) = Len(pipe[c]) - 1
      /\ \A i \in 1 .. Len(Tail(pipe[c])) : Tail(pipe[c])[i] = pipe[c][i + 1]
  BY <1>1, HeadTailProperties
<1>4. pipe'[c] = Tail(pipe[c])
  BY <1>2 DEF TypeOK
<1>5. Len(pipe[c]) \in Nat \ {0} /\ DOMAIN pipe[c] = 1 .. Len(pipe[c])
  BY <1>1, LenProperties, EmptySeq
<1>6. DOMAIN pipe'[c] = 1 .. Len(pipe[c]) - 1
  BY <1>3, <1>4, LenProperties
<1>7. Head(pipe[c]) = pipe[c][1]
  BY <1>1
<1>8. pipe' \in [Child -> Seq(1 .. Lines)]
  BY <1>2, <1>3 DEF TypeOK
<1>9. written'[c] = written[c] \cup {Head(pipe[c])}
  BY DEF Filter, TypeOK
<1> QED
  BY <1>2, <1>3, <1>4, <1>5, <1>6, <1>7, <1>8, <1>9 DEF Filter, TypeOK

-----------------------------------------------------------------------------
(***************************************************************************)
(* The lines stay in order, apart and accounted for.                       *)
(***************************************************************************)
LEMMA FeedKeepsLines ==
  ASSUME FilterInv, NEW c \in Child, Feed(c)
  PROVE  LinesInv'
<1> DEFINE last == Len(pipe[c]) + 1
<1>1. TypeOK /\ InOrder /\ Apart /\ Accounted
  BY DEF FilterInv, LinesInv
<1>2. /\ next \in 1 .. Lines /\ next' = next + 1 /\ written' = written
      /\ DOMAIN pipe'[c] = DOMAIN pipe[c] \cup {last}
      /\ last \in Nat /\ last \notin DOMAIN pipe[c]
      /\ \A i \in DOMAIN pipe[c] : i \in Nat /\ i < last
      /\ \A i \in DOMAIN pipe[c] : pipe'[c][i] = pipe[c][i]
      /\ pipe'[c][last] = next
      /\ \A d \in Child \ {c} : pipe'[d] = pipe[d]
  BY <1>1, FeedFacts
<1>3. \A d \in Child : /\ \A i \in DOMAIN pipe[d] : pipe[d][i] \in 1 .. Lines
                       /\ written[d] \subseteq 1 .. Lines
  BY <1>1, LenProperties, ElementOfSeq DEF TypeOK
<1>4. \A d \in Child : \A n \in 1 .. Lines : At(d, n) => n < next
  BY <1>1 DEF Accounted
<1> HIDE DEF last
<1>5. \A d \in Child : /\ \A i \in DOMAIN pipe[d] : pipe[d][i] < next
                       /\ \A m \in written[d] : m < next
  BY <1>3, <1>4 DEF At, InPipe
<1>6. InOrder'
  <2> SUFFICES ASSUME NEW d \in Child, NEW i \in DOMAIN pipe'[d]
               PROVE  /\ \A j \in DOMAIN pipe'[d] : i < j => pipe'[d][i] < pipe'[d][j]
                      /\ \A m \in written'[d] : m < pipe'[d][i]
    BY DEF InOrder
  <2>1. CASE d # c
    BY <1>1, <1>2, <2>1 DEF InOrder
  <2>2. CASE d = c /\ i = last
    BY <1>2, <1>5, <2>2
  <2>3. CASE d = c /\ i # last
    BY <1>1, <1>2, <1>5, <2>3 DEF InOrder
  <2> QED
    BY <2>1, <2>2, <2>3
<1>7. \A d \in Child : \A n : At(d, n)' <=> At(d, n) \/ (d = c /\ n = next)
  BY <1>2 DEF At, InPipe
<1>8. Apart'
  BY <1>1, <1>4, <1>7, <1>2 DEF Apart
<1>9. Accounted'
  BY <1>1, <1>2, <1>7 DEF Accounted
<1> QED
  BY <1>6, <1>8, <1>9 DEF LinesInv

LEMMA FilterKeepsLines ==
  ASSUME FilterInv, NEW c \in Child, Filter(c)
  PROVE  LinesInv'
<1> DEFINE first == pipe[c][1]
           size  == Len(pipe[c])
<1>1. TypeOK /\ InOrder /\ Apart /\ Accounted
  BY DEF FilterInv, LinesInv
<1>2. /\ size \in Nat \ {0} /\ DOMAIN pipe[c] = 1 .. size
      /\ DOMAIN pipe'[c] = 1 .. size - 1
      /\ \A i \in 1 .. size - 1 : pipe'[c][i] = pipe[c][i + 1]
      /\ \A d \in Child \ {c} : pipe'[d] = pipe[d] /\ written'[d] = written[d]
      /\ written'[c] = written[c] \cup {first}
      /\ next' = next
  BY <1>1, FilterFacts
<1>3. \A i \in 1 .. size : /\ \A j \in 1 .. size : i < j => pipe[c][i] < pipe[c][j]
                          /\ \A m \in written[c] : m < pipe[c][i]
  BY <1>1, <1>2 DEF InOrder
<1> HIDE DEF first, size
<1>4. InOrder'
  <2> SUFFICES ASSUME NEW d \in Child, NEW i \in DOMAIN pipe'[d]
               PROVE  /\ \A j \in DOMAIN pipe'[d] : i < j => pipe'[d][i] < pipe'[d][j]
                      /\ \A m \in written'[d] : m < pipe'[d][i]
    BY DEF InOrder
  <2>1. CASE d # c
    BY <1>1, <1>2, <2>1 DEF InOrder
  <2>2. CASE d = c
    <3>1. /\ i \in 1 .. size - 1 /\ i + 1 \in 1 .. size
          /\ 1 \in 1 .. size /\ 1 < i + 1
      BY <1>2, <2>2
    <3>2. \A j \in 1 .. size - 1 : j + 1 \in 1 .. size /\ (i < j => i + 1 < j + 1)
      BY <1>2, <3>1
    <3>3. first < pipe[c][i + 1]
      BY <1>3, <3>1 DEF first
    <3> QED
      BY <1>2, <1>3, <2>2, <3>1, <3>2, <3>3
  <2> QED
    BY <2>1, <2>2
<1>5. ASSUME NEW n
      PROVE  InPipe(c, n) <=> n = first \/ InPipe(c, n)'
  <2>1. 1 \in 1 .. size /\ \A i \in 1 .. size - 1 : i + 1 \in 1 .. size
    BY <1>2
  <2>2. \A i \in 1 .. size : i = 1 \/ (i - 1 \in 1 .. size - 1 /\ (i - 1) + 1 = i)
    BY <1>2
  <2>3. InPipe(c, n) => n = first \/ InPipe(c, n)'
    <3> SUFFICES ASSUME NEW i \in 1 .. size, pipe[c][i] = n, i # 1
                 PROVE  InPipe(c, n)'
      BY <1>2 DEF InPipe, first
    <3>1. i - 1 \in DOMAIN pipe'[c] /\ pipe'[c][i - 1] = n
      BY <1>2, <2>2
    <3> QED
      BY <3>1 DEF InPipe
  <2>4. n = first \/ InPipe(c, n)' => InPipe(c, n)
    BY <1>2, <2>1 DEF InPipe, first
  <2> QED
    BY <2>3, <2>4
<1>6. \A d \in Child : \A n : At(d, n)' <=> At(d, n)
  <2> SUFFICES ASSUME NEW d \in Child, NEW n
               PROVE  At(d, n)' <=> At(d, n)
    OBVIOUS
  <2>1. CASE d = c
    BY <1>2, <1>5, <2>1 DEF At
  <2>2. CASE d # c
    BY <1>2, <2>2 DEF At, InPipe
  <2> QED
    BY <2>1, <2>2
<1>7. Apart' /\ Accounted'
  BY <1>1, <1>2, <1>6 DEF Apart, Accounted
<1> QED
  BY <1>4, <1>7 DEF LinesInv

LEMMA LinesStep == FilterInv /\ Next => LinesInv'
<1> SUFFICES ASSUME FilterInv, Next
             PROVE  LinesInv'
  OBVIOUS
<1>1. CASE UNCHANGED <<pipe, next, written>>
  BY <1>1 DEF FilterInv, LinesInv, InOrder, Apart, Accounted, At, InPipe
<1> QED
  BY <1>1, LinesMove, FeedKeepsLines, FilterKeepsLines

-----------------------------------------------------------------------------
(***************************************************************************)
(* Types.                                                                  *)
(***************************************************************************)
LEMMA TypeStep == FilterInv /\ Next => TypeOK'
<1> SUFFICES ASSUME TypeOK, Next
             PROVE  TypeOK'
  BY DEF FilterInv
<1>1. pipe' \in [Child -> Seq(1 .. Lines)] /\ written' \in [Child -> SUBSET (1 .. Lines)]
  <2>1. CASE \E c \in Child : Feed(c)
    BY <2>1, FeedFacts DEF TypeOK
  <2>2. ASSUME NEW c \in Child, Filter(c)
        PROVE  /\ pipe' \in [Child -> Seq(1 .. Lines)]
               /\ written' \in [Child -> SUBSET (1 .. Lines)]
    <3>1. pipe' \in [Child -> Seq(1 .. Lines)]
      BY <2>2, FilterFacts
    <3>2. written' = [written EXCEPT ![c] = @ \cup {Head(pipe[c])}]
      BY <2>2 DEF Filter
    <3>3. Head(pipe[c]) \in 1 .. Lines
      BY <2>2, FilterFacts
    <3> QED
      BY <3>1, <3>2, <3>3 DEF TypeOK
  <2>3. CASE UNCHANGED <<pipe, next, written>>
    BY <2>3 DEF TypeOK
  <2> QED
    BY <2>1, <2>2, <2>3, LinesMove
<1>2. next' \in 1 .. Lines + 1
  <2>1. CASE \E c \in Child : Feed(c)
    BY <2>1, FeedFacts, PipeAssumption
  <2>2. CASE \E c \in Child : Filter(c)
    BY <2>2, FilterFacts DEF TypeOK
  <2>3. CASE UNCHANGED <<pipe, next, written>>
    BY <2>3 DEF TypeOK
  <2> QED
    BY <2>1, <2>2, <2>3, LinesMove
<1>3. /\ pc' \in [Process -> {"unborn", "fork1", "fork2", "setup", "open", "read",
                              "feed", "close", "wait1", "wait2"} \cup Ended]
      /\ readers' \in [Child -> SUBSET Process]
      /\ writers' \in [Child -> SUBSET Process]
      /\ failures' \in Nat
  BY DEF TypeOK, Next, ParentStep, ChildStep, CloseReadEnds, CloseWriteEnds, Fork,
         BrokenPipe, Wait, ForkFails, Setup, OpenFile, EndOfInput, ChildFails, Exit,
         Feed, Filter, Process, Child, Ended, Other
<1> QED
  BY <1>1, <1>2, <1>3 DEF TypeOK

-----------------------------------------------------------------------------
(***************************************************************************)
(* Processes and descriptors, action by action.                            *)
(***************************************************************************)
LEMMA ProcessStep == FilterInv /\ Next => ProcessInv'
<1> SUFFICES ASSUME FilterInv, Next
             PROVE  ProcessInv'
  OBVIOUS
<1> USE DEF ProcessInv, Places, Descriptors, Progress, Writing, Ended, Child, Process
<1>1. TypeOK /\ ProcessInv
  BY DEF FilterInv
<1>2. CASE CloseReadEnds
  BY <1>1, <1>2 DEF CloseReadEnds, TypeOK
<1>3. CASE CloseWriteEnds
  BY <1>1, <1>3 DEF CloseWriteEnds, TypeOK
<1>4. ASSUME NEW c \in Child, Fork(c)
      PROVE  ProcessInv'
  BY <1>1, <1>4 DEF Fork, TypeOK
<1>5. ASSUME NEW c \in Child, Feed(c)
      PROVE  ProcessInv'
  BY <1>1, <1>5, PipeAssumption DEF Feed, TypeOK
<1>6. ASSUME NEW c \in Child, BrokenPipe(c)
      PROVE  ProcessInv'
  BY <1>1, <1>6 DEF BrokenPipe, Exit, TypeOK
<1>7. ASSUME NEW c \in Child, Wait(c)
      PROVE  ProcessInv'
  BY <1>1, <1>7 DEF Wait, Exit, TypeOK
<1>8. CASE ForkFails
  BY <1>1, <1>8 DEF ForkFails, Exit, TypeOK
<1>9. ASSUME NEW c \in Child, Setup(c)
      PROVE  ProcessInv'
  BY <1>1, <1>9 DEF Setup, Other, TypeOK
<1>10. ASSUME NEW c \in Child, OpenFile(c)
       PROVE  ProcessInv'
  BY <1>1, <1>10 DEF OpenFile, TypeOK
<1>11. ASSUME NEW c \in Child, Filter(c)
       PROVE  ProcessInv'
  BY <1>1, <1>11 DEF Filter, TypeOK
<1>12. ASSUME NEW c \in Child, EndOfInput(c)
       PROVE  ProcessInv'
  BY <1>1, <1>12 DEF EndOfInput, Exit, TypeOK
<1>13. ASSUME NEW c \in Child, ChildFails(c)
       PROVE  ProcessInv'
  BY <1>1, <1>13 DEF ChildFails, Exit, TypeOK
<1> QED
  BY <1>2, <1>3, <1>4, <1>5, <1>6, <1>7, <1>8, <1>9, <1>10, <1>11, <1>12, <1>13
  DEF Next, ParentStep, ChildStep

LEMMA SpecInv == Spec => []FilterInv
<1>1. FilterInv /\ UNCHANGED vars => FilterInv'
  BY DEF vars, FilterInv, TypeOK, LinesInv, InOrder, Apart, Accounted, At, InPipe,
         ProcessInv, Places, Descriptors, Progress
<1>2. FilterInv /\ [Next]_vars => FilterInv'
  BY <1>1, TypeStep, LinesStep, ProcessStep DEF FilterInv
<1> QED
  BY <1>2, InitInv, PTL DEF Spec

-----------------------------------------------------------------------------
(***************************************************************************)
(* Types are kept.                                                         *)
(***************************************************************************)
THEOREM TypeCorrect == Spec => []TypeOK
<1>1. FilterInv => TypeOK
  BY DEF FilterInv
<1> QED
  BY <1>1, SpecInv, PTL

(***************************************************************************)
(* When the parent ends as it should and nothing failed, every line is in  *)
(* a file (parent.c:72-87).                                                *)
(***************************************************************************)
THEOREM NothingEverLost == Spec => []NothingLost
<1>1. ASSUME FilterInv, pc[0] = "exited", failures = 0
      PROVE  written[1] \cup written[2] = 1 .. Lines
  <2>1. \A c \in Child : pc[c] = "exited" /\ pipe[c] = <<>>
    BY <1>1 DEF FilterInv, ProcessInv, Progress, Descriptors, Ended, Child, Process
  <2>2. \A c \in Child, n \in 1 .. Lines : ~ InPipe(c, n)
    BY <2>1 DEF InPipe
  <2>3. next = Lines + 1
    BY <1>1 DEF FilterInv, ProcessInv, Progress
  <2>4. \A n \in 1 .. Lines : \E c \in Child : n \in written[c]
    BY <1>1, <2>2, <2>3, PipeAssumption DEF FilterInv, LinesInv, Accounted, At
  <2> QED
    BY <1>1, <2>4 DEF FilterInv, TypeOK, Child
<1> QED
  BY <1>1, SpecInv, PTL DEF NothingLost

(***************************************************************************)
(* A broken pipe ends the parent only after the failure of a child         *)
(* (parent.c:39-43, 56-60, 74-76).                                         *)
(***************************************************************************)
THEOREM PipesBreakByFailure == Spec => []BrokenOnlyByFailure
<1>1. FilterInv => BrokenOnlyByFailure
  BY DEF FilterInv, ProcessInv, Progress, BrokenOnlyByFailure, Process
<1> QED
  BY <1>1, SpecInv, PTL

(***************************************************************************)
(* Lab1 implements LineSplitter: what a child writes is a line that no     *)
(* child has written, and later than all it has written itself; every      *)
(* other step is a stutter.                                                *)
(***************************************************************************)
THEOREM SplitsAsPromised == Spec => Splits
<1>1. Init => Splitter!Init
  BY DEF Init, Splitter!Init, Splitter!Child, Child
<1>2. ASSUME FilterInv, NEW c \in Child, Filter(c)
      PROVE  Splitter!Next
  <2> DEFINE n == pipe[c][1]
  <2>1. /\ TypeOK /\ InOrder /\ Apart
        /\ 1 \in DOMAIN pipe[c] /\ Head(pipe[c]) = n /\ n \in 1 .. Lines
    BY <1>2, FilterFacts DEF FilterInv, LinesInv
  <2>2. \A m \in written[c] : m < n
    BY <2>1 DEF InOrder
  <2>3. At(c, n)
    BY <2>1 DEF At, InPipe
  <2>4. \A d \in Child : n \notin written[d]
    BY <2>1, <2>2, <2>3 DEF Apart, At
  <2>5. written' = [written EXCEPT ![c] = @ \cup {n}]
    BY <1>2, <2>1 DEF Filter
  <2> QED
    BY <2>1, <2>2, <2>4, <2>5 DEF Splitter!Next, Splitter!Write, Splitter!Child, Child
<1>3. FilterInv /\ [Next]_vars => [Splitter!Next]_written
  <2> SUFFICES ASSUME FilterInv, [Next]_vars
               PROVE  [Splitter!Next]_written
    OBVIOUS
  <2>1. CASE \E c \in Child : Feed(c)
    BY <2>1 DEF Feed
  <2>2. CASE UNCHANGED vars
    BY <2>2 DEF vars
  <2> QED
    BY <1>2, <2>1, <2>2, LinesMove
<1> QED
  BY <1>1, <1>3, SpecInv, PTL DEF Spec, Splits, Splitter!Spec
=============================================================================
