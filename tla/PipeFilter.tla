------------------------------ MODULE PipeFilter ------------------------------
(***************************************************************************)
(* Lab1: a parent deals the lines of its input out to two children over    *)
(* two pipes.  A child sees the end of its input only when every process   *)
(* has closed its copies of the pipe's write end, and fork() copies all    *)
(* descriptors, so the closes decide whether the program ends.             *)
(*                                                                         *)
(* A line is shorter than MAX_LINE, so that a write to a pipe is atomic.   *)
(* After the file names, scanf leaves a newline behind, which fgets takes  *)
(* for the first line: the input here starts with it.  A written line is   *)
(* one the child has handed to its output stream; what a killed child has  *)
(* in its stdio buffer is lost, and no property speaks of it.              *)
(***************************************************************************)
EXTENDS Naturals, Sequences

CONSTANTS
  Lines,        \* how many lines the input has
  Capacity,     \* how many lines fit into a pipe
  MaxFailures   \* bound on failing forks and children

ASSUME PipeAssumption ==
  Lines \in Nat /\ Capacity \in Nat \ {0} /\ MaxFailures \in Nat

Child   == {1, 2}
Process == {0, 1, 2}   \* the parent is 0
Other(c) == 3 - c

VARIABLES
  pc,         \* pc[p]: what process p does next
  readers,    \* readers[c]: who has pipe c open for reading
  writers,    \* writers[c]: who has pipe c open for writing
  pipe,       \* pipe[c]: the lines in pipe c
  next,       \* the line that fgets returns next in the parent
  written,    \* written[c]: the lines in the file of child c
  failures    \* how many forks and children have failed

vars == <<pc, readers, writers, pipe, next, written, failures>>

Ended == {"exited", "failed"}

TypeOK ==
  /\ pc \in [Process -> {"unborn", "fork1", "fork2", "setup", "open", "read",
                         "feed", "close", "wait1", "wait2"} \cup Ended]
  /\ readers \in [Child -> SUBSET Process]
  /\ writers \in [Child -> SUBSET Process]
  /\ pipe \in [Child -> Seq(1 .. Lines)]
  /\ next \in 1 .. Lines + 1
  /\ written \in [Child -> SUBSET (1 .. Lines)]
  /\ failures \in Nat

Init ==
  /\ pc = [p \in Process |-> IF p = 0 THEN "fork1" ELSE "unborn"]
  /\ readers = [c \in Child |-> {0}]
  /\ writers = [c \in Child |-> {0}]
  /\ pipe = [c \in Child |-> <<>>]
  /\ next = 1
  /\ written = [c \in Child |-> {}]
  /\ failures = 0

-----------------------------------------------------------------------------
\* The kernel closes what a process has open when it ends.
Exit(p, how) ==
  /\ pc' = [pc EXCEPT ![p] = how]
  /\ readers' = [c \in Child |-> readers[c] \ {p}]
  /\ writers' = [c \in Child |-> writers[c] \ {p}]

\* fork() number c: the child has open what the parent has.
Fork(c) ==
  /\ pc[0] = IF c = 1 THEN "fork1" ELSE "fork2"
  /\ pc' = [pc EXCEPT ![0] = IF c = 1 THEN "fork2" ELSE "close",
                      ![c] = "setup"]
  /\ readers' = [d \in Child |-> readers[d] \cup {c}]
  /\ writers' = [d \in Child |-> writers[d] \cup {c}]
  /\ UNCHANGED <<pipe, next, written, failures>>

ForkFails ==
  /\ pc[0] \in {"fork1", "fork2"}
  /\ failures < MaxFailures
  /\ failures' = failures + 1
  /\ Exit(0, "failed")
  /\ UNCHANGED <<pipe, next, written>>

\* After both forks the parent closes its read ends.
CloseReadEnds ==
  /\ pc[0] = "close"
  /\ pc' = [pc EXCEPT ![0] = "feed"]
  /\ readers' = [c \in Child |-> readers[c] \ {0}]
  /\ UNCHANGED <<writers, pipe, next, written, failures>>

\* Mutant: one line too many is read.
FeedBeyondEnd(c) ==
  /\ pc[0] = "feed"
  /\ next <= Lines + 1
  /\ readers[c] # {}
  /\ Len(pipe[c]) < Capacity
  /\ pipe' = [pipe EXCEPT ![c] = Append(@, next)]
  /\ next' = next + 1
  /\ UNCHANGED <<pc, readers, writers, written, failures>>

\* A line goes to a pipe drawn by lot; a full pipe blocks the parent.
Feed(c) ==
  /\ pc[0] = "feed"
  /\ next <= Lines
  /\ readers[c] # {}
  /\ Len(pipe[c]) < Capacity
  /\ pipe' = [pipe EXCEPT ![c] = Append(@, next)]
  /\ next' = next + 1
  /\ UNCHANGED <<pc, readers, writers, written, failures>>

\* Nobody reads the pipe any more: SIGPIPE ends the parent.
BrokenPipe(c) ==
  /\ pc[0] = "feed"
  /\ next <= Lines
  /\ readers[c] = {}
  /\ Exit(0, "failed")
  /\ UNCHANGED <<pipe, next, written, failures>>

\* End of the input: the parent closes its write ends ...
CloseWriteEnds ==
  /\ pc[0] = "feed"
  /\ next > Lines
  /\ pc' = [pc EXCEPT ![0] = "wait1"]
  /\ writers' = [c \in Child |-> writers[c] \ {0}]
  /\ UNCHANGED <<readers, pipe, next, written, failures>>

\* ... and waits for the first child, then for the second.
Wait(c) ==
  /\ pc[0] = IF c = 1 THEN "wait1" ELSE "wait2"
  /\ pc[c] \in Ended
  /\ IF c = 1
     THEN /\ pc' = [pc EXCEPT ![0] = "wait2"]
          /\ UNCHANGED <<readers, writers>>
     ELSE Exit(0, "exited")
  /\ UNCHANGED <<pipe, next, written, failures>>

-----------------------------------------------------------------------------
\* Mutant: the child keeps its copy of the write end of its own pipe.
SetupKeepsWriteEnd(c) ==
  /\ pc[c] = "setup"
  /\ pc' = [pc EXCEPT ![c] = "open"]
  /\ readers' = [readers EXCEPT ![Other(c)] = @ \ {c}]
  /\ writers' = [writers EXCEPT ![Other(c)] = @ \ {c}]
  /\ UNCHANGED <<pipe, next, written, failures>>

\* What child c does before exec: it keeps the read end of its own pipe, as
\* standard input, and closes the rest.
Setup(c) ==
  /\ pc[c] = "setup"
  /\ pc' = [pc EXCEPT ![c] = "open"]
  /\ readers' = [readers EXCEPT ![Other(c)] = @ \ {c}]
  /\ writers' = [d \in Child |-> writers[d] \ {c}]
  /\ UNCHANGED <<pipe, next, written, failures>>

\* The output file is open, and the child starts to read.
OpenFile(c) ==
  /\ pc[c] = "open"
  /\ pc' = [pc EXCEPT ![c] = "read"]
  /\ UNCHANGED <<readers, writers, pipe, next, written, failures>>

\* exec or fopen fails, or somebody kills the child.
ChildFails(c) ==
  /\ pc[c] \in {"setup", "open", "read"}
  /\ failures < MaxFailures
  /\ failures' = failures + 1
  /\ Exit(c, "failed")
  /\ UNCHANGED <<pipe, next, written>>

\* Mutant: the child takes the newest line.
FilterNewest(c) ==
  /\ pc[c] = "read"
  /\ pipe[c] # <<>>
  /\ written' = [written EXCEPT ![c] = @ \cup {pipe[c][Len(pipe[c])]}]
  /\ pipe' = [pipe EXCEPT ![c] = SubSeq(@, 1, Len(@) - 1)]
  /\ UNCHANGED <<pc, readers, writers, next, failures>>

\* A line is read, filtered and written.
Filter(c) ==
  /\ pc[c] = "read"
  /\ pipe[c] # <<>>
  /\ written' = [written EXCEPT ![c] = @ \cup {Head(pipe[c])}]
  /\ pipe' = [pipe EXCEPT ![c] = Tail(@)]
  /\ UNCHANGED <<pc, readers, writers, next, failures>>

\* Mutant: an empty pipe is taken for the end of the input.
EndOfInputEarly(c) ==
  /\ pc[c] = "read"
  /\ pipe[c] = <<>>
  /\ Exit(c, "exited")
  /\ UNCHANGED <<pipe, next, written, failures>>

\* End of file: the pipe is empty and nobody can write to it any more.
EndOfInput(c) ==
  /\ pc[c] = "read"
  /\ pipe[c] = <<>>
  /\ writers[c] = {}
  /\ Exit(c, "exited")
  /\ UNCHANGED <<pipe, next, written, failures>>

ParentStep ==
  \/ CloseReadEnds
  \/ CloseWriteEnds
  \/ \E c \in Child : Fork(c) \/ Feed(c) \/ BrokenPipe(c) \/ Wait(c)

ChildStep(c) == Setup(c) \/ OpenFile(c) \/ Filter(c) \/ EndOfInput(c)

Next ==
  \/ ParentStep
  \/ ForkFails
  \/ \E c \in Child : ChildStep(c) \/ ChildFails(c)

Spec == Init /\ [][Next]_vars

\* The scheduler runs every process, and the input ends; nothing has to fail.
FairSpec == Spec /\ WF_vars(ParentStep) /\ \A c \in Child : WF_vars(ChildStep(c))

-----------------------------------------------------------------------------
(***************************************************************************)
(* Lab1 keeps the promise of module LineSplitter, whichever process fails. *)
(***************************************************************************)
Splitter == INSTANCE LineSplitter
Splits == Splitter!Spec

(***************************************************************************)
(* When the parent says "all processes have finished" and nothing failed,  *)
(* every line is in a file (parent.c:72-87).                               *)
(***************************************************************************)
NothingLost ==
  pc[0] = "exited" /\ failures = 0 => written[1] \cup written[2] = 1 .. Lines

(***************************************************************************)
(* The parent is ended by a broken pipe only if some child failed before:  *)
(* no child closes its read end while the parent has something to say      *)
(* (parent.c:39-43, 56-60, 74-76).                                         *)
(***************************************************************************)
BrokenOnlyByFailure == pc[0] = "failed" => failures > 0

(***************************************************************************)
(* Whatever fails, every process that was started ends: nobody waits for   *)
(* the end of a pipe that a forgotten descriptor keeps open                *)
(* (parent.c:39-43, 56-60, 67-68, 80-85).                                  *)
(***************************************************************************)
EverybodyEnds == <>[](\A p \in Process : pc[p] \in Ended \cup {"unborn"})
=============================================================================
