----------------------------- MODULE SharedFilter -----------------------------
(***************************************************************************)
(* Lab3: the program of Lab1 with two shared memories instead of pipes.    *)
(* The parent puts one line at a time into a memory and the children poll  *)
(* it; a semaphore guards the copying, but nothing makes the parent wait   *)
(* until a line was taken.  child2.cpp is a copy of child1.cpp, so both    *)
(* children serve the first memory and nobody serves the second.           *)
(*                                                                         *)
(* data and size are two stores, each atomic here.  size is modelled by    *)
(* the line it is the length of, so that a copy of one line with the       *)
(* length of another can be told.                                          *)
(*                                                                         *)
(* The program may be started again, for the lines that are left and with  *)
(* other output files.  The names of the semaphores outlive a run that was *)
(* killed, and a run that finds one of them does not start.                *)
(***************************************************************************)
EXTENDS Integers

CONSTANTS
  Lines,       \* how many lines the input has
  MaxCrashes,  \* bound on the processes that are killed
  MaxRestarts  \* bound on the times the program is started again

ASSUME SharedAssumption == Lines \in Nat /\ MaxCrashes \in Nat /\ MaxRestarts \in Nat

Child   == {1, 2}
Memory  == {1, 2}
Process == {0} \cup Child
None    == 0            \* no line: size = 0

VARIABLES
  pc,        \* pc[p]: what process p does next; the parent is 0
  named,     \* the memories whose semaphore exists by name
  sem,       \* sem[m]: the value of the semaphore of memory m
  data,      \* data[m]: the line in memory m
  size,      \* size[m]: the line whose length is in memory m
  done,      \* done[m]: the end mark of memory m
  next,      \* the line that fgets returns next in the parent
  target,    \* the memory the parent has drawn
  buffer,    \* buffer[c]: what child c has copied, with which length
  written,   \* written[c]: the lines in the file of child c
  drawn,     \* history: drawn[m], the lines drawn for memory m
  crashes,   \* how many processes were killed
  restarts   \* how often the program was started again

vars == <<pc, named, sem, data, size, done, next, target, buffer, written,
          drawn, crashes, restarts>>

runs == <<crashes, restarts>>

Ended == {"exited", "killed", "refused"}

Line == 1 .. Lines
MaybeLine == Line \cup {None}

TypeOK ==
  /\ pc \in [Process -> {"unborn", "start", "fork1", "fork2", "feed", "wait",
                         "store", "publish", "post", "finish1", "finish2",
                         "wait1", "wait2", "clean", "clean2", "open", "loop",
                         "loop2", "look", "copy", "clear"} \cup Ended]
  /\ named \subseteq Memory
  /\ sem \in [Memory -> {0, 1}]
  /\ data \in [Memory -> MaybeLine]
  /\ size \in [Memory -> MaybeLine]
  /\ done \in [Memory -> BOOLEAN]
  /\ next \in 1 .. Lines + 1
  /\ target \in Memory
  /\ buffer \in [Child -> [text : MaybeLine, length : MaybeLine]]
  /\ written \in [Child -> SUBSET Line]
  /\ drawn \in [Memory -> SUBSET Line]
  /\ crashes \in 0 .. MaxCrashes
  /\ restarts \in 0 .. MaxRestarts

Init ==
  /\ pc = [p \in Process |-> IF p = 0 THEN "start" ELSE "unborn"]
  /\ named = {}
  /\ sem = [m \in Memory |-> 0]
  /\ data = [m \in Memory |-> None]
  /\ size = [m \in Memory |-> None]
  /\ done = [m \in Memory |-> FALSE]
  /\ next = 1
  /\ target = 1
  /\ buffer = [c \in Child |-> [text |-> None, length |-> None]]
  /\ written = [c \in Child |-> {}]
  /\ drawn = [m \in Memory |-> {}]
  /\ crashes = 0
  /\ restarts = 0

Go(p, from, to) == pc[p] = from /\ pc' = [pc EXCEPT ![p] = to]

-----------------------------------------------------------------------------
\* Both semaphores are made, files of zeros mapped.
Prepared ==
  /\ Go(0, "start", "fork1")
  /\ sem' = [m \in Memory |-> 1]
  /\ data' = [m \in Memory |-> None]
  /\ size' = [m \in Memory |-> None]
  /\ done' = [m \in Memory |-> FALSE]

\* Both semaphores are tried before the result is looked at: a run that
\* refuses to start leaves both names behind.
Prepare ==
  /\ named' = Memory
  /\ \/ named = {} /\ Prepared
     \/ named # {} /\ Go(0, "start", "refused") /\ UNCHANGED <<sem, data, size, done>>
  /\ UNCHANGED <<next, target, buffer, written, drawn, runs>>

Fork(c) ==
  /\ pc[0] = IF c = 1 THEN "fork1" ELSE "fork2"
  /\ pc' = [pc EXCEPT ![0] = IF c = 1 THEN "fork2" ELSE "feed", ![c] = "open"]
  /\ UNCHANGED <<named, sem, data, size, done, next, target, buffer, written,
                 drawn, runs>>

\* A line is read, and a memory is drawn for it.
ReadLine(m) ==
  /\ next <= Lines
  /\ Go(0, "feed", "wait")
  /\ target' = m
  /\ drawn' = [drawn EXCEPT ![m] = @ \cup {next}]
  /\ next' = next + 1
  /\ UNCHANGED <<named, sem, data, size, done, buffer, written, runs>>

\* Mutant: the parent does not wait for the semaphore.
ParentWaitsForNobody ==
  /\ Go(0, "wait", "store")
  /\ sem' = [sem EXCEPT ![target] = 0]
  /\ UNCHANGED <<named, data, size, done, next, target, buffer, written,
                 drawn, runs>>

ParentWaits ==
  /\ Go(0, "wait", "store")
  /\ sem[target] = 1
  /\ sem' = [sem EXCEPT ![target] = 0]
  /\ UNCHANGED <<named, data, size, done, next, target, buffer, written,
                 drawn, runs>>

\* The line is copied, whether the one before it was taken or not ...
Store ==
  /\ Go(0, "store", "publish")
  /\ data' = [data EXCEPT ![target] = next - 1]
  /\ UNCHANGED <<named, sem, size, done, next, target, buffer, written, drawn,
                 runs>>

\* ... and its length set.
Publish ==
  /\ Go(0, "publish", "post")
  /\ size' = [size EXCEPT ![target] = next - 1]
  /\ UNCHANGED <<named, sem, data, done, next, target, buffer, written, drawn,
                 runs>>

ParentPosts ==
  /\ Go(0, "post", "feed")
  /\ sem' = [sem EXCEPT ![target] = @ + 1]
  /\ UNCHANGED <<named, data, size, done, next, target, buffer, written, drawn,
                 runs>>

\* fgets has no line for this run; the rest may be the input of another run.
InputEnds == next > Lines \/ restarts < MaxRestarts

\* Mutant: the end mark goes to the wrong memory.
FinishSecond(m) ==
  /\ \/ m = 1 /\ InputEnds /\ Go(0, "feed", "finish2")
     \/ m = 2 /\ Go(0, "finish2", "wait1")
  /\ done' = [done EXCEPT ![2] = TRUE]
  /\ UNCHANGED <<named, sem, data, size, next, target, buffer, written, drawn,
                 runs>>

\* End of the input: one end mark after the other.
Finish(m) ==
  /\ \/ m = 1 /\ InputEnds /\ Go(0, "feed", "finish2")
     \/ m = 2 /\ Go(0, "finish2", "wait1")
  /\ done' = [done EXCEPT ![m] = TRUE]
  /\ UNCHANGED <<named, sem, data, size, next, target, buffer, written, drawn,
                 runs>>

\* Mutant: the parent waits for the first child only.
WaitForFirst(c) ==
  /\ pc[1] \in Ended
  /\ IF c = 1 THEN Go(0, "wait1", "wait2") ELSE Go(0, "wait2", "clean")
  /\ UNCHANGED <<named, sem, data, size, done, next, target, buffer, written,
                 drawn, runs>>

WaitFor(c) ==
  /\ pc[c] \in Ended
  /\ IF c = 1 THEN Go(0, "wait1", "wait2") ELSE Go(0, "wait2", "clean")
  /\ UNCHANGED <<named, sem, data, size, done, next, target, buffer, written,
                 drawn, runs>>

\* sem_unlink of one name after the other, then unlink of the files.
CleanUp(m) ==
  /\ IF m = 1 THEN Go(0, "clean", "clean2") ELSE Go(0, "clean2", "exited")
  /\ named' = named \ {m}
  /\ UNCHANGED <<sem, data, size, done, next, target, buffer, written, drawn,
                 runs>>

-----------------------------------------------------------------------------
\* The memory that child c maps; in child2.cpp it is the first one as well.
Mapped(c) == 1

\* The child opens the semaphore and the mapped file by name, or ends.
Open(c) ==
  /\ Go(c, "open", IF Mapped(c) \in named THEN "loop" ELSE "exited")
  /\ UNCHANGED <<named, sem, data, size, done, next, target, buffer, written,
                 drawn, runs>>

\* Mutant: while (!shared->done)
TestDoneOnly(c) ==
  /\ Go(c, "loop", IF done[Mapped(c)] THEN "exited" ELSE "look")
  /\ UNCHANGED <<named, sem, data, size, done, next, target, buffer, written,
                 drawn, runs>>

\* while (!shared->done || ...
TestDone(c) ==
  /\ Go(c, "loop", IF done[Mapped(c)] THEN "loop2" ELSE "look")
  /\ UNCHANGED <<named, sem, data, size, done, next, target, buffer, written,
                 drawn, runs>>

\* ... shared->size > 0); the output file is closed after the loop.
TestSize(c) ==
  /\ Go(c, "loop2", IF size[Mapped(c)] # None THEN "look" ELSE "exited")
  /\ UNCHANGED <<named, sem, data, size, done, next, target, buffer, written,
                 drawn, runs>>

\* Is there a line?  Nobody holds the semaphore for this look.
Look(c) ==
  /\ Go(c, "look", IF size[Mapped(c)] # None THEN "wait" ELSE "loop")
  /\ UNCHANGED <<named, sem, data, size, done, next, target, buffer, written,
                 drawn, runs>>

\* Mutant: the child does not wait for the semaphore.
ChildWaitsForNobody(c) ==
  /\ Go(c, "wait", "copy")
  /\ sem' = [sem EXCEPT ![Mapped(c)] = 0]
  /\ UNCHANGED <<named, data, size, done, next, target, buffer, written,
                 drawn, runs>>

ChildWaits(c) ==
  /\ Go(c, "wait", "copy")
  /\ sem[Mapped(c)] = 1
  /\ sem' = [sem EXCEPT ![Mapped(c)] = 0]
  /\ UNCHANGED <<named, data, size, done, next, target, buffer, written,
                 drawn, runs>>

\* As many characters are copied as size says at this moment.
Copy(c) ==
  /\ Go(c, "copy", "clear")
  /\ buffer' = [buffer EXCEPT ![c] =
       [text |-> IF size[Mapped(c)] = None THEN None ELSE data[Mapped(c)],
        length |-> size[Mapped(c)]]]
  /\ UNCHANGED <<named, sem, data, size, done, next, target, written, drawn,
                 runs>>

\* Mutant: the memory is not marked as empty.
WriteWithoutClear(c) ==
  /\ Go(c, "clear", "post")
  /\ written' = [written EXCEPT ![c] = @ \cup ({buffer[c].text} \ {None})]
  /\ UNCHANGED <<named, sem, data, size, done, next, target, buffer, drawn,
                 runs>>

\* The line, if there is one, goes to the file; the memory is empty.
WriteAndClear(c) ==
  /\ Go(c, "clear", "post")
  /\ written' = [written EXCEPT ![c] = @ \cup ({buffer[c].text} \ {None})]
  /\ size' = [size EXCEPT ![Mapped(c)] = None]
  /\ UNCHANGED <<named, sem, data, done, next, target, buffer, drawn, runs>>

ChildPosts(c) ==
  /\ Go(c, "post", "loop")
  /\ sem' = [sem EXCEPT ![Mapped(c)] = @ + 1]
  /\ UNCHANGED <<named, data, size, done, next, target, buffer, written, drawn,
                 runs>>

\* Any process may be killed, with the semaphore in its hand or not, or leave
\* after a call that failed.
Crash(p) ==
  /\ crashes < MaxCrashes
  /\ pc[p] \notin Ended \cup {"unborn", "start"}
  /\ pc' = [pc EXCEPT ![p] = "killed"]
  /\ crashes' = crashes + 1
  /\ UNCHANGED <<named, sem, data, size, done, next, target, buffer, written,
                 drawn, restarts>>

\* The user starts the program again, whatever became of the run before.
Restart ==
  /\ restarts < MaxRestarts
  /\ pc[0] \in Ended
  /\ pc' = [pc EXCEPT ![0] = "start"]
  /\ restarts' = restarts + 1
  /\ UNCHANGED <<named, sem, data, size, done, next, target, buffer, written,
                 drawn, crashes>>

ParentStep ==
  \/ Prepare \/ ParentWaits \/ Store \/ Publish \/ ParentPosts
  \/ \E c \in Child : Fork(c) \/ WaitFor(c)
  \/ \E m \in Memory : ReadLine(m) \/ Finish(m) \/ CleanUp(m)

ChildStep(c) ==
  \/ Open(c) \/ TestDone(c) \/ TestSize(c) \/ Look(c)
  \/ ChildWaits(c) \/ Copy(c) \/ WriteAndClear(c) \/ ChildPosts(c)

Next ==
  \/ ParentStep
  \/ \E c \in Child : ChildStep(c)
  \/ \E p \in Process : Crash(p)
  \/ Restart

Spec == Init /\ [][Next]_vars

\* The scheduler runs every process, and the input ends.
FairSpec == Spec /\ WF_vars(ParentStep) /\ \A c \in Child : WF_vars(ChildStep(c))

-----------------------------------------------------------------------------
(***************************************************************************)
(* Lab3 keeps the promise of module LineSplitter although both children    *)
(* serve the same memory, and whichever process is killed: no line is      *)
(* written twice and no file is out of order.                              *)
(***************************************************************************)
Splitter == INSTANCE LineSplitter
Splits == Splitter!Spec

(***************************************************************************)
(* A child never gets the text of one line with the length of another      *)
(* (parent.cpp:110-116, child1.cpp:73-85).                                 *)
(***************************************************************************)
NoTornLine ==
  \A c \in Child : pc[c] = "clear" => buffer[c].text = buffer[c].length

(***************************************************************************)
(* The loop of a child ends only when nothing is left to take: at the end  *)
(* the last line that was drawn for the first memory is in a file          *)
(* (child1.cpp:70, parent.cpp:119-125).                                    *)
(***************************************************************************)
LastLineWritten ==
  pc[0] = "exited" /\ crashes = 0 =>
    \A n \in drawn[1] : (\A k \in drawn[1] : k <= n)
                          => n \in written[1] \cup written[2]

(***************************************************************************)
(* The names in the system follow the runs: as long as a child runs its    *)
(* name stays, so that no later run truncates the file the child maps, and *)
(* a run refuses to start only after a process was killed                  *)
(* (parent.cpp:14, 32-38 and 124-138, child1.cpp:33-43).                   *)
(***************************************************************************)
NamesFollowRuns ==
  /\ \A c \in Child : pc[c] \notin Ended \cup {"unborn"} => Mapped(c) \in named
  /\ pc[0] = "refused" => crashes > 0

(***************************************************************************)
(* If nobody is killed, all processes end (parent.cpp:119-125).            *)
(***************************************************************************)
EverybodyEnds == <>[](crashes > 0 \/ \A p \in Process : pc[p] = "exited")

-----------------------------------------------------------------------------
(***************************************************************************)
(* What the report says, and the run refutes: "in an endless loop we       *)
(* accept lines and direct them to the children", who "remove the vowels". *)
(* At the end every line is in a file.  Neither a line for the second      *)
(* memory is, nor one that was overwritten before it was taken.            *)
(***************************************************************************)
AllLinesWritten ==
  pc[0] = "exited" /\ crashes = 0 => 1 .. next - 1 \subseteq written[1] \cup written[2]
=============================================================================
