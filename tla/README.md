# A TLA+ model of the MAI operating systems labs

The repository holds six small programs, and all of them are modelled here: a
distributed computing system over ZMQ (Lab5), a line filter over pipes (Lab1)
and over shared memory (Lab3), a bitonic sort in threads (Lab2), two memory
allocators with the programs that measure them (CP), and a program that loads
and switches libraries (Lab4).

- [The system and its parts](#the-system-and-its-parts)
- [Modules](#modules)
- [Runs](#runs)
- [Fairness](#fairness)
- [Proofs](#proofs)
- [What is left out](#what-is-left-out)
- [Plan](#plan)

## The system and its parts

| Part | State | Operations | Talks to | Hard behaviour |
|---|---|---|---|---|
| Lab5 control process (`control.cpp`) | known ids, pending requests, children, heartbeat period, beat times | `create`, `exec`, `ping`, `heartbeat`, handling of replies, timeouts, missing beats | its children over ZMQ DEALER sockets, the user over stdin/stdout | known ids lag behind the answers; answers matched by kind and id; requests given up after five seconds |
| Lab5 computing node (`nodes.cpp`, `child.cpp`) | dictionary, children, heartbeat period | answer a request for itself, pass on any other to all children, pass up every reply, beat | parent and children | messages dropped without notice; throws that end the process; kill |
| Lab5 links (`zmq_operations.cpp`, `nodes.cpp`) | ports, connections, queues | send and receive without blocking, fork and bind, connect | all of the above | lost messages, failed binds, reconnection |
| Lab1 filter (`parent.c`, `child1.c`, `child2.c`) | descriptors, two pipes, two files | fork, deal out lines, filter, wait | parent and children over pipes | inherited descriptors, end of file, broken pipes, a full pipe |
| Lab3 filter (`parent.cpp`, `child1.cpp`, `child2.cpp`) | two shared memories, two semaphores, names | publish a line, poll, copy, clear, mark the end, remove the names | shared memory, named semaphores | overwriting, reads outside the lock, kills, names that outlive a run |
| Lab2 sort (`main.cpp`) | the array, the counter of threads | compare and swap, ask for threads, start, join | threads over one array and a mutex | disjoint work without a lock, the limit of threads, waiting for threads |
| CP allocators (`Mckusey-Carels.cpp`, `list_of_free_blocks.cpp`) | page metadata, free lists by size, the sorted list of free pages; the linked list of blocks | construction, `alloc`, `free` | the measuring programs call them | any order of calls: splits, merges, gaps in the list of pages, exhaustion |
| CP measurements (`usage_factor.cpp`, `cock.cpp`) | the allocations not yet freed | tests that ask, ask and free, free the rest, on a new allocator or on the one of the test before | the allocators | what one test leaves to the next |
| Lab4 (`program1.cpp`, `program2.cpp`, `tr_bin.cpp`, `tr_tri.cpp`, `int_*.cpp`) | the loaded library, its symbols, the state of `cin` | load, switch, integrate, translate, exit | `dlopen`, `dlsym`, `dlclose`, `cin` | pointers into closed libraries, failed loads and reads, the least number |

What makes each of them correct:

- **Lab5.** The user is told the truth about creates, writes, reads and dead
  nodes; the nodes stay a tree; the death of a node ends no other process, and
  no two processes of the system want the same port;
  each request comes to an end.
- **Lab1 and Lab3.** Every line goes to at most one file, once, and in the
  order of the input; all processes end; Lab1 loses nothing.
- **Lab2.** The array is sorted; no two threads touch the same element; the
  number of threads stays within its limit; the sort ends.
- **CP.** Blocks that are in use do not overlap and are large enough; every
  byte of the memory is in one block, every page in one place; a request is
  refused only if it does not fit.
- **Lab4.** What is called lies in the library that is loaded; the text that is
  shown is the number that was read.

## Modules

### Lab5

`Messages` is class `Message` and enum `CommandType`: the sets `Request` and
`Reply`, and the two constructors. A name is a model value or a string of
`Keys`; `Stored` says which name is left when the 30-byte buffer has cut it.

`NodeLinks` is what lies between two processes. Every node id has one port;
`owner[i]` is the process that has bound it (the creator of node i), and the
process that runs the node connects to it. `children_` of a process is the set
of ports it owns: the code binds a port exactly when it adds a child.
`down[p]` and `up[p]` are the queues of the link that ends at process p.
`IsBroadcast` picks the processes that get a copy, because a DEALER socket with
several connected peers hands a message to one of them. `Send` drops a message
for a full queue, as `ZMQ_DONTWAIT` does and nobody looks. `ForkAndBind`,
`BindFails` and `ForkFails` are the three ways `create_process` ends; a throw
ends the process, `CloseSockets` frees its ports, and its children then connect
to whoever binds the port next (`Connect`). A bind fails when another process of
the system owns the port, and may fail for the ids of `Refused`: those for which
the system has no socket left, whose port 5555 + id is out of range
(`create 60000 -1`), or which a strange program has bound. For such an id the
bind, and `create_node` in the new process (`NewProcess`), succeed or throw, one
independently of the other. `Kill` ends any process, the
control process too; of each of its queues any first part may have been sent
(`SentUp`, `SentDown`). `lost` remembers that some message was dropped.

`ComputingNode` has one action per handler and per poll of
`ComputingNode::run`. The code polls all sockets in turn; as a message may take
any time to arrive, any order of polls is a behaviour of the code.

`Controller` has one action per reply, per check and per user command. A
command the code rejects changes nothing and is no step. An age replaces
`sent_time`: `CheckPending` erases all requests that are too old at once, as
one call of `check_pending_messages` does. `acked`, `asked` and `reported` are
history. A key is `Overlong` if `sscanf` finds no number behind its first 30
characters, so that an add of it becomes a find. `ControlRestart` is a user who starts the control process again after
its end: the new one knows Root only, while the old computing processes still
run, keep their ports, and connect to it as soon as it binds the port of a
node with their id; `everKnown` is what any control process has known. With
`Careful` the user never asks for a node he has asked for
before; without it he may retry. At the end of its input the program carries
out its last command again and again: that is a user who is not careful.

`Cluster` composes them with the clock and with `kill -9`, and states the
properties. `MCCluster` gives `Stored` a value.

### Lab1 and Lab3

`LineSplitter` is what both programs promise: lines are dealt out to two files,
each at most once and in order.

`PipeFilter` is Lab1. Its state is who has which end of which pipe open, so
the effect of `fork`, `dup2` and `close` on the end of the input is what is
modelled. `failures` counts forks and children that fail at any moment.

`SharedFilter` is Lab3. `data` and `size` are two stores, and `size` is
modelled by the line it is the length of, so that a line with the length of
another can be told. Each read of the loop condition of a child is a step of
its own. As the code says, both children map the first memory (`Mapped`).
Every read goes to the memory, as it does without optimisation, which is how
the build files build it (no build type is set). `Restart` starts the program
again after a run has ended or was killed, for the lines that are left: the
names of the semaphores (`named`) outlive a killed run, and `Prepare` refuses to
start when it finds one, leaving both behind, as the code tests the results
after it has tried both.

### Lab2

`BitonicSort` keeps the calls that have not been left yet (`frames`), each
with where it is. A call whose halves got threads starts both before it
waits, any other takes one after the other: that is all that is left of the
stacks. `Threshold` is the 1024 of `bitonicMerge`, `Accepted` the test of `main`.

### CP

`Allocator` is what both allocators promise: a set of blocks in use, `Alloc`
of one that lies in the memory, is aligned and overlaps no other, `Free` of one
that is in use. `Memory` has the constants both share and `RoundUp`.

`BestFit` is `BestFitAllocator`. `block` maps the address of each header in the
list to its four fields; a header that is merged away is data again. `Split`,
`Absorb`, `MergeNext` and `MergePrev` are the pieces of `alloc` and `free`.
The walk along the list that looks for the best block is modelled by its
result, the smallest one, the first of several (`IsBest`).

`McKusick` is `McKusickAllocator`. `page_info` is the array of metadata,
`free_page_info` the sorted list of free pages and `freelistarr` the stacks of
free blocks. `TakeBlock`, `SplitPage` and `TakePages` are the ways `alloc`
succeeds, `FreeBlock` and `FreePages` those of `free`. `RunStarts` and
`FirstRun` stand for the walk of `find_consecutive_pages`. The metadata lie in
the first pages of the memory (`total_meta_pages`), which is why the memory
needs two pages at least.

`Benchmark` composes them with the two measuring programs: each is a plan, a
list of tests that says which allocator is used, whether it is new, which
sizes are asked for and whether blocks are freed in between. Random choices are
any choices. A third plan, the client, makes any requests and frees in any
order. With `A == INSTANCE Allocator WITH used <- InUse` the blocks in use, read
off the headers, pages and lists, show that both allocators implement
`Allocator`.

### Lab4

`Translation` has the two functions of that name: what their loops leave in
the buffers, for a `long` of `BITS` bits. A negative number is printed in
binary as a minus and its two's complement.

`Loader` is both programs. `lib` is what is loaded, `symbols` what the function
pointers point into, `real` what the program tells the user. `Read` is
`operator>>` with its ways to fail: a word, too long a number, the end of the
input. After one of them every read fails, and the program repeats its last
command for ever, with values it did not read.

## Runs

A run with `Spec` checks safety; one with `FairSpec` liveness as well. Every
property has a comment in its module that says what it is about.
CHECK_DEADLOCK is off everywhere: the filters and the sort end, and in Lab5 the
user has at most a bounded number of commands and every queue may be empty.

| Run | Question | Bounds |
|---|---|---|
| `cluster_requests` | Do answers match requests, are acknowledged writes kept and seen, and is each request answered if nothing is lost? | two nodes in every tree, two names (one of them cut to the other), three requests, queues of two that overflow, one kill |
| `cluster_retries` | Does the tree stay a tree and the controller honest when the user asks again and the control process is started again? | three ids, one of them with a port that may be refused, three processes, four creates, a kill, a restart, timeouts |
| `cluster_heartbeat` | Are dead nodes reported and living ones not, does every request come to an end, and does a process end only by kill or because the system refuses it something? | two nodes in every tree, one of them with a port that may be refused, a third process for a fork that should not happen, one request (to -1 as well) or a heartbeat of one tick, queues of one, timeouts, one kill, a restart |
| `cluster_duplicate` | *violated:* one process per node | two nodes, three processes |
| `cluster_latecomer` | *violated:* every node beats | two nodes |
| `pipes` | Is `LineSplitter` kept, nothing lost, nobody left behind? | four lines, pipes of two, one failure |
| `memories` | Is `LineSplitter` kept, are lines whole, is the last line written, do names follow the runs, does everybody end? | three lines, two kills, the program started twice |
| `memories_second` | *violated:* every line is written | two lines |
| `sort` | Is the array sorted, do threads keep apart, are they counted right, does the sort end? | all arrays of eight zeros and ones, a limit of two |
| `sort_limit` | *violated:* the limit of threads holds | four elements, a limit of one |
| `allocators` | Do both allocators implement `Allocator`, keep blocks and pages in one place, and refuse only what does not fit? | both measuring programs and the client, five operations per test, six pages of 64 bytes, one of them for metadata, headers of 32 bytes, three bucket sizes |
| `loader` | Do calls go where the program says, and are the texts true? | every number of six bits, any sequence of commands and failures |

Why the bounds are enough. Two nodes are a chain or two siblings, so that there
is a node that forwards and a node that is passed by; a third makes longer
cycles possible, if any are. Two requests are the fewest that can be mixed up, a
third makes a read between two writes; queues of two can be full with a request
that waits behind another. With one kill and one restart the control process can
be killed and started again with orphans below it. A line that is neither the first nor the
last needs three lines; pipes of two block the parent on the third. Eight
elements are the fewest for which threads start threads (the final merge has
two levels of them), and have room for four workers, one more than
`WorkersBounded` allows;
by the 0-1 principle a network of comparisons that sorts all arrays of zeros and ones sorts all arrays. Five
operations on five pages fill the memory, leave a gap between two free pages,
cut a page, use its blocks up and cut another one, and merge a block with none,
one or both of its neighbours; the sizes are chosen on both sides of a bucket, of a
page, of two pages, and of what leaves room for another header. A test that
is not new starts with the pages the test before has cut. The loops of Lab4
take one step per digit, so six bits show what sixty-four do. Bounds that stand in guards are named constants:
`MaxCreates`, `MaxRequests`, `MaxKills`, `MaxRestarts`, `MaxFailures`,
`MaxCrashes`, `Operations`.

### Where the runs disagree with what the code or its reports say

1. *One process per node.* `create 2 1` twice in a row passes the test
   "already exists" both times, as node 2 becomes known only by the first
   answer. Node 1 forks twice; the second bind throws and ends node 1.
2. *Every node beats.* The period is sent once. A node created later never
   gets it, and is then reported as dead although it lives.
3. *Every line is filtered* (Lab3). The second child opens the names of the
   first one, so lines for the second memory are read by nobody. Apart from
   that the parent overwrites a line that was not taken yet, which is why
   `LastLineWritten` speaks of the last line only.
4. *The limit of threads* (Lab2). A merge that starts one thread works on as
   well, so one thread more than the limit is at work. `WorkersBounded` says it
   is never more than that one.

What holds in spite of them is checked: Lab3 loses lines but never tears,
doubles or reorders them, and never the last one of the first memory.

Known, and not checked by a run: a child of the control process enters
`beat_tracker` by its first beat, so one that dies before is never reported
(`DeadNodeReported` speaks of nodes that are followed). After a restart an old
answer may tell the new control process of a node whose parent it does not
know; a user who then creates nodes again can close a cycle, in larger bounds
than those of the runs, which is why `NoCycle` is about the first control
process. After small blocks, pages stay cut for ever; `CutPagesNeeded` says
how many. The least number has no ternary text.

## Fairness

- **Lab5.** Both loops poll without blocking and come round for ever, so each
  poll that stays ready is served: weak fairness for each process and each
  kind of poll. ZMQ keeps trying to connect, hence weak fairness of `Connect`;
  the clock runs. Nothing is assumed of the user, of kills or of the network:
  `EveryRequestAnswered` and `BeatingNodeHeard` speak of behaviours in which
  nothing was lost.
- **Lab1, Lab3.** The scheduler runs each process (weak fairness per process),
  and the input ends. No failure is assumed to happen.
- **Lab2.** Some thread that can run runs. Every behaviour is finite, so no
  more is needed.

## Proofs

`ClusterProofs` proves three theorems of the specification `Spec` of
`Cluster`, for any ids, names, processes, queue lengths and bounds, restarts of
the control process included:

- `TypeCorrect`: the type invariant. Its weight is in the queues: only requests
  travel down and only replies up, although `NodeForward` passes on whatever it
  finds.
- `RequestsCorrect`: no request is under way for a node no control process has
  known, or waited for, for one that the present one does not know
  (`RequestsAddressKnownNodes`).
- `RepliesCorrect`: a pid the controller reports is that of a process that
  runs the new node, and no node is known for which nothing was forked
  (`RepliesNameNodes`).

They rest on the named assumptions of the modules only; `Refused` may be any
set of ids. The three are
conjuncts of one inductive invariant `Inv`. It says of every queue that its
elements lie in a set: `KnownRequests` for what goes down, `OwnRequests` for
what is pending, `HonestReplies` for what goes up. Such a set survives
appending, taking the head or a part of a queue, so there is one lemma per
operation on queues, and the proof of a step only looks at the message that is
added. `KnownRequests` grows with `everKnown`, `HonestReplies` with forks, and
neither ever shrinks, which is the other half; `OwnRequests` shrinks at a
restart, when nothing is pending any more. `BornHaveIds` ties `status` to
`nodeId`: without it a fresh pid might already be named in some reply.
`InitInv`, `NextInv` (one lemma per action) and `SpecInv` give the theorems.

`ClusterTreeProofs` and `ClusterWriteProofs` go on from `Inv`, for any tree of
nodes.

- `TreeHasNoCycle` (`NoCycle`). The invariant `CycleInv` says that there is a
  set E of edges, who was asked to be the parent of whom, that holds every
  request to create a node that is under way and every port that is bound, and
  in which every set of nodes has one that no edge of the set leads to. The
  controller asks a node it knows to create one that it does not know, and E
  leaves only nodes it knows: so a new edge leads to a node that no edge leaves,
  and closes nothing. A restart forgets the known nodes, which is where the
  argument ends.
- `EveryEndExplained` (`EndsExplained`), an action property: with a user who
  asks for each node once, an actor ends only in a step that kills it, that finds
  no process to fork, or that was to create a node of `Refused`. With
  `ForksSucceed`, a process for every create command, the second is out as well:
  `EnoughProcesses`. The handlers also throw when a process of the system has
  the port, so what must be shown is that nobody is ever told twice to create a
  node, by a broadcast that copies a request into many queues, by a process whose
  parent was refused the port, or after a kill. `OnceInv` numbers the nodes in the order they were asked for
  (R), remembers the parent each was asked of (P), and keeps for every process
  the highest number it was ever sent (H). `Flow` says that numbers rise in
  every queue and that nobody has been sent a number that its parent still has
  in its queue; the lemmas `FlowMove`, `FlowSend`, `FlowShrink` and `FlowBirth`
  are the four things that can happen to queues. When a node is there, its
  parent has been sent its number and has it no more (`Settled`), hence never
  again.
- `NoAckedWriteLost` (`AckedWritesKept`). Values are numbers that grow, so
  `Flow` holds of them as well, and everything a process has stored is smaller
  than every write still on its way to it (`OlderThan`): what it stores next is
  later than what it has. `Done` then says of every answer that travels up that
  some process of that node has stored the value, or a later one. It needs
  `OnceInv`, since a second process for the same node could be sent old writes.
- `ReadsNeverOlder` (`ReadsSeeAckedWrites`), an action property: what a `find`
  tells the user is never older than a write acknowledged before. The answers of
  a process reach the control process along a fixed line of processes, its
  `Line`, and a number D that rises along every line says who is nearer
  (`Lines`, `LinesGrow`). `InOrder` says of every answer to a find that is under
  way: it is as new as what was acknowledged of its key (`Fresh`), and if the
  answer to a later write of that key is under way too, it is nearer to the
  control process or before that answer in the same queue. So it is still fresh
  when the write is acknowledged. `Fits` says that an answer may be put at the end of a queue;
  what a process tells about its own node fits, by the invariant of
  `NoAckedWriteLost` (`TellsFits`). `ForwardInOrder` moves an answer one process
  on, `AddInOrder` adds one, `CloseShorter` and `UpInOrder` lose and deliver
  answers.
- `EveryAnswerAwaited` (`AnswersAwaited`): at the first control process, as long as no
  request is given up, there are never more answers of a kind under way than
  requests of that kind that wait for one. A number of answers is no invariant by itself, so
  `Match` pairs each answer under way with a pending request of its kind, and
  no two answers with the same one. It must also pair the requests that may
  still be answered, and a broadcast copies a request to many processes: only
  the copy that is on the way to its node counts (`Open`). The `Way` to a node
  are the processes on its `Line`; every process has one child on it at most
  (`WayIsOne`), so one copy stays one copy. A step is then put together from a few that
  are proved of any queues: what is taken leaves a request that is paired with nothing (`Spare`;
  `PopUp`, `PopDown`), what is sent takes such a one (`FeedUp`, `FeedDown`), a
  command makes one (`RememberSpare`), an answer erases one
  (`EraseSpare`, which pairs anew what was paired with the one erased), and what is
  lost leaves the rest paired (`MatchedShorter`). A Create and its answer name the
  new node, and nobody waits for the same node twice
  (`CreatesOnce`). A new process lengthens a way, but no request to its node is
  under way before the control process knows it (`WayStays`). The pairing is an injection,
  which gives the inequality (`MatchedFewer`).

R, P, H, D, the lines, the pairs and E are bound by existential quantifiers in
the invariants: no variable of the model holds them.

`LoaderProofs` proves `CallsCorrect`: whatever is loaded, switched, read or
fails, a function that is called lies in the loaded library, which is the one
the program names (`CallsIntoLoaded`). The invariant `LoopAgrees` ties the three
variables together in every state of the main loop; in the middle of a switch
they may differ. On it rest, for every width of long, `TypeCorrect`, by which
every digit that is shown is one of the system named, and `ShownCorrect`
(`ShownNumberTrue`): the text is the number that was read. `Divided` is what the
loops leave of a number after each round; after `BITS` - 1 rounds that is nothing
(`DividedSmall`), for a round makes it less than half of the bound. The value of
the first k digits is what k rounds from the end had left (`Positional`), which
`Leading` uses for the zeros that are skipped, and for the inverted digits of a
negative number it is 2^k - 1 minus that (`Inverted`). `ValueSteps` turns the
fold of `Value` into steps, `UpTo` is induction over a set of numbers,
`PowerOfTwo` counts subsets.

`BenchmarkProofs` is about both allocators and the programs that call them,
for any size of the memory, of its headers, pages and blocks, any number of
buckets, any sizes asked for and any number of operations.

- `BlocksAlwaysTile`: the blocks of the best-fit allocator tile the memory, and
  the links between them agree in both directions (`BlocksTile`).
- `NeverFreeNeighbours`: no two neighbours are free, and when the caller holds
  nothing the memory is one block again (`NoFreeNeighbours`).
- `PagesAlwaysAccounted`: every page of the McKusick-Karels allocator is free,
  cut or in one buffer, and a free block is in the list of its page
  (`PagesAccounted`).
- `CutPagesAlwaysNeeded`: the pages lost to a bucket are those its peak needed
  (`CutPagesNeeded`).
- `HeldIsInUse` and `AlwaysRefusedOnlyIfFull`, of both: what the caller holds is
  what is in use (`ActiveInUse`), and a request is refused only if nothing free
  is large enough (`RefusedOnlyIfFull`).
- `ImplementsAllocator`: both implement `Allocator` (`AllocatorKept`).
- `TypeCorrect`: the type invariant.

The invariant of the best-fit allocator, `BlocksInv`, adds to the first two
what makes them inductive: the caller
holds exactly one pointer to each block that is taken (`Held`), since a `free`
of anything else would mark a block of another caller, or no header at all.
`SplitWell` and `AbsorbWell` say what a cut and a merge do to a list that tiles
the memory. `free` breaks the invariant for a moment: once its block is marked
there may be two pairs of free neighbours; after the first merge
(`MergeNextKeepsBlocks`) only the pair with the block before is left
(`PairedOnlyBefore`), after the second (`MergePrevKeepsBlocks`) none. The proof
also covers a test that goes on with the allocator of the one before, for which
`PlanFacts` shows that it is the same kind of allocator. `Aligned` says that all
headers lie at whole words.

That of the McKusick-Karels allocator, `WellPaged`, is stated of any lists of
blocks, list of pages and array of metadata, so that a request that cuts a page
and takes a block of it is two lemmas, `CutWell` and `TakeWell`, one after the
other. `PagesKnown` says that the list of free pages is sorted, which
`find_consecutive_pages` needs, that the size in the metadata of a cut page is
that of a bucket, which `free` needs to find the list, and that all pages of a
buffer exist. `PagesApart` says that no page is in two places, `BlocksListed`
that a free block is in one list, that of the size of its page. `PagePlaces` and
`BlockPlaces` place pages and blocks in the memory and show that `free` finds
the metadata of a block again from its address. What is in use is computed from
lists and metadata (`InUseIn`); each step lemma ends with what it does to that
set, one block more or one less, which is what the refinement, `Holding` (what
the caller holds is what is in use) and `PeakRight` (the blocks of a bucket at
their peak) go on from. `Inv` is the conjunction of all of these, and it has
one lemma per action for both allocators (`AskStep`, `FreeStep`,
`NextTestStep`).

Three things are proved from below. Numbers have no induction with these
provers, but a set of them has a least one (`Least`), and the claims that hold
of all numbers are shown by the least one that breaks them: that the search
finds the first of the runs (`RunIsFound`) or that the pages of a buffer come
back one by one into a list that stays sorted (`InsertAll`). 2^n is the number
of subsets of a set of n (`PowerType`), so bucket sizes grow (`PowerGrows`).
`FoldLeft` is defined by a choice of a function on sets; `FoldSteps` constructs
that function and turns the fold into steps.

The constants are assumed to be what the code makes them (`MemoryAssumption`,
`BestFitAssumption`, `McKusickAssumption`): among others pages and the
smallest block are whole words (4096 and 32 bytes there), the largest block is a page,
and the metadata leave at least one page. All sizes asked for are two bytes or
more (`BenchmarkAssumption`): for one byte `get_bucket_index` is undefined. The
programs ask for eight at least.

`PipeFilterProofs` and `SharedFilterProofs` each prove the type invariant, the
safety properties of the runs, and that the filter implements `LineSplitter`
(`SplitsAsPromised`), for any number of lines, failures, kills and restarts.

- `PipeFilterProofs`: `NothingEverLost` (`NothingLost`) and
  `PipesBreakByFailure` (`BrokenOnlyByFailure`). The invariant `FilterInv` has
  two parts beside the types. `LinesInv` follows the lines: exactly those that
  were read are in a pipe or in a file, each with one child only, and a pipe
  keeps their order and holds only what comes after the file of its child.
  `ProcessInv` follows the descriptors: while the parent writes it has the write
  ends, a living child has its read end, and a child that ended of itself has
  left an empty pipe that nobody can write to. `NothingLost` needs both: the
  pipes are empty when both children have ended.
- `SharedFilterProofs`: `NobodyGetsATornLine` (`NoTornLine`), `LastLineArrives`
  (`LastLineWritten`) and `NamesAreKept` (`NamesFollowRuns`). Here `FilterInv`
  is a mutual exclusion argument: while a process is between its wait and its
  post the semaphore is zero and nobody else is there (`Exclusion`), so the text
  and the length in the first memory belong together whenever a child may look
  (`Contents`), lines come out in the order they went in (`InOrder`), and if
  nobody is killed the last one is written, in the memory or in the parent's
  hands (`NotLost`). `Places`
  and `Names` say which processes and which names go with each state of the
  parent; without them a second run could meet a child of the first.

`BitonicSortProofs` proves for any array length, any threshold and any limit of
threads:

- `TypeCorrect`, and `NoLockNeeded` (`DisjointWork`): two calls that compare
  have no element in common;
- `CounterWithinLimit` (`ThreadsCounted`) and `AtMostOneMore`
  (`WorkersBounded`).

The calls form a tree (`Tree`): two calls lie apart in the array or one below
the other (`Apart`, `Below`), and what is below a call is inside one of those it
has made and not left (`Kids`). A call that compares has made none, so nothing
is below it. `CountInv` counts along this tree: the calls that hold a thread and
those that hold two add up to `active_threads` (`Holders`), and the calls at
work are one more than those that work beside a thread they started (`Running`,
`Forked`); each of the latter holds at least one thread.
Every action is a step that only grows a leaf, prunes one, or moves one call
from one place to another, so that one lemma shows that the tree survives such
a step and the lemma of an action only that it is one.

`ArraySorted` (`SortedAtEnd`) goes on from there: when the first call returns the
array is sorted and has each element as often as the input, for any integers,
without the 0-1 principle. `Bitonic` says that no four elements go up, down and up
again, or down, up and down, over a common level; `UpAndDown`
makes a bitonic part of two sorted halves, `HalfCleaned` two bitonic halves, one
before the other, of a bitonic part whose pairs were all compared. The invariant
`Settled` says of every call what it has done to its part of the array at the
place where it is (`Does`). A swap of one call leaves true what is said of the
others (`OthersDo`): by `Tree` they lie apart or wait for the half in which
it is made, and of such a call only that one half is before the other matters,
which no swap within a half changes (`SplitStays`). That the halves are equally
long needs the power of two (`HalfPower`).

Where they are formulas that TLC can evaluate, the inductive invariants were
checked with it on the small instances before they were proved; those of
`ClusterTreeProofs` and `ClusterWriteProofs` speak of witnesses for all numbers
and were not.

Only model-checked: the liveness properties, which are out of the prover's
reach, and the runs that expect a violation.

## What is left out

- Lab5: half-typed commands, which block the loop; operands that were never
  set when the input has ended; a clock that is set back; the
  byte that `%30s` writes past the end of a 30-byte key; `heartbeat 0` in the
  runs (the model allows it); the order in which one round polls, which the
  delays of messages cover. A broken link may lose any prefix of what was
  sent; what a closed socket still flushes (linger) is all or nothing. Of a
  strange program that has bound a port the model has only that the bind fails:
  what it would answer to a node that connects to it is left out. So are two ids
  whose ports are the same modulo 65536, and ids for which 5555 + id overflows.
  Memory that runs out is left out. A computing process that ends at once for
  another reason (`execl` fails, say) is a killed one, under the bound
  `MaxKills`.
- Lab1, Lab3: what is in a line; lines of 1000 characters and more, which are
  cut in pieces; the same file name for both children, or for two runs; output that a killed child has not flushed.
- Lab2: a `pthread_create` that fails, sizes that are no power of two (refused
  by `main`).
- CP: sizes near the largest number, for which the rounding wraps around;
  requests for zero bytes, and for one byte, for which `get_bucket_index` asks
  `__builtin_clzl` for the leading zeros of 0, which is undefined (neither program
  makes such a request); frees of what was not given; a memory of one page, for which the constructor writes before its
  array; the clocks, percentages and printing of the measuring programs.
- Lab4: the integrals, which are floating point; of `dlopen` and `dlsym` only
  whether they succeed.
- The monitor script of Lab2 and the build files keep no state.

## Plan

Every safety invariant and action property of the runs is a theorem. What is
left of the plan are the hazards without a property: they are listed in `PROJECT.json`,
each with the reason.
