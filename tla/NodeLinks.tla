------------------------------ MODULE NodeLinks ------------------------------
(***************************************************************************)
(* Processes and the sockets between them: class Node, create_node and     *)
(* create_process (nodes.cpp), send_message and receive_message            *)
(* (zmq_operations.cpp).                                                   *)
(*                                                                         *)
(* Every computing node id has one TCP port, 5555 + id.  The process that  *)
(* created the node binds the port, the process that runs the node         *)
(* connects to it, and both ends are ZMQ DEALER sockets.  So a link is     *)
(* named by the process at its connecting end: down[p] holds what was sent *)
(* to p, up[p] what p sent, both in order.  A bound socket whose port has  *)
(* several connected processes hands a message to one of them.             *)
(*                                                                         *)
(* Both operations pass ZMQ_DONTWAIT and nobody looks at the result of a   *)
(* send: a message for a port nobody is connected to, or for a queue at    *)
(* its high-water mark, is dropped.                                        *)
(***************************************************************************)
EXTENDS Messages

CONSTANTS
  Pids,    \* pids of computing processes: as many forks succeed
  Hwm,     \* the high-water mark of a queue
  Refused  \* ids for which the system may refuse a socket or the port: it
           \* is out of range, or a strange program has bound it

ASSUME LinkAssumption ==
  /\ Pids \subseteq Nat \ {0}
  /\ Hwm \in Nat \ {0}
  /\ Refused \subseteq Ids

Control == 0     \* the control process, among the actors
NoOwner == -1    \* a port nobody has bound
NoId    == -2    \* the node id of a process that was not forked yet

Actors == Pids \cup {Control}

VARIABLES
  status,     \* status[a]: is actor a unborn, running or dead
  nodeId,     \* nodeId[p]: the id given to process p on its command line
  owner,      \* owner[i]: the actor that has bound the port of node id i
  connected,  \* connected[p]: is p connected to the owner of its port
  down,       \* down[p]: messages on their way to p from its port's owner
  up,         \* up[p]: messages on their way from p to its port's owner
  lost        \* history: has any message been dropped so far

linkVars == <<status, nodeId, owner, connected, down, up, lost>>

LinkInit ==
  /\ status = [a \in Actors |-> IF a = Control THEN "running" ELSE "unborn"]
  /\ nodeId = [p \in Pids |-> NoId]
  /\ owner = [i \in Ids |-> NoOwner]
  /\ connected = [p \in Pids |-> FALSE]
  /\ down = [p \in Pids |-> <<>>]
  /\ up = [p \in Pids |-> <<>>]
  /\ lost = FALSE

LinkTypeOK ==
  /\ status \in [Actors -> {"unborn", "running", "dead"}]
  /\ nodeId \in [Pids -> Ids \cup {NoId}]
  /\ owner \in [Ids -> Actors \cup {NoOwner}]
  /\ connected \in [Pids -> BOOLEAN]
  /\ down \in [Pids -> Seq(Request)]
  /\ up \in [Pids -> Seq(Reply)]
  /\ lost \in BOOLEAN

-----------------------------------------------------------------------------
\* children_ of an actor: it binds a port exactly when it adds the node.
Children(a) == {i \in Ids : owner[i] = a}

\* The processes at the connecting ends of the ports of an actor.
ChildProcs(a) == {p \in Pids : nodeId[p] \in Children(a)}

\* The processes a message for node i can be handed to.
Ready(i) ==
  {p \in Pids : connected[p] /\ nodeId[p] = i /\ Len(down[p]) < Hwm}

(***************************************************************************)
(* send_message to every child, one process per port.  T is the set of     *)
(* processes that get a copy; a child without a ready process gets none.   *)
(***************************************************************************)
IsBroadcast(a, T) ==
  /\ T \subseteq UNION {Ready(i) : i \in Children(a)}
  /\ \A i \in Children(a) :
       Ready(i) # {} => \E p \in Ready(i) : T \cap Ready(i) = {p}

\* What the queues towards the processes become.
Broadcast(T, m, queues) ==
  [p \in Pids |-> IF p \in T THEN Append(queues[p], m) ELSE queues[p]]

\* Does a broadcast of a drop a copy?
DropsCopy(a) == \E i \in Children(a) : Ready(i) = {}

\* send_message of p to its parent, given what is queued before the send.
Send(p, m, queues) ==
  [queues EXCEPT ![p] = IF Len(@) < Hwm THEN Append(@, m) ELSE @]

Full(p) == Len(up[p]) >= Hwm

\* receive_message finds a message of p.  What a dead process had sent can
\* still be read, as long as the bound socket lives.
Readable(p) == up[p] # <<>> /\ (connected[p] \/ status[p] = "dead")

Pop(p, queues) == [queues EXCEPT ![p] = Tail(@)]

-----------------------------------------------------------------------------
\* The pid fork() returns.
CanFork == \E q \in Pids : status[q] = "unborn"
FreshPid == CHOOSE q \in Pids : status[q] = "unborn"

\* The new process for node i runs; where the system may refuse, its own
\* create_node may throw, and its main ends at once.
NewProcess(i) == {"running"} \cup (IF i \in Refused THEN {"dead"} ELSE {})

(***************************************************************************)
(* create_process(i) by actor a: fork and exec, then bind the port.  The   *)
(* child runs even when the bind fails; the parent then throws.            *)
(***************************************************************************)
ForkAndBind(a, i) ==
  /\ CanFork
  /\ owner[i] = NoOwner
  /\ \E s \in NewProcess(i) : status' = [status EXCEPT ![FreshPid] = s]
  /\ nodeId' = [nodeId EXCEPT ![FreshPid] = i]
  /\ owner' = [owner EXCEPT ![i] = a]
  /\ UNCHANGED connected

\* The sockets of a dying actor close: its ports are free again, its links
\* are down, what nobody can read any more is gone.  "kept" and "sent" are
\* what it had already handed to the network, upwards and downwards.
CloseSockets(a, kept, sent) ==
  /\ owner' = [i \in Ids |-> IF owner[i] = a THEN NoOwner ELSE owner[i]]
  /\ connected' = [p \in Pids |->
                     connected[p] /\ p # a /\ owner[nodeId[p]] # a]
  /\ down' = [p \in Pids |-> IF p = a THEN <<>> ELSE sent[p]]
  /\ up' = [p \in Pids |->
              IF p = a THEN kept
              ELSE IF status[p] = "dead" /\ p \in ChildProcs(a) THEN <<>>
              ELSE up[p]]
  /\ lost' = TRUE

\* create_process throws because the port is taken, or refused: nobody
\* catches before main, so the process ends (and flushes what it had sent).
BindFails(a, i, kept) ==
  /\ CanFork
  /\ owner[i] # NoOwner \/ i \in Refused
  /\ \E s \in NewProcess(i) :
       status' = [status EXCEPT ![FreshPid] = s, ![a] = "dead"]
  /\ nodeId' = [nodeId EXCEPT ![FreshPid] = i]
  /\ CloseSockets(a, kept, down)

\* fork() has no process left to give; create_process throws as well.
ForkFails(a, kept) ==
  /\ ~ CanFork
  /\ status' = [status EXCEPT ![a] = "dead"]
  /\ CloseSockets(a, kept, down)
  /\ UNCHANGED nodeId

\* zmq_connect succeeds, for the first time or again after the owner of the
\* port has changed; what was written to a link that broke is gone.
Connect(p) ==
  /\ status[p] = "running"
  /\ ~ connected[p]
  /\ owner[nodeId[p]] # NoOwner
  /\ connected' = [connected EXCEPT ![p] = TRUE]
  /\ \E k \in 0 .. Len(up[p]) :
       /\ up' = [up EXCEPT ![p] = SubSeq(@, k + 1, Len(@))]
       /\ lost' = (lost \/ k > 0)
  /\ UNCHANGED <<status, nodeId, owner, down>>

\* What actor a has sent over its link upwards; the control process has none.
SentUp(a) == IF a # Control /\ connected[a] THEN up[a] ELSE <<>>

\* The first messages of each queue from a to its children: the rest was
\* still in its memory.
SentDown(a) ==
  LET Cut(n) == [p \in Pids |-> SubSeq(down[p], 1, n[p])]
  IN  {Cut(n) : n \in {m \in [Pids -> 0 .. Hwm] :
         \A p \in Pids : IF p \in ChildProcs(a) THEN m[p] <= Len(down[p])
                                                ELSE m[p] = Len(down[p])}}

\* kill -9 of any process: any part of what it sent may be out.
Kill(a) ==
  /\ status[a] = "running"
  /\ status' = [status EXCEPT ![a] = "dead"]
  /\ \E k \in 0 .. Len(SentUp(a)), sent \in SentDown(a) :
       CloseSockets(a, SubSeq(SentUp(a), 1, k), sent)
  /\ UNCHANGED nodeId
=============================================================================
