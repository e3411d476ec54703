----------------------------- MODULE Controller -----------------------------
(***************************************************************************)
(* The control process of Lab5: class Controller and main of control.cpp.  *)
(* run() polls the children's sockets, looks for requests that got no      *)
(* answer in time and for nodes that stopped beating, and reads one user   *)
(* command when there is one.  Each of these is an action here.            *)
(*                                                                         *)
(* A command the code rejects with an error message changes no state, so   *)
(* it is no step: its guard is the negation of the rejection.              *)
(***************************************************************************)
EXTENDS NodeLinks, FiniteSets, SequencesExt

CONSTANTS
  Timeout,      \* 5 seconds, in ticks
  Overlong,     \* keys of more than 30 characters whose 31st begins no number
  MaxCreates,   \* bound on accepted create commands
  MaxRequests,  \* bound on accepted exec, ping and heartbeat commands
  MaxRestarts,  \* bound on the times the control process is started again
  Careful       \* does the user never ask twice for the same node?

ASSUME ControlAssumption ==
  /\ Timeout \in Nat
  /\ Overlong \subseteq Keys
  /\ MaxCreates \in Nat
  /\ MaxRequests \in Nat
  /\ MaxRestarts \in Nat
  /\ Careful \in BOOLEAN

VARIABLES
  node_ids_,          \* ids the controller knows, Root among them
  pending_messages_,  \* requests without an answer, oldest first, with age
  heartbeat,          \* the period of the last heartbeat command
  beat_tracker,       \* ticks since the last beat of each node it follows
  creates, requests,  \* how many commands were accepted so far
  restarts,           \* how often the control process was started again
  everKnown,          \* history: ids some control process has known
  asked,              \* history: ids some create command was accepted for
  acked,              \* history: the last write acknowledged, per id and key
  reported            \* history: ids whose last report was "has no beat!"

ctlVars == <<node_ids_, pending_messages_, heartbeat, beat_tracker,
             creates, requests, restarts, everKnown, asked, acked, reported>>

Untracked == -1   \* an id that beat_tracker has no entry for
NoWrite   == 0    \* written values are positive and grow

Pending == [msg : Request, age : Nat]

ControlInit ==
  /\ node_ids_ = {Root}
  /\ pending_messages_ = <<>>
  /\ heartbeat = 0
  /\ beat_tracker = [i \in Ids |-> Untracked]
  /\ creates = 0
  /\ requests = 0
  /\ restarts = 0
  /\ everKnown = {Root}
  /\ asked = {}
  /\ acked = [i \in Ids |-> [k \in Keys |-> NoWrite]]
  /\ reported = {}

ControlTypeOK ==
  /\ node_ids_ \in SUBSET NodeIds
  /\ pending_messages_ \in Seq(Pending)
  /\ heartbeat \in Nat
  /\ beat_tracker \in [Ids -> Nat \cup {Untracked}]
  /\ creates \in Nat
  /\ requests \in Nat
  /\ restarts \in Nat
  /\ everKnown \in SUBSET NodeIds
  /\ asked \in SUBSET Ids
  /\ acked \in [Ids -> [Keys -> Nat]]
  /\ reported \in SUBSET Ids

-----------------------------------------------------------------------------
(***************************************************************************)
(* handle_child_message: the control process receives m from q.            *)
(***************************************************************************)
Answer(q) == Head(up[q])

ControlReceives(q, command) ==
  /\ status[Control] = "running"
  /\ q \in ChildProcs(Control)
  /\ Readable(q)
  /\ Answer(q).command = command
  /\ up' = Pop(q, up)
  /\ UNCHANGED <<status, nodeId, owner, connected, down, lost>>

\* Mutant: any request to the node will do.
MatchesAnyCommand(m, command, i) == m.id = i \/ m.add_data = i

\* The predicate of the find_if in remove_pending_message.
Matches(m, command, i) ==
  /\ m.command = command
  /\ m.id = i \/ (command = "Create" /\ m.add_data = i)

\* remove_pending_message erases the oldest match, if there is one.
RemovePending(command, i) ==
  LET Match(n) == Matches(pending_messages_[n].msg, command, i)
      Matching == {n \in DOMAIN pending_messages_ : Match(n)}
  IN  \/ /\ Matching = {}
         /\ UNCHANGED pending_messages_
      \/ \E n \in Matching :
           /\ \A k \in Matching : n <= k
           /\ pending_messages_' = RemoveAt(pending_messages_, n)

\* "Ok: <pid>": the node exists now, and is followed from now on.
CreateAnswered(q) ==
  /\ ControlReceives(q, "Create")
  /\ RemovePending("Create", Answer(q).id)
  /\ node_ids_' = node_ids_ \cup {Answer(q).id}
  /\ everKnown' = everKnown \cup {Answer(q).id}
  /\ beat_tracker' = [beat_tracker EXCEPT ![Answer(q).id] = 0]
  /\ UNCHANGED <<heartbeat, creates, requests, restarts, asked, acked, reported>>

\* "is available"
PingAnswered(q) ==
  /\ ControlReceives(q, "Ping")
  /\ RemovePending("Ping", Answer(q).id)
  /\ UNCHANGED <<node_ids_, everKnown, restarts, heartbeat, beat_tracker,
                 creates, requests, asked, acked, reported>>

\* The value was stored.
AddAnswered(q) ==
  /\ ControlReceives(q, "ExecAdd")
  /\ RemovePending("ExecAdd", Answer(q).id)
  /\ acked' = [acked EXCEPT ![Answer(q).id][Answer(q).val] =
                 IF @ < Answer(q).add_data THEN Answer(q).add_data ELSE @]
  /\ UNCHANGED <<node_ids_, everKnown, restarts, heartbeat, beat_tracker,
                 creates, requests, asked, reported>>

\* Mutant: "not found" looks for a pending ExecErr.
FindAnsweredByReplyKind(q) ==
  /\ \E command \in {"ExecFnd", "ExecErr"} :
       ControlReceives(q, command) /\ RemovePending(command, Answer(q).id)
  /\ UNCHANGED <<node_ids_, everKnown, restarts, heartbeat, beat_tracker,
                 creates, requests, asked, acked, reported>>

\* The value that was found, or "not found".
FindAnswered(q) ==
  /\ ControlReceives(q, "ExecFnd") \/ ControlReceives(q, "ExecErr")
  /\ RemovePending("ExecFnd", Answer(q).id)
  /\ UNCHANGED <<node_ids_, everKnown, restarts, heartbeat, beat_tracker,
                 creates, requests, asked, acked, reported>>

\* Mutant: a beat counts for every node.
BeatReceivedForAll(q) ==
  /\ ControlReceives(q, "HeartBeat")
  /\ beat_tracker' = [i \in Ids |-> IF beat_tracker[i] = Untracked
                                    THEN Untracked ELSE 0]
  /\ reported' = reported \ {Answer(q).id}
  /\ UNCHANGED <<node_ids_, everKnown, restarts, pending_messages_, heartbeat,
                 creates, requests, asked, acked>>

\* "Got beat": an entry is made for a node that had none.
BeatReceived(q) ==
  /\ ControlReceives(q, "HeartBeat")
  /\ beat_tracker' = [beat_tracker EXCEPT ![Answer(q).id] = 0]
  /\ reported' = reported \ {Answer(q).id}
  /\ UNCHANGED <<node_ids_, everKnown, restarts, pending_messages_, heartbeat,
                 creates, requests, asked, acked>>

-----------------------------------------------------------------------------
(***************************************************************************)
(* check_pending_messages reports the requests that are too old and drops  *)
(* them.  They are pushed with the current time, so they are a prefix of   *)
(* the list.                                                               *)
(***************************************************************************)
Expired(n) == pending_messages_[n].age > Timeout

\* Mutant: run() looks for old requests only when heartbeats are on.
CheckPendingWithBeats ==
  /\ status[Control] = "running"
  /\ heartbeat > 0
  /\ \E n \in DOMAIN pending_messages_ :
       /\ \A k \in DOMAIN pending_messages_ : Expired(k) <=> k <= n
       /\ pending_messages_' = SubSeq(pending_messages_, n + 1,
                                      Len(pending_messages_))
  /\ UNCHANGED <<linkVars, node_ids_, everKnown, restarts, heartbeat, beat_tracker,
                 creates, requests, asked, acked, reported>>

\* Mutant: the oldest request that is given up is sent once more.
CheckPendingAgain ==
  /\ status[Control] = "running"
  /\ \E n \in DOMAIN pending_messages_ :
       /\ \A k \in DOMAIN pending_messages_ : Expired(k) <=> k <= n
       /\ pending_messages_' = SubSeq(pending_messages_, n + 1,
                                      Len(pending_messages_))
  /\ \E T \in SUBSET Pids :
       /\ IsBroadcast(Control, T)
       /\ down' = Broadcast(T, pending_messages_[1].msg, down)
  /\ lost' = (lost \/ DropsCopy(Control))
  /\ UNCHANGED <<status, nodeId, owner, connected, up, node_ids_, everKnown,
                 restarts, heartbeat, beat_tracker,
                 creates, requests, asked, acked, reported>>

CheckPending ==
  /\ status[Control] = "running"
  /\ \E n \in DOMAIN pending_messages_ :
       /\ \A k \in DOMAIN pending_messages_ : Expired(k) <=> k <= n
       /\ pending_messages_' = SubSeq(pending_messages_, n + 1,
                                      Len(pending_messages_))
  /\ UNCHANGED <<linkVars, node_ids_, everKnown, restarts, heartbeat, beat_tracker,
                 creates, requests, asked, acked, reported>>

\* check_beats reports every node not heard of for four periods.
Overdue(i) == beat_tracker[i] > 4 * heartbeat

CheckBeats ==
  /\ status[Control] = "running"
  /\ heartbeat > 0
  /\ \E i \in Ids : Overdue(i)
  /\ beat_tracker' = [i \in Ids |-> IF Overdue(i) THEN 0 ELSE beat_tracker[i]]
  /\ reported' = reported \cup {i \in Ids : Overdue(i)}
  /\ UNCHANGED <<linkVars, node_ids_, everKnown, restarts, pending_messages_, heartbeat,
                 creates, requests, asked, acked>>

-----------------------------------------------------------------------------
\* Every child gets a copy of m.
SendToChildren(m) ==
  /\ \E T \in SUBSET Pids : /\ IsBroadcast(Control, T)
                            /\ down' = Broadcast(T, m, down)
  /\ lost' = (lost \/ DropsCopy(Control))
  /\ UNCHANGED <<status, nodeId, owner, connected, up>>

\* broadcast_message also remembers m.
BroadcastMessage(m) ==
  /\ pending_messages_' = Append(pending_messages_, [msg |-> m, age |-> 0])
  /\ SendToChildren(m)

\* "create c -1": the control process itself forks.
CreateCommandAtRoot(c) ==
  \/ /\ ForkAndBind(Control, c)
     /\ node_ids_' = node_ids_ \cup {c}
     /\ everKnown' = everKnown \cup {c}
     /\ UNCHANGED <<down, up, lost, pending_messages_>>
  \/ /\ BindFails(Control, c, <<>>) \/ ForkFails(Control, <<>>)
     /\ UNCHANGED <<node_ids_, everKnown, pending_messages_>>

\* Mutant: nobody looks whether the parent is known.
CreateCommandAnyParent(c, parent) ==
  /\ status[Control] = "running"
  /\ creates < MaxCreates
  /\ Careful => c \notin asked
  /\ c \notin node_ids_
  /\ \/ parent = Root /\ CreateCommandAtRoot(c)
     \/ /\ parent # Root
        /\ BroadcastMessage(Msg("Create", parent, c))
        /\ UNCHANGED <<node_ids_, everKnown>>
  /\ creates' = creates + 1
  /\ asked' = asked \cup {c}
  /\ UNCHANGED <<heartbeat, beat_tracker, requests, restarts, acked, reported>>

\* Mutant: nobody looks whether the node exists already.
CreateCommandAgain(c, parent) ==
  /\ status[Control] = "running"
  /\ creates < MaxCreates
  /\ Careful => c \notin asked
  /\ parent \in node_ids_
  /\ \/ parent = Root /\ CreateCommandAtRoot(c)
     \/ /\ parent # Root
        /\ BroadcastMessage(Msg("Create", parent, c))
        /\ UNCHANGED <<node_ids_, everKnown>>
  /\ creates' = creates + 1
  /\ asked' = asked \cup {c}
  /\ UNCHANGED <<heartbeat, beat_tracker, requests, restarts, acked, reported>>

\* "create c parent"
CreateCommand(c, parent) ==
  /\ status[Control] = "running"
  /\ creates < MaxCreates
  /\ Careful => c \notin asked
  /\ c \notin node_ids_
  /\ parent \in node_ids_
  /\ \/ parent = Root /\ CreateCommandAtRoot(c)
     \/ /\ parent # Root
        /\ BroadcastMessage(Msg("Create", parent, c))
        /\ UNCHANGED <<node_ids_, everKnown>>
  /\ creates' = creates + 1
  /\ asked' = asked \cup {c}
  /\ UNCHANGED <<heartbeat, beat_tracker, requests, restarts, acked, reported>>

\* A command about node i that sends m.
SendRequest(i, m) ==
  /\ status[Control] = "running"
  /\ requests < MaxRequests
  /\ i \in node_ids_
  /\ BroadcastMessage(m)
  /\ requests' = requests + 1
  /\ UNCHANGED <<node_ids_, everKnown, restarts, heartbeat, beat_tracker,
                 creates, asked, acked, reported>>

\* "exec i k v", and "exec i k".  sscanf reads at most 30 characters of a
\* key, and a value behind them: when what is left of the key begins no
\* number it finds none, and the add turns into a find; else that is the
\* value.  Each add has a value of its own here, wherever it was read.
ExecAddCommand(i, k) ==
  /\ k \notin Overlong
  /\ SendRequest(i, MsgVal("ExecAdd", i, requests + 1, k))

ExecFindCommand(i, k) == SendRequest(i, MsgVal("ExecFnd", i, -1, k))

\* "ping i"; Root passes the test as well.
PingCommand(i) == SendRequest(i, Msg("Ping", i, 0))

\* "heartbeat time": sent once, to the nodes that are there, and not
\* remembered.
HeartbeatCommand(time) ==
  /\ status[Control] = "running"
  /\ requests < MaxRequests
  /\ heartbeat' = time
  /\ beat_tracker' = [i \in Ids |-> IF beat_tracker[i] = Untracked
                                    THEN Untracked ELSE 0]
  /\ SendToChildren(Msg("HeartBeat", Root, time))
  /\ requests' = requests + 1
  /\ UNCHANGED <<node_ids_, everKnown, restarts, pending_messages_,
                 creates, asked, acked, reported>>

ControlStep ==
  \/ \E q \in Pids : \/ CreateAnswered(q)
                     \/ PingAnswered(q)
                     \/ AddAnswered(q)
                     \/ FindAnswered(q)
                     \/ BeatReceived(q)
  \/ CheckPending
  \/ CheckBeats

UserCommand ==
  \/ \E c \in Ids, parent \in NodeIds : CreateCommand(c, parent)
  \/ \E i \in NodeIds, k \in Keys : \/ ExecAddCommand(i, k)
                                            \/ ExecFindCommand(i, k)
  \/ \E i \in NodeIds : PingCommand(i)
  \/ \E time \in Periods : HeartbeatCommand(time)

\* The control process is started again after its end.  Its children live
\* on, but it knows none of them.
ControlRestart ==
  /\ status[Control] = "dead"
  /\ restarts < MaxRestarts
  /\ restarts' = restarts + 1
  /\ status' = [status EXCEPT ![Control] = "running"]
  /\ node_ids_' = {Root}
  /\ pending_messages_' = <<>>
  /\ heartbeat' = 0
  /\ beat_tracker' = [i \in Ids |-> Untracked]
  /\ reported' = {}
  /\ UNCHANGED <<nodeId, owner, connected, down, up, lost, creates, requests,
                 everKnown, asked, acked>>

\* A tick on the clock of the control process.  Beyond the limit a test
\* compares with, an age need not grow.
ControlTick ==
  /\ pending_messages_' = [n \in DOMAIN pending_messages_ |->
       IF Expired(n) THEN pending_messages_[n]
       ELSE [pending_messages_[n] EXCEPT !.age = @ + 1]]
  /\ beat_tracker' = [i \in Ids |->
       IF beat_tracker[i] = Untracked \/ heartbeat = 0 \/ Overdue(i)
       THEN beat_tracker[i] ELSE beat_tracker[i] + 1]
=============================================================================
