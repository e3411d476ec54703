------------------------------- MODULE Cluster -------------------------------
(***************************************************************************)
(* The whole system of Lab5: a control process, the computing processes    *)
(* below it, the user who types commands, the clock, and the operating     *)
(* system that may kill a process.                                         *)
(***************************************************************************)
EXTENDS ComputingNode, Controller

CONSTANTS
  MaxKills,    \* bound on the number of killed processes
  ClockRuns    \* does time pass?  If not, no request is ever too old

ASSUME ClusterAssumption == MaxKills \in Nat /\ ClockRuns \in BOOLEAN

VARIABLE kills   \* how many processes were killed so far

vars == <<linkVars, nodeVars, ctlVars, kills>>

Init == LinkInit /\ NodeInit /\ ControlInit /\ kills = 0

\* Links come up when they can.
Connects == \E p \in Pids : Connect(p) /\ UNCHANGED <<nodeVars, ctlVars, kills>>

Kills ==
  /\ kills < MaxKills
  /\ kills' = kills + 1
  /\ \E a \in Actors : Kill(a)
  /\ UNCHANGED <<nodeVars, ctlVars>>

Tick ==
  /\ ClockRuns
  /\ NodeTick
  /\ ControlTick
  /\ UNCHANGED <<linkVars, dictionary, period, node_ids_, heartbeat, creates,
                 requests, restarts, everKnown, asked, acked, reported, kills>>

Next ==
  \/ NodeStep /\ UNCHANGED <<ctlVars, kills>>
  \/ ControlStep /\ UNCHANGED <<nodeVars, kills>>
  \/ UserCommand /\ UNCHANGED <<nodeVars, kills>>
  \/ ControlRestart /\ UNCHANGED <<nodeVars, kills>>
  \/ Connects
  \/ Kills
  \/ Tick

Spec == Init /\ [][Next]_vars

(***************************************************************************)
(* Both loops poll everything once per round and never block, so a poll    *)
(* that keeps finding something to do is not put off for ever.  ZMQ keeps  *)
(* trying to connect, and the clock keeps running.                         *)
(***************************************************************************)
Fairness ==
  /\ \A p \in Pids :
       /\ WF_vars((NodeCreate(p) \/ NodePing(p) \/ NodeHeartBeat(p)
                    \/ NodeExecAdd(p) \/ NodeExecFind(p))
                  /\ UNCHANGED <<ctlVars, kills>>)
       /\ WF_vars(NodeBeat(p) /\ UNCHANGED <<ctlVars, kills>>)
       /\ WF_vars((CreateAnswered(p) \/ PingAnswered(p) \/ AddAnswered(p)
                    \/ FindAnswered(p) \/ BeatReceived(p))
                  /\ UNCHANGED <<nodeVars, kills>>)
       /\ WF_vars(Connect(p) /\ UNCHANGED <<nodeVars, ctlVars, kills>>)
       /\ WF_vars(\E q \in Pids : NodeForward(q, p)
                                    /\ UNCHANGED <<ctlVars, kills>>)
  /\ WF_vars(CheckPending /\ UNCHANGED <<nodeVars, kills>>)
  /\ WF_vars(CheckBeats /\ UNCHANGED <<nodeVars, kills>>)
  /\ WF_vars(Tick)

FairSpec == Spec /\ Fairness

-----------------------------------------------------------------------------
\* Every variable keeps its type.
TypeOK == LinkTypeOK /\ NodeTypeOK /\ ControlTypeOK /\ kills \in Nat

(***************************************************************************)
(* The pid printed after "Ok:" is that of a process that runs the node     *)
(* that was asked for, however far the reply has travelled; and the        *)
(* controller knows no node for which nothing was ever forked              *)
(* (nodes.cpp:82-84, control.cpp:14-19).                                   *)
(***************************************************************************)
CreatedNode(m) ==
  m.command = "Create" => m.add_data \in Pids /\ nodeId[m.add_data] = m.id

CreateRepliesHonest ==
  \A p \in Pids : \A n \in DOMAIN up[p] : CreatedNode(up[p][n])

KnownNodesForked == node_ids_ \subseteq {Root} \cup {nodeId[p] : p \in Pids}

RepliesNameNodes == CreateRepliesHonest /\ KnownNodesForked

(***************************************************************************)
(* No request is ever under way for a node that no control process has     *)
(* known, or waited for for one that the present one does not know (the    *)
(* tests in control.cpp:97, 102, 125, 132 and 143), whatever was forgotten *)
(* or died since.                                                          *)
(***************************************************************************)
RequestsAddressKnownNodes ==
  /\ \A p \in Pids : \A n \in DOMAIN down[p] : down[p][n].id \in everKnown
  /\ \A n \in DOMAIN pending_messages_ :
       pending_messages_[n].msg.id \in node_ids_

(***************************************************************************)
(* No node is its own ancestor: no set of nodes has all its ports bound    *)
(* within the set.  Otherwise a request for a node outside of the set      *)
(* would go round in it for ever (nodes.cpp:127-131).  It is claimed of    *)
(* the first control process only: one that is started again may be told   *)
(* by an old answer of a node whose parent it does not know.               *)
(***************************************************************************)
Runs(S) == {p \in Pids : nodeId[p] \in S}

NoCycle ==
  restarts = 0 =>
    \A S \in (SUBSET Ids) \ {{}} : \E i \in S : owner[i] \notin Runs(S)

(***************************************************************************)
(* When the user never asks twice for the same node, an actor ends only    *)
(* because it was killed, because no process was left to fork, or because  *)
(* the system may have refused the port of the node it was to create       *)
(* (nodes.cpp:54-58, 70-73): no handler throws because two processes of    *)
(* the system want the same port, and no end of one node ends another.     *)
(***************************************************************************)
AskedForRefused ==
  \E p \in Pids : nodeId[p] = NoId /\ nodeId'[p] \in Refused

EndsExplained ==
  [][Careful => \A a \in Actors :
       status[a] = "running" /\ status'[a] = "dead" =>
         kills' = kills + 1 \/ ~ CanFork \/ AskedForRefused]_vars

(***************************************************************************)
(* A write that was reported as done is kept by the process of its node:   *)
(* a later write never loses against an earlier one                        *)
(* (nodes.cpp:105-106, control.cpp:31-34).                                 *)
(***************************************************************************)
AckedWritesKept ==
  Careful => \A i \in Ids, k \in Keys : acked[i][k] # NoWrite =>
               \E p \in Runs({i}) : dictionary[p][k] >= acked[i][k]

(***************************************************************************)
(* What the user is told about a key is never older than a write already   *)
(* acknowledged, and "not found" is never said of a key that was written   *)
(* (nodes.cpp:112-125, control.cpp:26-39).                                 *)
(***************************************************************************)
NotOlder(m) ==
  acked[m.id][m.val] <= IF m.command = "ExecFnd" THEN m.add_data ELSE NoWrite

ReadsSeeAckedWrites ==
  [][Careful => \A q \in Pids : FindAnswered(q) => NotOlder(Answer(q))]_vars

(***************************************************************************)
(* As long as no request is given up, every answer that is under way still *)
(* has a request of its own that waits for it: no answer erases the record *)
(* of another request (control.cpp:75-84).                                 *)
(***************************************************************************)
AnswersTo(m, command, i) ==
  /\ m.id = i
  /\ m.command = command \/ (m.command = "ExecErr" /\ command = "ExecFnd")

Answers(command, i) ==
  UNION {{p} \X {n \in DOMAIN up[p] : AnswersTo(up[p][n], command, i)} :
           p \in Pids}

WaitsFor(m, command, i) ==
  m.command = command /\ i = IF command = "Create" THEN m.add_data ELSE m.id

AnswersAwaited ==
  Careful /\ ~ ClockRuns /\ restarts = 0 =>
    \A command \in {"Create", "Ping", "ExecAdd", "ExecFnd"}, i \in Ids :
      Cardinality(Answers(command, i)) <=
        Cardinality({n \in DOMAIN pending_messages_ :
                       WaitsFor(pending_messages_[n].msg, command, i)})

-----------------------------------------------------------------------------
(***************************************************************************)
(* If no message is ever lost, every request to a node is answered, at     *)
(* whatever depth the node is.  (A request to Root is answered by nobody.) *)
(***************************************************************************)
AllAnswered ==
  \A n \in DOMAIN pending_messages_ : pending_messages_[n].msg.id = Root

EveryRequestAnswered == <>[](lost \/ AllAnswered)

(***************************************************************************)
(* Even if messages are lost and nodes die, every request is settled: it   *)
(* is answered or it is given up, unless the controller itself ended       *)
(* (control.cpp:46-58).                                                    *)
(***************************************************************************)
EveryRequestSettled ==
  <>[](pending_messages_ = <<>> \/ status[Control] = "dead")

(***************************************************************************)
(* With heartbeats on, a node whose process is dead for good and that the  *)
(* controller follows is reported, and once its last beats have arrived it *)
(* stays reported, if the controller itself runs (control.cpp:166-175).    *)
(***************************************************************************)
Alive(i) == \E p \in Runs({i}) : status[p] = "running"

DeadNodeReported ==
  \A i \in Ids :
    <>[](/\ status[Control] = "running"
         /\ beat_tracker[i] # Untracked /\ heartbeat > 0 /\ ~ Alive(i))
      => <>[](i \in reported)

(***************************************************************************)
(* As long as nothing is lost, a node that runs and was told to beat is    *)
(* heard again and again: it does not stay reported                        *)
(* (nodes.cpp:144-150, control.cpp:40-42).                                 *)
(***************************************************************************)
Beats(i) == \E p \in Runs({i}) : status[p] = "running" /\ period[p] > 0

BeatingNodeHeard ==
  \A i \in Ids : []~lost /\ <>[]Beats(i) => []<>(i \notin reported)

-----------------------------------------------------------------------------
(***************************************************************************)
(* What the code or its report says, and the runs refute.                  *)
(*                                                                         *)
(* "Node with id ... already exists" (control.cpp:97-99): no two processes *)
(* run the same node.                                                      *)
(***************************************************************************)
OneProcessPerNode == \A i \in Ids : Cardinality(Runs({i})) <= 1

(***************************************************************************)
(* The report of Lab5 on "heartbit time": every node starts to beat.       *)
(***************************************************************************)
EveryNodeBeats ==
  \A i \in Ids : []~lost /\ <>[](i \in node_ids_ /\ heartbeat > 0 /\ Alive(i))
                   => <>Beats(i)
=============================================================================
