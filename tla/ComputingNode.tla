---------------------------- MODULE ComputingNode ----------------------------
(***************************************************************************)
(* The computing processes of Lab5: class ComputingNode and main of        *)
(* child.cpp.  A process polls its children's sockets, its heartbeat timer *)
(* and its parent's socket in turn, without ever blocking.  Each poll that *)
(* finds something is one action here; as messages take any time to        *)
(* arrive, any order of polls is possible.                                 *)
(*                                                                         *)
(* A throw in a handler is caught only in main, so it ends the process.    *)
(***************************************************************************)
EXTENDS NodeLinks

VARIABLES
  dictionary,  \* dictionary[p]: the value p stores under each key
  period,      \* period[p]: member heartbeat of p, 0 when it does not beat
  sinceBeat    \* sinceBeat[p]: now() - last_beat, in ticks

nodeVars == <<dictionary, period, sinceBeat>>

Absent == -1   \* a key the dictionary does not hold

NodeInit ==
  /\ dictionary = [p \in Pids |-> [k \in Keys |-> Absent]]
  /\ period = [p \in Pids |-> 0]
  /\ sinceBeat = [p \in Pids |-> 0]

NodeTypeOK ==
  /\ dictionary \in [Pids -> [Keys -> Nat \cup {Absent}]]
  /\ period \in [Pids -> Periods \cup {0}]
  /\ sinceBeat \in [Pids -> Nat]

-----------------------------------------------------------------------------
\* The oldest message to p from its parent, received when p polls node_.
Incoming(p) == Head(down[p])

Receives(p, command) ==
  /\ status[p] = "running"
  /\ down[p] # <<>>
  /\ Incoming(p).command = command

\* Is the message for p itself, or for a node further down?
ForMe(p) == Incoming(p).id = nodeId[p]

\* p sends its parent m and touches no other socket.
SendReply(p, m) ==
  /\ down' = Pop(p, down)
  /\ up' = Send(p, m, up)
  /\ lost' = (lost \/ Full(p))
  /\ UNCHANGED <<status, nodeId, owner, connected>>

\* broadcast_to_children
PassOn(p) ==
  /\ \E T \in SUBSET Pids :
       /\ IsBroadcast(p, T)
       /\ down' = Broadcast(T, Incoming(p), Pop(p, down))
  /\ lost' = (lost \/ DropsCopy(p))
  /\ UNCHANGED <<status, nodeId, owner, connected, up>>

-----------------------------------------------------------------------------
\* Mutant: the reply names the parent, as the request did.
ForkChildNamingParent(p, i) ==
  /\ ForkAndBind(p, i)
  /\ down' = Pop(p, down)
  /\ up' = Send(p, Msg("Create", nodeId[p], FreshPid), up)
  /\ lost' = (lost \/ Full(p))

\* handle_create, for this node: the reply names the child and its pid.
ForkChild(p, i) ==
  /\ ForkAndBind(p, i)
  /\ down' = Pop(p, down)
  /\ up' = Send(p, Msg("Create", i, FreshPid), up)
  /\ lost' = (lost \/ Full(p))

NodeCreate(p) ==
  /\ Receives(p, "Create")
  /\ \/ ~ ForMe(p) /\ PassOn(p)
     \/ ForMe(p) /\ ForkChild(p, Incoming(p).add_data)
     \/ ForMe(p) /\ BindFails(p, Incoming(p).add_data, up[p])
     \/ ForMe(p) /\ ForkFails(p, up[p])
  /\ UNCHANGED nodeVars

\* handle_ping
NodePing(p) ==
  /\ Receives(p, "Ping")
  /\ \/ ForMe(p) /\ SendReply(p, Incoming(p))
     \/ ~ ForMe(p) /\ PassOn(p)
  /\ UNCHANGED nodeVars

\* handle_heartbeat: nobody answers it, everybody passes it on.
NodeHeartBeat(p) ==
  /\ Receives(p, "HeartBeat")
  /\ period' = [period EXCEPT ![p] = Incoming(p).add_data]
  /\ PassOn(p)
  /\ UNCHANGED <<dictionary, sinceBeat>>

\* Mutant: map::insert, which keeps the value that is there.
NodeExecAddOnce(p) ==
  /\ Receives(p, "ExecAdd")
  /\ \/ /\ ForMe(p)
        /\ dictionary' = [dictionary EXCEPT ![p][Incoming(p).val] =
                            IF @ = Absent THEN Incoming(p).add_data ELSE @]
        /\ SendReply(p, Incoming(p))
     \/ /\ ~ ForMe(p)
        /\ PassOn(p)
        /\ UNCHANGED dictionary
  /\ UNCHANGED <<period, sinceBeat>>

\* handle_exec_add: the reply is the request itself.
NodeExecAdd(p) ==
  /\ Receives(p, "ExecAdd")
  /\ \/ /\ ForMe(p)
        /\ dictionary' =
             [dictionary EXCEPT ![p][Incoming(p).val] = Incoming(p).add_data]
        /\ SendReply(p, Incoming(p))
     \/ /\ ~ ForMe(p)
        /\ PassOn(p)
        /\ UNCHANGED dictionary
  /\ UNCHANGED <<period, sinceBeat>>

\* Mutant: the answer "not found" does not say what was not found.
FindReplyUnnamed(p, key) ==
  IF dictionary[p][key] # Absent
  THEN MsgVal("ExecFnd", nodeId[p], dictionary[p][key], key)
  ELSE Msg("ExecErr", nodeId[p], -1)

\* Mutant: the test is the wrong way round.
FindReplyInverted(p, key) ==
  IF dictionary[p][key] = Absent
  THEN MsgVal("ExecFnd", nodeId[p], dictionary[p][key], key)
  ELSE MsgVal("ExecErr", nodeId[p], -1, key)

\* handle_exec_find
FindReply(p, key) ==
  IF dictionary[p][key] # Absent
  THEN MsgVal("ExecFnd", nodeId[p], dictionary[p][key], key)
  ELSE MsgVal("ExecErr", nodeId[p], -1, key)

NodeExecFind(p) ==
  /\ Receives(p, "ExecFnd")
  /\ \/ ForMe(p) /\ SendReply(p, FindReply(p, Incoming(p).val))
     \/ ~ ForMe(p) /\ PassOn(p)
  /\ UNCHANGED nodeVars

-----------------------------------------------------------------------------
\* The polls of run() that do not wait for a request: p hands a message of
\* its child process q to its own parent, unread ...
NodeForward(p, q) ==
  /\ status[p] = "running"
  /\ q \in ChildProcs(p)
  /\ Readable(q)
  /\ up' = Send(p, Head(up[q]), Pop(q, up))
  /\ lost' = (lost \/ Full(p))
  /\ UNCHANGED <<status, nodeId, owner, connected, down, nodeVars>>

\* Mutant: the beat does not say whose it is.
NodeBeatUnnamed(p) ==
  /\ status[p] = "running"
  /\ period[p] > 0
  /\ sinceBeat[p] > period[p]
  /\ up' = Send(p, Msg("HeartBeat", Root, -1), up)
  /\ lost' = (lost \/ Full(p))
  /\ sinceBeat' = [sinceBeat EXCEPT ![p] = 0]
  /\ UNCHANGED <<status, nodeId, owner, connected, down, dictionary, period>>

\* ... and p reports that it is alive, once a period.
NodeBeat(p) ==
  /\ status[p] = "running"
  /\ period[p] > 0
  /\ sinceBeat[p] > period[p]
  /\ up' = Send(p, Msg("HeartBeat", nodeId[p], -1), up)
  /\ lost' = (lost \/ Full(p))
  /\ sinceBeat' = [sinceBeat EXCEPT ![p] = 0]
  /\ UNCHANGED <<status, nodeId, owner, connected, down, dictionary, period>>

NodeStep ==
  \/ \E p \in Pids : \/ NodeCreate(p)
                     \/ NodePing(p)
                     \/ NodeHeartBeat(p)
                     \/ NodeExecAdd(p)
                     \/ NodeExecFind(p)
                     \/ NodeBeat(p)
  \/ \E p, q \in Pids : NodeForward(p, q)

\* A tick on the clocks of the running processes.  Beyond the longest period
\* a clock need not count on.
LongestPeriod == CHOOSE t \in Periods \cup {0} : \A u \in Periods : u <= t

NodeTick ==
  sinceBeat' = [p \in Pids |->
    IF status[p] = "running" /\ sinceBeat[p] <= LongestPeriod
    THEN sinceBeat[p] + 1 ELSE sinceBeat[p]]
=============================================================================
