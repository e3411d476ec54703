-------------------------- MODULE ClusterTreeProofs --------------------------
(***************************************************************************)
(* Proofs about the tree of processes of Lab5: it has no cycle, and if the *)
(* user never asks twice for a node, no process ends because two of them   *)
(* want the same port.                                                     *)
(***************************************************************************)
EXTENDS ClusterProofs, FiniteSetTheorems

-----------------------------------------------------------------------------
(***************************************************************************)
(* What an end leaves.  Ports are given back, and of a queue downwards the *)
(* first part stays, or all but the oldest message, or nothing.            *)
(***************************************************************************)
Part(t, s) == \E k \in {1, 2}, n \in 0 .. Len(s) : t = SubSeq(s, k, n)

QueuesShrink ==
  /\ down' = [p \in Pids |-> down'[p]]
  /\ \A p \in Pids : Part(down'[p], down[p])

PortsGivenBack == \A i \in Ids : owner'[i] \in {owner[i], NoOwner}

Within(t, s) ==
  \E d \in {0, 1} : \A n \in DOMAIN t :
     n \in Nat /\ n + d \in DOMAIN s /\ t[n] = s[n + d]

LEMMA PartOf ==
  ASSUME NEW S, NEW s \in Seq(S), NEW t, Part(t, s)
  PROVE  t \in Seq(S) /\ Within(t, s)
<1>1. PICK k \in {1, 2}, n \in 0 .. Len(s) : t = SubSeq(s, k, n)
  BY DEF Part
<1>2. Len(s) \in Nat /\ DOMAIN s = 1 .. Len(s) /\ \A i \in 1 .. Len(s) : s[i] \in S
  BY LenProperties, ElementOfSeq
<1>3. k \in Int /\ n \in Int /\ \A i \in k .. n : i \in 1 .. Len(s)
  BY <1>2
<1>4. /\ t \in Seq(S)
      /\ Len(t) = IF k <= n THEN n - k + 1 ELSE 0
      /\ \A i \in 1 .. n - k + 1 : t[i] = s[k + i - 1]
  BY <1>1, <1>2, <1>3, SubSeqProperties
<1>5. DOMAIN t = 1 .. Len(t)
  BY <1>4, LenProperties
<1>6. PICK d \in {0, 1} : k = d + 1
  OBVIOUS
<1>7. ASSUME NEW i \in DOMAIN t
      PROVE  i \in Nat /\ i + d \in DOMAIN s /\ t[i] = s[i + d]
  <2>1. k <= n /\ i \in 1 .. n - k + 1
    BY <1>3, <1>4, <1>5
  <2>2. k + i - 1 = i + d /\ i + d \in 1 .. Len(s)
    BY <1>2, <1>6, <2>1
  <2>3. t[i] = s[k + i - 1]
    BY <1>4, <2>1
  <2>4. i \in Nat
    BY <1>3, <2>1
  <2> QED
    BY <1>2, <2>2, <2>3, <2>4
<1> QED
  BY <1>4, <1>7 DEF Within

\* A whole queue, one without its head, its first part, and none of it.
LEMMA PartKinds ==
  ASSUME NEW S, NEW s \in Seq(S)
  PROVE  /\ Part(s, s)
         /\ s # <<>> => Part(Tail(s), s)
         /\ \A n \in 0 .. Len(s) : Part(SubSeq(s, 1, n), s)
         /\ Part(<<>>, s)
<1>1. Len(s) \in Nat /\ 0 \in 0 .. Len(s) /\ Len(s) \in 0 .. Len(s)
  BY LenProperties
<1>2. s = SubSeq(s, 1, Len(s))
  BY <1>1
<1>3. s # <<>> => Tail(s) = SubSeq(s, 2, Len(s))
  BY <1>1
<1>4. <<>> = SubSeq(s, 1, 0)
  BY SubSeqEmpty
<1> QED
  BY <1>1, <1>2, <1>3, <1>4 DEF Part

LEMMA PartOfNone == ASSUME NEW t, Part(t, <<>>) PROVE t = <<>>
<1>1. PICK k \in {1, 2}, n \in 0 .. Len(<<>>) : t = SubSeq(<<>>, k, n)
  BY DEF Part
<1>2. k \in Int /\ n \in Int /\ n < k
  BY <1>1
<1> QED
  BY <1>1, <1>2, SubSeqEmpty

LEMMA ShrinkType ==
  ASSUME NEW S, down \in [Pids -> Seq(S)], QueuesShrink
  PROVE  down' \in [Pids -> Seq(S)]
<1>1. \A p \in Pids : down'[p] \in Seq(S)
  BY PartOf DEF QueuesShrink
<1> QED
  BY <1>1 DEF QueuesShrink

LEMMA NothingShrinks ==
  ASSUME LinkTypeOK, UNCHANGED <<owner, down>>
  PROVE  PortsGivenBack /\ QueuesShrink
<1>1. \A p \in Pids : Part(down[p], down[p])
  BY PartKinds DEF LinkTypeOK
<1> QED
  BY <1>1 DEF PortsGivenBack, QueuesShrink, LinkTypeOK

LEMMA CloseShrinks ==
  ASSUME LinkTypeOK, NEW a, NEW kept, Closes(a, kept)
  PROVE  PortsGivenBack /\ QueuesShrink
<1>1. PICK sent : CloseSockets(a, kept, sent) /\ FirstParts(sent)
  BY DEF Closes
<1>2. PortsGivenBack
  BY <1>1 DEF CloseSockets, PortsGivenBack
<1>3. /\ down' = [p \in Pids |-> down'[p]]
      /\ \A p \in Pids : down'[p] \in {<<>>, sent[p]}
  BY <1>1 DEF CloseSockets
<1>4. ASSUME NEW p \in Pids
      PROVE  Part(down'[p], down[p])
  <2>1. PICK n \in 0 .. Len(down[p]) : sent[p] = SubSeq(down[p], 1, n)
    BY <1>1 DEF FirstParts
  <2>2. down[p] \in Seq(Request)
    BY DEF LinkTypeOK
  <2>3. Part(sent[p], down[p]) /\ Part(<<>>, down[p])
    BY <2>1, <2>2, PartKinds
  <2> QED
    BY <1>3, <2>3
<1> QED
  BY <1>2, <1>3, <1>4 DEF QueuesShrink

LEMMA ThrowShrinks ==
  ASSUME LinkTypeOK, NEW a, NEW kept,
         (\E i : BindFails(a, i, kept)) \/ ForkFails(a, kept)
  PROVE  PortsGivenBack /\ QueuesShrink
BY ThrowCloses, CloseShrinks

LEMMA KillShrinks ==
  ASSUME LinkTypeOK, Kills
  PROVE  PortsGivenBack /\ QueuesShrink
<1>1. PICK a \in Actors : Kill(a)
  BY DEF Kills
<1> QED
  BY <1>1, KillCloses, CloseShrinks

-----------------------------------------------------------------------------
(***************************************************************************)
(* What goes down.                                                         *)
(***************************************************************************)

\* A computing process sends down only what it has received.
LEMMA NodeStepDown ==
  ASSUME LinkTypeOK, NEW S, down \in [Pids -> Seq(S)], NodeStep
  PROVE  down' \in [Pids -> Seq(S)]
<1>1. ASSUME NEW p \in Pids, down[p] # <<>>, NEW m, SendReply(p, m)
      PROVE  down' \in [Pids -> Seq(S)]
  BY <1>1, PopType DEF SendReply
<1>2. ASSUME NEW p \in Pids, down[p] # <<>>, PassOn(p)
      PROVE  down' \in [Pids -> Seq(S)]
  <2>1. PICK T : down' = Broadcast(T, Incoming(p), Pop(p, down))
    BY <1>2 DEF PassOn
  <2>2. Incoming(p) \in S /\ Pop(p, down) \in [Pids -> Seq(S)]
    BY <1>2, PopType DEF Incoming
  <2> QED
    BY <2>1, <2>2, BroadcastType
<1>3. ASSUME NEW a, NEW i, NEW kept, BindFails(a, i, kept) \/ ForkFails(a, kept)
      PROVE  down' \in [Pids -> Seq(S)]
  BY <1>3, ThrowShrinks, ShrinkType
<1>4. ASSUME NEW p \in Pids, NodeCreate(p)
      PROVE  down' \in [Pids -> Seq(S)]
  <2>1. down[p] # <<>>
    BY <1>4 DEF NodeCreate, Receives
  <2>2. CASE ForkChild(p, Incoming(p).add_data)
    BY <2>1, <2>2, PopType DEF ForkChild
  <2> QED
    BY <1>2, <1>3, <1>4, <2>1, <2>2 DEF NodeCreate
<1>5. ASSUME NEW p \in Pids,
             NodePing(p) \/ NodeHeartBeat(p) \/ NodeExecAdd(p) \/ NodeExecFind(p)
      PROVE  down' \in [Pids -> Seq(S)]
  BY <1>1, <1>2, <1>5
  DEF NodePing, NodeHeartBeat, NodeExecAdd, NodeExecFind, Receives
<1>6. ASSUME NEW p \in Pids, NEW q \in Pids, NodeForward(p, q) \/ NodeBeat(p)
      PROVE  down' \in [Pids -> Seq(S)]
  BY <1>6 DEF NodeForward, NodeBeat
<1> QED
  BY <1>4, <1>5, <1>6 DEF NodeStep

\* The control process sends one request per command.
LEMMA UserCommandDown ==
  ASSUME LinkTypeOK, NEW S, down \in [Pids -> Seq(S)], UserCommand,
         \A c \in Ids, parent \in NodeIds \ {Root} :
            CreateCommand(c, parent) => Msg("Create", parent, c) \in S,
         \A i \in NodeIds, k \in Keys :
            /\ MsgVal("ExecAdd", i, requests + 1, k) \in S
            /\ MsgVal("ExecFnd", i, -1, k) \in S,
         \A i \in NodeIds : Msg("Ping", i, 0) \in S,
         \A time \in Periods : Msg("HeartBeat", Root, time) \in S
  PROVE  down' \in [Pids -> Seq(S)]
<1>1. ASSUME NEW m \in S, SendToChildren(m)
      PROVE  down' \in [Pids -> Seq(S)]
  BY <1>1, BroadcastType DEF SendToChildren
<1>2. ASSUME NEW c \in Ids, NEW parent \in NodeIds, CreateCommand(c, parent)
      PROVE  down' \in [Pids -> Seq(S)]
  <2>1. CASE parent = Root
    BY <1>2, <2>1, ThrowShrinks, ShrinkType
    DEF CreateCommand, CreateCommandAtRoot
  <2>2. CASE parent # Root
    BY <1>1, <1>2, <2>2 DEF CreateCommand, BroadcastMessage
  <2> QED
    BY <2>1, <2>2
<1>3. ASSUME NEW i \in NodeIds, NEW k \in Keys,
             ExecAddCommand(i, k) \/ ExecFindCommand(i, k)
      PROVE  down' \in [Pids -> Seq(S)]
  <2>1. \E m \in S : SendToChildren(m)
    BY <1>3 DEF ExecAddCommand, ExecFindCommand, SendRequest, BroadcastMessage
  <2> QED
    BY <1>1, <2>1
<1>4. ASSUME NEW i \in NodeIds, PingCommand(i)
      PROVE  down' \in [Pids -> Seq(S)]
  BY <1>1, <1>4 DEF PingCommand, SendRequest, BroadcastMessage
<1>5. ASSUME NEW time \in Periods, HeartbeatCommand(time)
      PROVE  down' \in [Pids -> Seq(S)]
  BY <1>1, <1>5 DEF HeartbeatCommand
<1> QED
  BY <1>2, <1>3, <1>4, <1>5 DEF UserCommand

\* Nobody else sends anything down.
LEMMA OtherDown ==
  ASSUME LinkTypeOK, NEW S, down \in [Pids -> Seq(S)],
         ControlStep \/ ControlRestart \/ Connects \/ Kills \/ Tick \/ UNCHANGED vars
  PROVE  down' \in [Pids -> Seq(S)]
<1>1. CASE Kills
  BY <1>1, KillShrinks, ShrinkType
<1>2. CASE ControlStep
  BY <1>2 DEF ControlStep, CreateAnswered, PingAnswered, AddAnswered,
              FindAnswered, BeatReceived, ControlReceives, CheckPending,
              CheckBeats, linkVars
<1> QED
  BY <1>1, <1>2 DEF ControlRestart, Connects, Connect, Tick, vars, linkVars

-----------------------------------------------------------------------------
(***************************************************************************)
(* No cycle.  E holds who was asked to be the parent of whom: an edge      *)
(* leads from a node the controller knows to one that it did not know when *)
(* it sent the request.  A new edge leads to a node that no edge leaves.   *)
(***************************************************************************)
Grounded(E) ==
  \A S \in (SUBSET Ids) \ {{}} : \E i \in S : \A j \in S : <<j, i>> \notin E

Along(E) == {m \in Request : m.command = "Create" => <<m.id, m.add_data>> \in E}

Edges(E) ==
  /\ E \subseteq node_ids_ \X Ids
  /\ Grounded(E)
  /\ down \in [Pids -> Seq(Along(E))]
  /\ \A i \in Ids, p \in Pids : owner[i] = p => <<nodeId[p], i>> \in E

CycleInv == restarts = 0 => \E E \in SUBSET (NodeIds \X Ids) : Edges(E)

THEOREM InvImpliesNoCycle == CycleInv => NoCycle
<1> SUFFICES ASSUME CycleInv, restarts = 0,
                    NEW S \in (SUBSET Ids) \ {{}}
             PROVE  \E i \in S : owner[i] \notin Runs(S)
  BY DEF NoCycle
<1>1. PICK E : Edges(E)
  BY DEF CycleInv
<1>2. PICK i \in S : \A j \in S : <<j, i>> \notin E
  BY <1>1 DEF Edges, Grounded
<1> QED
  BY <1>1, <1>2 DEF Edges, Runs

\* An edge to a node that no edge leaves closes no cycle.
LEMMA GroundedAdd ==
  ASSUME NEW E, Grounded(E), NEW c, NEW parent, parent # c,
         \A i \in Ids : <<c, i>> \notin E
  PROVE  Grounded(E \cup {<<parent, c>>})
<1> SUFFICES ASSUME NEW S \in (SUBSET Ids) \ {{}}
             PROVE  \E i \in S : \A j \in S : <<j, i>> \notin E \cup {<<parent, c>>}
  BY DEF Grounded
<1>1. CASE S \ {c} = {}
  <2>1. PICK x : x \in S
    OBVIOUS
  <2>2. \A j \in S : j = c
    BY <1>1
  <2>3. c \in S /\ c \in Ids /\ \A j \in S : j = c
    BY <2>1, <2>2
  <2>4. <<c, c>> \notin E \cup {<<parent, c>>}
    BY <2>3
  <2> QED
    BY <2>3, <2>4
<1>2. CASE S \ {c} # {}
  <2>1. S \ {c} \in (SUBSET Ids) \ {{}}
    BY <1>2
  <2>2. PICK i \in S \ {c} : \A j \in S \ {c} : <<j, i>> \notin E
    BY <2>1 DEF Grounded
  <2> QED
    BY <2>2
<1> QED
  BY <1>1, <1>2

\* Who was asked stays so when a port is given back and nothing new is asked.
LEMMA EdgesKept ==
  ASSUME Inv, NEW E, Edges(E), node_ids_ \subseteq node_ids_',
         down' \in [Pids -> Seq(Along(E))],
         PortsGivenBack,
         \A p \in Pids : nodeId[p] # NoId => nodeId'[p] = nodeId[p]
  PROVE  Edges(E)'
<1>1. ASSUME NEW i \in Ids, NEW p \in Pids, owner'[i] = p
      PROVE  <<nodeId'[p], i>> \in E
  <2>1. owner[i] = p
    BY <1>1, LinkAssumption DEF NoOwner, PortsGivenBack
  <2>2. <<nodeId[p], i>> \in E /\ nodeId[p] \in node_ids_
    BY <2>1 DEF Edges
  <2>3. nodeId[p] # NoId
    BY <2>2, MessageAssumption
    DEF Inv, ControlInv, ControlTypeOK, NodeIds, NoId, Root
  <2> QED
    BY <2>2, <2>3
<1>2. Along(E)' = Along(E) /\ Grounded(E)' = Grounded(E)
  BY DEF Along, Grounded
<1> QED
  BY <1>1, <1>2 DEF Edges

\* The steps of a computing process: a request becomes the port it asked for.
LEMMA NodeStepEdges ==
  ASSUME Inv, NEW E, Edges(E), NodeStep, UNCHANGED node_ids_
  PROVE  Edges(E)'
<1>1. down' \in [Pids -> Seq(Along(E))]
  BY NodeStepDown DEF Edges, Inv, LinkInv
<1>2. \A p \in Pids : nodeId[p] # NoId => nodeId'[p] = nodeId[p]
  BY NodeStepKeepsIds DEF Inv
<1>3. ASSUME NEW p \in Pids, NodeCreate(p), ForkChild(p, Incoming(p).add_data),
             Incoming(p).id = nodeId[p]
      PROVE  Edges(E)'
  <2> DEFINE i == Incoming(p).add_data
  <2>1. down[p] # <<>> /\ Incoming(p).command = "Create" /\ status[p] = "running"
    BY <1>3 DEF NodeCreate, Receives
  <2>2. Incoming(p) \in Along(E)
    BY <2>1, PopType DEF Edges, Incoming
  <2>3. <<nodeId[p], i>> \in E
    BY <1>3, <2>1, <2>2 DEF Along
  <2>4. /\ owner' = [owner EXCEPT ![i] = p]
        /\ nodeId' = [nodeId EXCEPT ![FreshPid] = i]
    BY <1>3 DEF ForkChild, ForkAndBind
  <2>5. nodeId[p] # NoId
    BY <2>1 DEF Inv, LinkInv, BornHaveIds
  <2>6. ASSUME NEW j \in Ids, NEW q \in Pids, owner'[j] = q
        PROVE  <<nodeId'[q], j>> \in E
    <3>1. CASE j = i
      <4>1. q = p
        BY <2>4, <2>6, <3>1 DEF Inv, LinkInv, LinkTypeOK
      <4> QED
        BY <1>2, <2>3, <2>5, <3>1, <4>1
    <3>2. CASE j # i
      <4>1. owner[j] = q
        BY <2>4, <2>6, <3>2 DEF Inv, LinkInv, LinkTypeOK
      <4>2. <<nodeId[q], j>> \in E /\ nodeId[q] \in node_ids_
        BY <4>1 DEF Edges
      <4>3. nodeId[q] # NoId
        BY <4>2, MessageAssumption
        DEF Inv, ControlInv, ControlTypeOK, NodeIds, NoId, Root
      <4> QED
        BY <1>2, <4>2, <4>3
    <3> QED
      BY <3>1, <3>2
  <2>7. Along(E)' = Along(E) /\ Grounded(E)' = Grounded(E)
    BY DEF Along, Grounded
  <2> QED
    BY <1>1, <2>6, <2>7 DEF Edges
<1>5. ASSUME NEW p \in Pids,
             \/ NodePing(p) \/ NodeHeartBeat(p) \/ NodeExecAdd(p)
             \/ NodeExecFind(p) \/ NodeBeat(p)
             \/ \E r \in Pids : NodeForward(p, r)
      PROVE  UNCHANGED owner
  BY <1>5 DEF NodePing, NodeHeartBeat, NodeExecAdd, NodeExecFind, NodeBeat,
              NodeForward, SendReply, PassOn
<1>6. CASE PortsGivenBack
  BY <1>1, <1>2, <1>6, EdgesKept
<1>7. ASSUME NEW p \in Pids, NodeCreate(p)
      PROVE  Edges(E)'
  <2>1. CASE PassOn(p)
    BY <1>6, <2>1 DEF PassOn, PortsGivenBack
  <2>2. CASE BindFails(p, Incoming(p).add_data, up[p]) \/ ForkFails(p, up[p])
    BY <1>6, <2>2, ThrowShrinks DEF Inv, LinkInv
  <2> QED
    BY <1>3, <1>7, <2>1, <2>2 DEF NodeCreate, ForMe
<1> QED
  BY <1>5, <1>6, <1>7 DEF NodeStep, PortsGivenBack

\* A command asks a node that is known for one that is not.
LEMMA CreateCommandEdges ==
  ASSUME Inv, NEW E, Edges(E), NEW c \in Ids, NEW parent \in NodeIds,
         CreateCommand(c, parent), restarts = 0
  PROVE  \E F \in SUBSET (NodeIds \X Ids) : Edges(F)'
<1>1. E \in SUBSET (NodeIds \X Ids)
  BY DEF Edges, Inv, ControlInv, ControlTypeOK
<1>2. c \notin node_ids_ /\ parent \in node_ids_
  BY DEF CreateCommand
<1>3. CASE parent = Root
  <2>0. CreateCommandAtRoot(c)
    BY <1>3 DEF CreateCommand, CreateCommandAtRoot
  <2>1. LinkInv' /\ node_ids_ \subseteq node_ids_'
    BY <2>0, CreateCommandAtRootInv DEF Inv, CreateCommand
  <2>2. down' \in [Pids -> Seq(Along(E))]
    <3>1. LinkTypeOK /\ down \in [Pids -> Seq(Along(E))]
      BY DEF Edges, Inv, LinkInv
    <3> QED
      BY <2>0, <3>1, ThrowShrinks, ShrinkType DEF CreateCommandAtRoot
  <2>3. \A p \in Pids : nodeId[p] # NoId => nodeId'[p] = nodeId[p]
    <3>1. \/ UNCHANGED nodeId
          \/ CanFork /\ nodeId' = [nodeId EXCEPT ![FreshPid] = c]
      BY <2>0 DEF CreateCommandAtRoot, ForkAndBind, BindFails, ForkFails
    <3>2. CanFork => nodeId[FreshPid] = NoId
      BY FreshPidType DEF Inv, LinkInv, BornHaveIds
    <3> QED
      BY <3>1, <3>2 DEF Inv, LinkInv, LinkTypeOK
  <2>4. CASE PortsGivenBack
    BY <1>1, <2>1, <2>2, <2>3, <2>4, EdgesKept
  <2>5. CASE owner' = [owner EXCEPT ![c] = Control]
    <3>1. ASSUME NEW i \in Ids, NEW p \in Pids, owner'[i] = p
          PROVE  <<nodeId'[p], i>> \in E
      <4>1. owner[i] = p
        BY <2>5, <3>1, LinkAssumption DEF Control, Inv, LinkInv, LinkTypeOK
      <4>2. <<nodeId[p], i>> \in E /\ nodeId[p] \in node_ids_
        BY <4>1 DEF Edges
      <4>3. nodeId[p] # NoId
        BY <4>2, MessageAssumption
        DEF Inv, ControlInv, ControlTypeOK, NodeIds, NoId, Root
      <4> QED
        BY <2>3, <4>2, <4>3
    <3>2. Along(E)' = Along(E) /\ Grounded(E)' = Grounded(E)
      BY DEF Along, Grounded
    <3> QED
      BY <1>1, <2>1, <2>2, <3>1, <3>2 DEF Edges
  <2> QED
    BY <2>0, <2>4, <2>5, ThrowShrinks
    DEF CreateCommandAtRoot, ForkAndBind, Inv, LinkInv
<1>4. CASE parent # Root
  <2> DEFINE F == E \cup {<<parent, c>>}
             m == Msg("Create", parent, c)
  <2>1. /\ BroadcastMessage(m) /\ UNCHANGED <<node_ids_, owner, nodeId>>
    BY <1>4 DEF CreateCommand, BroadcastMessage, SendToChildren
  <2>2. PICK T : down' = Broadcast(T, m, down)
    BY <2>1 DEF BroadcastMessage, SendToChildren
  <2>3. m \in Along(F)
    BY DEF Msg, Along, Request
  <2>4. Along(E) \subseteq Along(F)
    BY DEF Along
  <2>5. down' \in [Pids -> Seq(Along(F))]
    <3>1. down \in [Pids -> Seq(Along(F))]
      BY <2>4, QueueMonotone DEF Edges
    <3> QED
      BY <2>2, <2>3, <3>1, BroadcastType
  <2>6. Grounded(F)
    <3>1. \A i \in Ids : <<c, i>> \notin E
      BY <1>2 DEF Edges
    <3>2. Grounded(E) /\ parent # c
      BY <1>2 DEF Edges
    <3> QED
      BY <3>1, <3>2, GroundedAdd
  <2>7. F \subseteq node_ids_ \X Ids /\ F \in SUBSET (NodeIds \X Ids)
    BY <1>1, <1>2 DEF Edges
  <2>8. \A i \in Ids, p \in Pids : owner[i] = p => <<nodeId[p], i>> \in F
    BY DEF Edges
  <2> HIDE DEF F
  <2>9. Along(F)' = Along(F) /\ Grounded(F)' = Grounded(F)
    BY DEF Along, Grounded
  <2>10. Edges(F)'
    BY <2>1, <2>5, <2>6, <2>7, <2>8, <2>9 DEF Edges
  <2> QED
    BY <2>7, <2>10
<1> QED
  BY <1>3, <1>4

LEMMA UserCommandEdges ==
  ASSUME Inv, NEW E, Edges(E), UserCommand, restarts = 0
  PROVE  \E F \in SUBSET (NodeIds \X Ids) : Edges(F)'
<1>1. CASE \E c \in Ids, parent \in NodeIds : CreateCommand(c, parent)
  BY <1>1, CreateCommandEdges
<1>2. CASE ~ \E c \in Ids, parent \in NodeIds : CreateCommand(c, parent)
  <2>1. UNCHANGED <<owner, nodeId, node_ids_>>
    BY <1>2 DEF UserCommand, ExecAddCommand, ExecFindCommand, PingCommand,
                HeartbeatCommand, SendRequest, BroadcastMessage, SendToChildren
  <2>2. /\ \A i \in NodeIds, k \in Keys :
             /\ MsgVal("ExecAdd", i, requests + 1, k) \in Along(E)
             /\ MsgVal("ExecFnd", i, -1, k) \in Along(E)
        /\ \A i \in NodeIds : Msg("Ping", i, 0) \in Along(E)
        /\ \A time \in Periods : Msg("HeartBeat", Root, time) \in Along(E)
    BY MessageAssumption
    DEF MsgVal, Msg, Along, Request, Inv, ControlInv, ControlTypeOK, NodeIds
  <2>3. down' \in [Pids -> Seq(Along(E))]
    BY <1>2, <2>2, UserCommandDown DEF Edges, Inv, LinkInv
  <2>4. Edges(E)'
    BY <2>1, <2>3, EdgesKept DEF PortsGivenBack
  <2> QED
    BY <2>1, <2>4 DEF Edges, Inv, ControlInv, ControlTypeOK
<1> QED
  BY <1>1, <1>2

\* Whatever happens, the edges stay or one is added.
LEMMA CycleStep ==
  ASSUME Inv, CycleInv, [Next]_vars
  PROVE  CycleInv'
<1> SUFFICES ASSUME restarts' = 0
             PROVE  \E E \in SUBSET (NodeIds \X Ids) : Edges(E)'
  BY DEF CycleInv
<1>0. Inv'
  BY NextInv
<1>1. restarts = 0 /\ ~ ControlRestart
  <2>1. restarts \in Nat
    BY DEF Inv, ControlInv, ControlTypeOK
  <2>2. ~ ControlRestart
    BY <2>1 DEF ControlRestart
  <2>3. UNCHANGED restarts
    BY <2>2 DEF Next, NodeStep, ControlStep, UserCommand, Connects, Kills, Tick,
      vars, ctlVars, CreateAnswered, PingAnswered, AddAnswered, FindAnswered,
      BeatReceived, CheckPending, CheckBeats, CreateCommand, ExecAddCommand,
      ExecFindCommand, PingCommand, HeartbeatCommand, SendRequest
  <2> QED
    BY <2>2, <2>3
<1>2. PICK E \in SUBSET (NodeIds \X Ids) : Edges(E)
  BY <1>1 DEF CycleInv
<1>3. CASE NodeStep /\ UNCHANGED <<ctlVars, kills>>
  BY <1>2, <1>3, NodeStepEdges DEF ctlVars
<1>4. CASE UserCommand
  BY <1>1, <1>2, <1>4, UserCommandEdges
<1>5. CASE ControlStep \/ Connects \/ Kills \/ Tick \/ UNCHANGED vars
  <2>1. down' \in [Pids -> Seq(Along(E))]
    BY <1>2, <1>5, OtherDown DEF Edges, Inv, LinkInv
  <2>2. UNCHANGED nodeId /\ PortsGivenBack
    <3>1. CASE Kills
      BY <3>1, KillShrinks DEF Kills, Kill, Inv, LinkInv
    <3>2. CASE ControlStep
      BY <3>2 DEF ControlStep, CreateAnswered, PingAnswered, AddAnswered,
                  FindAnswered, BeatReceived, ControlReceives, CheckPending,
                  CheckBeats, linkVars, PortsGivenBack
    <3> QED
      BY <1>5, <3>1, <3>2
      DEF Connects, Connect, Tick, vars, linkVars, PortsGivenBack
  <2>3. node_ids_ \subseteq node_ids_'
    BY <1>5 DEF ControlStep, CreateAnswered, PingAnswered, AddAnswered,
                FindAnswered, BeatReceived, CheckPending, CheckBeats, Connects,
                Kills, Tick, ctlVars, vars
  <2>4. Edges(E)'
    BY <1>2, <2>1, <2>2, <2>3, EdgesKept
  <2> QED
    BY <2>4
<1> QED
  BY <1>1, <1>3, <1>4, <1>5 DEF Next

LEMMA CycleInit == Init => CycleInv
<1> SUFFICES ASSUME Init
             PROVE  Edges({})
  BY DEF CycleInv
<1>1. down \in [Pids -> Seq(Along({}))]
  BY EmptySeq DEF Init, LinkInit
<1>2. \A i \in Ids, p \in Pids : owner[i] # p
  BY LinkAssumption DEF Init, LinkInit, NoOwner
<1> QED
  BY <1>1, <1>2 DEF Edges, Grounded

(***************************************************************************)
(* As long as the first control process is at work, no node is its own     *)
(* ancestor, whatever is asked twice, lost, given up or killed: a request  *)
(* that is passed on comes to an end (nodes.cpp:127-131).                  *)
(***************************************************************************)
THEOREM TreeHasNoCycle == Spec => []NoCycle
<1>1. Inv /\ CycleInv /\ [Next]_vars => CycleInv'
  BY CycleStep
<1>2. Spec => []CycleInv
  BY <1>1, CycleInit, SpecInv, PTL DEF Spec
<1> QED
  BY <1>2, InvImpliesNoCycle, PTL

-----------------------------------------------------------------------------
(***************************************************************************)
(* Numbered messages.  num[m] is 0 for a message that has no number.  In   *)
(* every queue numbers rise; H[p] is the highest number that p was ever    *)
(* sent, which nobody below p has been sent before p passes it on.         *)
(***************************************************************************)
Rising(s, num, h) ==
  /\ \A n \in DOMAIN s : num[s[n]] <= h
  /\ \A n, k \in DOMAIN s : n < k /\ num[s[k]] > 0 => num[s[n]] < num[s[k]]

Above(s, num, h) == \A n \in DOMAIN s : num[s[n]] > 0 => h < num[s[n]]

Flow(num, H, top) ==
  /\ \A p \in Pids : /\ Rising(down[p], num, H[p])
                     /\ nodeId[p] = NoId => H[p] = 0 /\ down[p] = <<>>
  /\ \A p \in Pids : \A q \in ChildProcs(p) :
       H[q] <= H[p] /\ Above(down[p], num, H[q])
  /\ \A q \in ChildProcs(Control) : H[q] <= top

\* The rest of a queue rises above its head.
LEMMA FlowTail ==
  ASSUME NEW s \in Seq(Request), s # <<>>, NEW num \in [Request -> Nat],
         NEW h \in Nat, Rising(s, num, h)
  PROVE  /\ Rising(Tail(s), num, h)
         /\ Above(Tail(s), num, num[Head(s)])
         /\ num[Head(s)] <= h
         /\ \A g : Above(s, num, g) =>
              Above(Tail(s), num, g) /\ (num[Head(s)] > 0 => g < num[Head(s)])
<1>1. /\ Len(s) \in Nat /\ Len(s) > 0 /\ DOMAIN s = 1 .. Len(s)
      /\ Tail(s) \in Seq(Request) /\ Len(Tail(s)) = Len(s) - 1
      /\ \A i \in 1 .. Len(Tail(s)) : Tail(s)[i] = s[i + 1]
  BY HeadTailProperties, LenProperties, EmptySeq
<1>2. DOMAIN Tail(s) = 1 .. (Len(s) - 1)
  BY <1>1, LenProperties
<1>3. Head(s) = s[1] /\ 1 \in DOMAIN s
  BY <1>1
<1>4. \A i \in DOMAIN Tail(s) : i + 1 \in DOMAIN s /\ Tail(s)[i] = s[i + 1]
  BY <1>1, <1>2
<1>5. \A i \in DOMAIN s : s[i] \in Request /\ num[s[i]] \in Nat
  BY <1>1, ElementOfSeq
<1>6. Rising(Tail(s), num, h)
  <2>1. \A i, k \in DOMAIN Tail(s) : i < k => i + 1 < k + 1
    BY <1>1, <1>2
  <2> QED
    BY <1>4, <2>1 DEF Rising
<1>7. Above(Tail(s), num, num[Head(s)])
  <2>1. \A i \in DOMAIN Tail(s) : 1 < i + 1
    BY <1>1, <1>2
  <2> QED
    BY <1>3, <1>4, <2>1 DEF Rising, Above
<1> QED
  BY <1>3, <1>4, <1>6, <1>7 DEF Rising, Above

\* A part of a queue rises as the queue does.
LEMMA FlowPart ==
  ASSUME NEW s \in Seq(Request), NEW t, Part(t, s), NEW num, NEW h
  PROVE  /\ Rising(s, num, h) => Rising(t, num, h)
         /\ Above(s, num, h) => Above(t, num, h)
<1>1. PICK d \in {0, 1} : \A n \in DOMAIN t :
         n \in Nat /\ n + d \in DOMAIN s /\ t[n] = s[n + d]
  BY PartOf DEF Within
<1>2. \A n, k \in DOMAIN t : n < k => n + d < k + d
  BY <1>1
<1>3. Rising(s, num, h) => Rising(t, num, h)
  BY <1>1, <1>2 DEF Rising
<1> QED
  BY <1>1, <1>3 DEF Above

\* A message without a number changes nothing, and one with the next number
\* becomes the highest.
LEMMA FlowAppend ==
  ASSUME NEW s \in Seq(Request), NEW num \in [Request -> Nat],
         NEW h \in Nat, Rising(s, num, h), NEW m \in Request
  PROVE  /\ num[m] = 0 => Rising(Append(s, m), num, h)
         /\ h < num[m] => Rising(Append(s, m), num, num[m])
         /\ \A g : Above(s, num, g) /\ (num[m] > 0 => g < num[m])
              => Above(Append(s, m), num, g)
<1>1. /\ Len(s) \in Nat /\ DOMAIN s = 1 .. Len(s)
      /\ Append(s, m) \in Seq(Request) /\ Len(Append(s, m)) = Len(s) + 1
      /\ \A i \in 1 .. Len(s) : Append(s, m)[i] = s[i]
      /\ Append(s, m)[Len(s) + 1] = m
  BY AppendProperties, LenProperties
<1>2. DOMAIN Append(s, m) = 1 .. (Len(s) + 1)
  BY <1>1, LenProperties
<1>3. \A i \in DOMAIN Append(s, m) :
        \/ i \in DOMAIN s /\ Append(s, m)[i] = s[i]
        \/ i = Len(s) + 1 /\ Append(s, m)[i] = m
  BY <1>1, <1>2
<1>4. \A i \in DOMAIN s : s[i] \in Request /\ num[s[i]] \in Nat /\ num[s[i]] <= h
                          /\ i \in Nat /\ i < Len(s) + 1
  BY <1>1, ElementOfSeq DEF Rising
<1>5. num[m] \in Nat
  OBVIOUS
<1>6. ASSUME num[m] = 0
      PROVE  Rising(Append(s, m), num, h)
  BY <1>1, <1>3, <1>4, <1>5, <1>6 DEF Rising
<1>7. ASSUME h < num[m]
      PROVE  Rising(Append(s, m), num, num[m])
  BY <1>1, <1>3, <1>4, <1>5, <1>7 DEF Rising
<1>8. ASSUME NEW g, Above(s, num, g), num[m] > 0 => g < num[m]
      PROVE  Above(Append(s, m), num, g)
  BY <1>3, <1>8 DEF Above
<1> QED
  BY <1>6, <1>7, <1>8

\* Whoever gets a copy is a child.
LEMMA CopiesToChildren ==
  ASSUME NEW a, NEW T, IsBroadcast(a, T)
  PROVE  T \in SUBSET ChildProcs(a)
BY DEF IsBroadcast, Ready, ChildProcs, Children

\* A process has one parent, which is an actor.
LEMMA OneParent ==
  ASSUME NEW p, NEW q, NEW r \in ChildProcs(p), r \in ChildProcs(q)
  PROVE  p = q
BY DEF ChildProcs, Children

Raised(num, H, T, m, G) ==
  G = [q \in Pids |-> IF q \in T /\ num[m] > 0 THEN num[m] ELSE H[q]]

\* p takes its oldest message and gives it to some of its children.
LEMMA FlowMove ==
  ASSUME LinkInv, NEW num \in [Request -> Nat], NEW H \in [Pids -> Nat],
         NEW top \in Nat, Flow(num, H, top),
         NEW p \in Pids, down[p] # <<>>, NEW T \in SUBSET ChildProcs(p),
         down' = Broadcast(T, Incoming(p), Pop(p, down)),
         UNCHANGED <<nodeId, owner>>,
         NEW G, Raised(num, H, T, Incoming(p), G)
  PROVE  /\ Flow(num, G, top)'
         /\ G \in [Pids -> Nat]
         /\ \A q \in Pids : H[q] <= G[q]
<1> DEFINE m == Incoming(p)
           x == num[m]
           Rest(q) == IF q = p THEN Tail(down[p]) ELSE down[q]
<1>1. \A q \in Pids : down[q] \in Seq(Request)
  BY DEF LinkInv, LinkTypeOK
<1>2. m \in Request /\ x \in Nat /\ m = Head(down[p])
  BY <1>1, HeadTailProperties DEF Incoming
<1>3. \A q \in Pids : Rest(q) \in Seq(Request)
  BY <1>1, HeadTailProperties
<1>4. \A q \in Pids : down'[q] = IF q \in T THEN Append(Rest(q), m) ELSE Rest(q)
  BY <1>1 DEF Broadcast, Pop, LinkInv, LinkTypeOK
<1>5. \A q \in Pids : G[q] = IF q \in T /\ x > 0 THEN x ELSE H[q]
  BY DEF Raised
<1>6. T \subseteq Pids /\ \A a : ChildProcs(a) \subseteq Pids
  BY DEF ChildProcs
<1>7. \A q \in Pids : Rising(Rest(q), num, H[q])
  BY <1>1, FlowTail DEF Flow
<1>8. \A q \in Pids : \A g : Above(down[q], num, g) => Above(Rest(q), num, g)
  BY <1>1, FlowTail DEF Flow
<1>9. /\ x <= H[p]
      /\ Above(Tail(down[p]), num, x)
      /\ \A q \in T : H[q] <= H[p] /\ (x > 0 => H[q] < x)
  BY <1>1, <1>2, FlowTail DEF Flow
<1>10. G \in [Pids -> Nat] /\ \A q \in Pids : H[q] <= G[q]
  BY <1>2, <1>5, <1>6, <1>9 DEF Raised
<1> HIDE DEF Rest, m, x
<1>11. \A a : ChildProcs(a)' = ChildProcs(a)
  BY DEF ChildProcs, Children
<1>12. ASSUME NEW q \in Pids
       PROVE  Rising(down'[q], num, G[q])
  <2>1. CASE q \in T
    <3>1. Rest(q) \in Seq(Request) /\ H[q] \in Nat /\ Rising(Rest(q), num, H[q])
      BY <1>3, <1>7
    <3>2. /\ num[m] = 0 => Rising(Append(Rest(q), m), num, H[q])
          /\ H[q] < num[m] => Rising(Append(Rest(q), m), num, num[m])
      BY <1>2, <3>1, FlowAppend
    <3> QED
      BY <1>2, <1>4, <1>5, <1>9, <2>1, <3>2 DEF x
  <2>2. CASE q \notin T
    BY <1>4, <1>5, <1>7, <2>2
  <2> QED
    BY <2>1, <2>2
<1>13. ASSUME NEW q \in Pids, nodeId[q] = NoId
       PROVE  G[q] = 0 /\ down'[q] = <<>>
  <2>1. H[q] = 0 /\ down[q] = <<>> /\ q # p
    BY <1>13 DEF Flow
  <2>2. q \notin T
    BY <1>13, MessageAssumption DEF ChildProcs, Children, NoId
  <2> QED
    BY <1>4, <1>5, <2>1, <2>2 DEF Rest
<1>14. ASSUME NEW q \in Pids, NEW r \in ChildProcs(q)
       PROVE  G[r] <= G[q] /\ Above(down'[q], num, G[r])
  <2>1. r \in Pids /\ H[r] <= H[q] /\ Above(down[q], num, H[r])
        /\ H[r] \in Nat /\ H[q] \in Nat /\ G[q] \in Nat
    BY <1>6, <1>10 DEF Flow
  <2>2. CASE r \in T /\ x > 0
    <3>1. q = p
      BY <2>2, OneParent
    <3>2. p \notin T
      BY <1>2, <1>9, <2>2
    <3>3. G[r] = x /\ G[p] = H[p] /\ down'[p] = Tail(down[p])
      BY <1>4, <1>5, <2>1, <2>2, <3>2 DEF Rest
    <3> QED
      BY <1>9, <3>1, <3>3
  <2>3. CASE ~ (r \in T /\ x > 0)
    <3>1. G[r] = H[r] /\ H[q] <= G[q]
      BY <1>5, <1>10, <2>1, <2>3
    <3>2. Above(Rest(q), num, H[r])
      BY <1>8, <2>1
    <3>3. CASE q \notin T
      BY <1>4, <2>1, <3>1, <3>2, <3>3
    <3>4. CASE q \in T
      <4>1. num[m] > 0 => H[r] < num[m]
        BY <1>2, <1>9, <2>1, <3>4 DEF x
      <4>2. Above(Append(Rest(q), m), num, H[r])
        BY <1>2, <1>3, <1>7, <2>1, <3>2, <4>1, FlowAppend
      <4> QED
        BY <1>4, <2>1, <3>1, <3>4, <4>2
    <3> QED
      BY <3>3, <3>4
  <2> QED
    BY <2>2, <2>3
<1>15. ASSUME NEW r \in ChildProcs(Control)
       PROVE  G[r] <= top
  <2>1. r \notin T
    BY <1>15, OneParent, LinkAssumption DEF Control
  <2> QED
    BY <1>5, <1>6, <2>1 DEF Flow
<1>16. Flow(num, G, top)'
  BY <1>11, <1>12, <1>13, <1>14, <1>15 DEF Flow
<1> QED
  BY <1>10, <1>16

\* The control process sends a request without a number, or with the next.
LEMMA FlowSend ==
  ASSUME LinkInv, NEW num \in [Request -> Nat], NEW H \in [Pids -> Nat],
         NEW top \in Nat, Flow(num, H, top), NEW m \in Request,
         NEW T \in SUBSET ChildProcs(Control), down' = Broadcast(T, m, down),
         UNCHANGED <<nodeId, owner>>,
         NEW G, Raised(num, H, T, m, G),
         NEW new \in {top, top + 1}, num[m] > 0 => num[m] = new /\ new = top + 1
  PROVE  /\ Flow(num, G, new)'
         /\ G \in [Pids -> Nat]
         /\ \A q \in Pids : H[q] <= G[q]
<1> DEFINE x == num[m]
<1>1. \A q \in Pids : down[q] \in Seq(Request)
  BY DEF LinkInv, LinkTypeOK
<1>2. x \in Nat /\ (x > 0 => x = top + 1 /\ new = x) /\ top <= new
  OBVIOUS
<1>4. \A q \in Pids : down'[q] = IF q \in T THEN Append(down[q], m) ELSE down[q]
  BY DEF Broadcast
<1>5. \A q \in Pids : G[q] = IF q \in T /\ x > 0 THEN x ELSE H[q]
  BY DEF Raised
<1>6. T \subseteq Pids /\ \A a : ChildProcs(a) \subseteq Pids
  BY DEF ChildProcs
<1>9. \A q \in T : H[q] <= top /\ (x > 0 => H[q] < x)
  BY <1>2, <1>6 DEF Flow
<1>10. G \in [Pids -> Nat] /\ \A q \in Pids : H[q] <= G[q]
  BY <1>2, <1>5, <1>6, <1>9 DEF Raised
<1> HIDE DEF x
<1>11. \A a : ChildProcs(a)' = ChildProcs(a)
  BY DEF ChildProcs, Children
<1>12. ASSUME NEW q \in Pids
       PROVE  Rising(down'[q], num, G[q])
  <2>0. down[q] \in Seq(Request) /\ H[q] \in Nat /\ Rising(down[q], num, H[q])
    BY <1>1 DEF Flow
  <2>1. CASE q \in T
    <3>1. /\ num[m] = 0 => Rising(Append(down[q], m), num, H[q])
          /\ H[q] < num[m] => Rising(Append(down[q], m), num, num[m])
      BY <2>0, FlowAppend
    <3> QED
      BY <1>2, <1>4, <1>5, <1>9, <2>1, <3>1 DEF x
  <2>2. CASE q \notin T
    BY <1>4, <1>5, <2>0, <2>2
  <2> QED
    BY <2>1, <2>2
<1>13. ASSUME NEW q \in Pids, nodeId[q] = NoId
       PROVE  G[q] = 0 /\ down'[q] = <<>>
  <2>1. H[q] = 0 /\ down[q] = <<>>
    BY <1>13 DEF Flow
  <2>2. q \notin T
    BY <1>13, MessageAssumption DEF ChildProcs, Children, NoId
  <2> QED
    BY <1>4, <1>5, <2>1, <2>2
<1>14. ASSUME NEW q \in Pids, NEW r \in ChildProcs(q)
       PROVE  G[r] <= G[q] /\ Above(down'[q], num, G[r])
  <2>1. r \in Pids /\ H[r] <= H[q] /\ Above(down[q], num, H[r])
        /\ H[r] \in Nat /\ H[q] \in Nat /\ G[q] \in Nat
    BY <1>6, <1>10 DEF Flow
  <2>2. r \notin T
    BY OneParent, LinkAssumption DEF Control
  <2>3. G[r] = H[r] /\ H[q] <= G[q]
    BY <1>5, <1>10, <2>1, <2>2
  <2>4. CASE q \notin T
    BY <1>4, <2>1, <2>3, <2>4
  <2>5. CASE q \in T
    <3>1. num[m] > 0 => H[r] < num[m]
      BY <1>2, <1>9, <2>1, <2>5 DEF x
    <3>2. Above(Append(down[q], m), num, H[r])
      <4>1. down[q] \in Seq(Request) /\ H[q] \in Nat /\ Rising(down[q], num, H[q])
        BY <1>1 DEF Flow
      <4> QED
        BY <2>1, <3>1, <4>1, FlowAppend
    <3> QED
      BY <1>4, <2>1, <2>3, <2>5, <3>2
  <2> QED
    BY <2>4, <2>5
<1>15. ASSUME NEW r \in ChildProcs(Control)
       PROVE  G[r] <= new
  <2>1. H[r] \in Nat /\ H[r] <= top /\ r \in Pids
    BY <1>6 DEF Flow
  <2> QED
    BY <1>2, <1>5, <2>1
<1>16. Flow(num, G, new)'
  BY <1>11, <1>12, <1>13, <1>14, <1>15 DEF Flow
<1> QED
  BY <1>10, <1>16

\* Ports are given back, queues are lost, clocks run.
LEMMA FlowShrink ==
  ASSUME LinkInv, NEW num, NEW H \in [Pids -> Nat], NEW top \in Nat, Flow(num, H, top),
         NEW new \in Nat, top <= new,
         UNCHANGED nodeId,
         PortsGivenBack, QueuesShrink
  PROVE  Flow(num, H, new)'
<1>1. \A a \in Actors : ChildProcs(a)' \subseteq ChildProcs(a)
  <2>1. NoOwner \notin Actors
    BY LinkAssumption DEF Actors, NoOwner, Control
  <2> QED
    BY <2>1 DEF ChildProcs, Children, PortsGivenBack
<1>2. \A p \in Pids : p \in Actors
  BY DEF Actors
<1>3. Control \in Actors
  BY DEF Actors
<1>7. \A p \in Pids : down[p] \in Seq(Request) /\ Part(down'[p], down[p])
  BY DEF LinkInv, LinkTypeOK, QueuesShrink
<1>4. ASSUME NEW p \in Pids
      PROVE  /\ Rising(down'[p], num, H[p])
             /\ nodeId[p] = NoId => H[p] = 0 /\ down'[p] = <<>>
  <2>1. /\ Rising(down[p], num, H[p])
        /\ nodeId[p] = NoId => H[p] = 0 /\ down[p] = <<>>
    BY DEF Flow
  <2>2. Rising(down'[p], num, H[p])
    BY <1>7, <2>1, FlowPart
  <2> QED
    BY <1>7, <2>1, <2>2, PartOfNone
<1>5. ASSUME NEW p \in Pids, NEW q \in ChildProcs(p)'
      PROVE  H[q] <= H[p] /\ Above(down'[p], num, H[q])
  <2>1. q \in ChildProcs(p)
    BY <1>1, <1>2
  <2> QED
    BY <1>7, <2>1, FlowPart DEF Flow
<1>6. ASSUME NEW q \in ChildProcs(Control)'
      PROVE  H[q] <= new
  <2>1. q \in ChildProcs(Control) /\ q \in Pids
    BY <1>1, <1>3 DEF ChildProcs
  <2>2. H[q] \in Nat /\ H[q] <= top
    BY <2>1 DEF Flow
  <2> QED
    BY <2>2
<1> QED
  BY <1>4, <1>5, <1>6 DEF Flow

\* A process is born to run a node that nobody runs, whether its port gets
\* bound or not.
BindsAtMost(a, i) ==
  \A j \in Ids : owner'[j] \in {owner[j], NoOwner} \/ (j = i /\ owner'[j] = a)

Births(a, i) ==
  /\ CanFork
  /\ nodeId' = [nodeId EXCEPT ![FreshPid] = i]
  /\ BindsAtMost(a, i)
  /\ QueuesShrink

LosesOnly == UNCHANGED nodeId /\ PortsGivenBack /\ QueuesShrink

LEMMA ThrowShape ==
  ASSUME LinkTypeOK, NEW a, NEW i, NEW kept, BindFails(a, i, kept) \/ ForkFails(a, kept)
  PROVE  Births(a, i) \/ LosesOnly
<1>1. PortsGivenBack /\ QueuesShrink
  BY ThrowShrinks
<1>2. BindsAtMost(a, i)
  BY <1>1 DEF PortsGivenBack, BindsAtMost
<1>3. CASE BindFails(a, i, kept)
  BY <1>1, <1>2, <1>3 DEF BindFails, Births
<1>4. CASE ForkFails(a, kept)
  BY <1>1, <1>4 DEF ForkFails, LosesOnly
<1> QED
  BY <1>3, <1>4

LEMMA ForkShape ==
  ASSUME LinkTypeOK, NEW a, NEW i \in Ids, ForkAndBind(a, i), QueuesShrink
  PROVE  Births(a, i)
BY DEF ForkAndBind, BindsAtMost, Births, LinkTypeOK

LEMMA RootShape ==
  ASSUME LinkTypeOK, NEW i \in Ids, CreateCommandAtRoot(i)
  PROVE  Births(Control, i) \/ LosesOnly
<1>1. CASE ForkAndBind(Control, i) /\ UNCHANGED down
  <2>1. \A p \in Pids : Part(down[p], down[p])
    BY PartKinds DEF LinkTypeOK
  <2>2. QueuesShrink
    BY <1>1, <2>1 DEF QueuesShrink, LinkTypeOK
  <2> QED
    BY <1>1, <2>2, ForkShape
<1> QED
  BY <1>1, ThrowShape DEF CreateCommandAtRoot

LEMMA FlowBirth ==
  ASSUME LinkInv, NEW num \in [Request -> Nat], NEW H \in [Pids -> Nat],
         NEW top \in Nat, Flow(num, H, top), NEW new \in Nat, top <= new,
         NEW a \in Actors, NEW i \in Ids, Births(a, i),
         \A p \in Pids : nodeId[p] # i
  PROVE  Flow(num, H, new)'
<1> DEFINE x == FreshPid
<1>0. /\ CanFork /\ nodeId' = [nodeId EXCEPT ![FreshPid] = i]
      /\ BindsAtMost(a, i) /\ QueuesShrink
  BY DEF Births
<1>1. x \in Pids /\ nodeId[x] = NoId
  BY <1>0, FreshPidType DEF LinkInv, BornHaveIds
<1>2. H[x] = 0 /\ down[x] = <<>>
  BY <1>1 DEF Flow
<1>3. \A p \in Pids : down[p] \in Seq(Request) /\ H[p] \in Nat
  BY DEF LinkInv, LinkTypeOK
<1>4. \A p \in Pids : Part(down'[p], down[p])
  BY <1>0 DEF QueuesShrink
<1>5. i # NoId
  BY MessageAssumption DEF NoId
<1>10. NoOwner \notin Actors
  BY LinkAssumption DEF Actors, NoOwner, Control
<1> HIDE DEF x
<1>6. ASSUME NEW b \in Actors, NEW q \in ChildProcs(b)'
      PROVE  q = x \/ q \in ChildProcs(b)
  <2>1. q \in Pids /\ nodeId'[q] \in Ids /\ owner'[nodeId'[q]] = b
    BY DEF ChildProcs, Children
  <2>2. CASE q # x
    <3>1. nodeId'[q] = nodeId[q] /\ nodeId[q] # i
      BY <1>0, <2>1, <2>2 DEF LinkInv, LinkTypeOK, x
    <3>2. owner[nodeId[q]] = b
      BY <1>0, <1>10, <2>1, <3>1 DEF BindsAtMost
    <3> QED
      BY <2>1, <3>1, <3>2 DEF ChildProcs, Children
  <2> QED
    BY <2>2
<1>7. ASSUME NEW p \in Pids
      PROVE  /\ Rising(down'[p], num, H[p])
             /\ nodeId'[p] = NoId => H[p] = 0 /\ down'[p] = <<>>
  <2>1. Rising(down'[p], num, H[p])
    <3>1. Rising(down[p], num, H[p])
      BY DEF Flow
    <3> QED
      BY <1>3, <1>4, <3>1, FlowPart
  <2>2. nodeId'[p] = NoId => nodeId[p] = NoId
    BY <1>0, <1>1, <1>5 DEF LinkInv, LinkTypeOK, x
  <2> QED
    BY <1>4, <2>1, <2>2, PartOfNone DEF Flow
<1>8. ASSUME NEW p \in Pids, NEW q \in ChildProcs(p)'
      PROVE  H[q] <= H[p] /\ Above(down'[p], num, H[q])
  <2>1. CASE q = x
    <3>1. Above(down'[p], num, 0)
      BY DEF Above
    <3> QED
      BY <1>2, <1>3, <2>1, <3>1
  <2>2. CASE q \in ChildProcs(p)
    <3>1. H[q] <= H[p] /\ Above(down[p], num, H[q])
      BY <2>2 DEF Flow
    <3> QED
      BY <1>3, <1>4, <3>1, FlowPart
  <2> QED
    BY <1>6, <2>1, <2>2 DEF Actors
<1>9. ASSUME NEW q \in ChildProcs(Control)'
      PROVE  H[q] <= new
  <2>1. q = x \/ q \in ChildProcs(Control)
    BY <1>6 DEF Actors
  <2>2. q \in ChildProcs(Control) => q \in Pids /\ H[q] <= top
    BY DEF Flow, ChildProcs
  <2> QED
    BY <1>2, <1>3, <2>1, <2>2
<1> QED
  BY <1>7, <1>8, <1>9 DEF Flow

-----------------------------------------------------------------------------
(***************************************************************************)
(* What a step of a computing process does to the tree and to what goes    *)
(* down: it hands a request to some children or to none, it creates a      *)
(* node as it was asked to, or it touches neither.                         *)
(***************************************************************************)
Moves(p, T) ==
  /\ status[p] = "running"
  /\ down[p] # <<>>
  /\ down' = Broadcast(T, Incoming(p), Pop(p, down))
  /\ UNCHANGED <<status, nodeId, owner>>

Creates(p) ==
  /\ Receives(p, "Create")
  /\ ForMe(p)
  /\ \/ ForkChild(p, Incoming(p).add_data)
     \/ BindFails(p, Incoming(p).add_data, up[p])
     \/ ForkFails(p, up[p])

LEMMA ReplyMoves ==
  ASSUME LinkInv, NEW p \in Pids, status[p] = "running", down[p] # <<>>,
         NEW m, SendReply(p, m)
  PROVE  \E T \in SUBSET ChildProcs(p) : Moves(p, T)
<1>1. Broadcast({}, Incoming(p), Pop(p, down)) = Pop(p, down)
  BY DEF Broadcast, Pop, LinkInv, LinkTypeOK
<1>2. Moves(p, {})
  BY <1>1 DEF Moves, SendReply
<1> QED
  BY <1>2

LEMMA PassOnMoves ==
  ASSUME NEW p \in Pids, status[p] = "running", down[p] # <<>>, PassOn(p)
  PROVE  \E T \in SUBSET ChildProcs(p) : Moves(p, T)
<1>1. PICK T : IsBroadcast(p, T) /\ down' = Broadcast(T, Incoming(p), Pop(p, down))
  BY DEF PassOn
<1>2. T \in SUBSET ChildProcs(p)
  BY <1>1, CopiesToChildren
<1> QED
  BY <1>1, <1>2 DEF Moves, PassOn

LEMMA NodeShape ==
  ASSUME LinkInv, NodeStep
  PROVE  \/ \E p \in Pids : \E T \in SUBSET ChildProcs(p) : Moves(p, T)
         \/ \E p \in Pids : Creates(p)
         \/ UNCHANGED <<status, nodeId, owner, down>>
<1>1. ASSUME NEW p \in Pids, NodeCreate(p), ~ Creates(p)
      PROVE  \E T \in SUBSET ChildProcs(p) : Moves(p, T)
  BY <1>1, PassOnMoves DEF NodeCreate, Creates, Receives
<1>2. ASSUME NEW p \in Pids,
             NodePing(p) \/ NodeHeartBeat(p) \/ NodeExecAdd(p) \/ NodeExecFind(p)
      PROVE  \E T \in SUBSET ChildProcs(p) : Moves(p, T)
  <2>1. /\ status[p] = "running" /\ down[p] # <<>>
        /\ PassOn(p) \/ \E m : SendReply(p, m)
    BY <1>2 DEF NodePing, NodeHeartBeat, NodeExecAdd, NodeExecFind, Receives
  <2> QED
    BY <2>1, PassOnMoves, ReplyMoves
<1>3. ASSUME NEW p \in Pids, NEW q \in Pids, NodeForward(p, q) \/ NodeBeat(p)
      PROVE  UNCHANGED <<status, nodeId, owner, down>>
  BY <1>3 DEF NodeForward, NodeBeat
<1> QED
  BY <1>1, <1>2, <1>3 DEF NodeStep

\* The parent has read the request, or has lost all that it had to read.
LEMMA CreatesShape ==
  ASSUME LinkTypeOK, NEW p \in Pids, Creates(p), Incoming(p).add_data \in Ids
  PROVE  /\ Births(p, Incoming(p).add_data) \/ LosesOnly
         /\ down[p] # <<>> /\ down'[p] \in {Tail(down[p]), <<>>}
<1> DEFINE i == Incoming(p).add_data
<1>1. down[p] # <<>> /\ \A q \in Pids : down[q] \in Seq(Request)
  BY DEF Creates, Receives, LinkTypeOK
<1>2. CASE ForkChild(p, i)
  <2>1. ForkAndBind(p, i) /\ down' = Pop(p, down)
    BY <1>2 DEF ForkChild
  <2>2. /\ \A q \in Pids : down'[q] = IF q = p THEN Tail(down[p]) ELSE down[q]
        /\ down' = [q \in Pids |-> down'[q]]
    BY <2>1 DEF Pop, LinkTypeOK
  <2>3. \A q \in Pids : Part(down'[q], down[q])
    BY <1>1, <2>2, PartKinds
  <2>4. QueuesShrink
    BY <2>2, <2>3 DEF QueuesShrink
  <2> QED
    BY <1>1, <2>1, <2>2, <2>4, ForkShape
<1>3. CASE BindFails(p, i, up[p]) \/ ForkFails(p, up[p])
  <2>1. down'[p] = <<>>
    BY <1>3 DEF BindFails, ForkFails, CloseSockets
  <2> QED
    BY <1>1, <1>3, <2>1, ThrowShape
<1> QED
  BY <1>2, <1>3 DEF Creates

-----------------------------------------------------------------------------
(***************************************************************************)
(* If the user never asks twice for a node, nobody is asked twice to       *)
(* create it.  R numbers the nodes in the order they were asked for, and P *)
(* is the parent they were asked of.  Once a node is there, its parent     *)
(* has had the request and will not see it again.                          *)
(***************************************************************************)
Creation(R) ==
  [m \in Request |-> IF m.command = "Create" THEN R[m.add_data] ELSE 0]

Asked(P) ==
  {m \in Request : m.command = "Create" =>
                     m.add_data \in asked /\ P[m.add_data] = m.id}

Used(c) == owner[c] # NoOwner \/ \E p \in Pids : nodeId[p] = c

Clear(c, s) ==
  \A n \in DOMAIN s : s[n].command = "Create" => s[n].add_data # c

OneEach ==
  \A p, q \in Pids : nodeId[p] = nodeId[q] /\ nodeId[p] # NoId => p = q

Settled(R, P, H) ==
  \A c \in Ids : Used(c) =>
    /\ c \in asked
    /\ P[c] # Root => \E t \in Pids : nodeId[t] = P[c]
    /\ \A t \in Pids : nodeId[t] = P[c] => R[c] <= H[t] /\ Clear(c, down[t])

OnceInv(R, P, H) ==
  /\ R \in [Ids -> Nat] /\ P \in [Ids -> NodeIds] /\ H \in [Pids -> Nat]
  /\ Flow(Creation(R), H, creates)
  /\ down \in [Pids -> Seq(Asked(P))]
  /\ \A c \in asked : R[c] > 0
  /\ OneEach
  /\ Settled(R, P, H)

AskedOnce == \E R, P, H : OnceInv(R, P, H)

LEMMA CreationType ==
  ASSUME NEW R \in [Ids -> Nat]
  PROVE  /\ Creation(R) \in [Request -> Nat]
         /\ \A m \in Request : m.command = "Create" =>
              m.add_data \in Ids /\ Creation(R)[m] = R[m.add_data]
         /\ \A m \in Request : m.command # "Create" => Creation(R)[m] = 0
<1>1. \A m \in Request : m.command = "Create" => m.add_data \in Ids
  BY DEF Request
<1> QED
  BY <1>1 DEF Creation

\* A node that a process is to create is not there.
LEMMA CreatesNew ==
  ASSUME Inv, NEW R, NEW P, NEW H, OnceInv(R, P, H), NEW p \in Pids, Creates(p)
  PROVE  /\ Incoming(p).add_data \in Ids /\ Incoming(p).add_data \in asked
         /\ P[Incoming(p).add_data] = nodeId[p]
         /\ ~ Used(Incoming(p).add_data)
<1> DEFINE i == Incoming(p).add_data
<1>1. down[p] # <<>> /\ Incoming(p).command = "Create" /\ Incoming(p).id = nodeId[p]
  BY DEF Creates, Receives, ForMe
<1>2. down[p] \in Seq(Asked(P)) /\ Incoming(p) \in Asked(P)
  BY <1>1, PopType DEF OnceInv, Incoming
<1>3. i \in Ids /\ i \in asked /\ P[i] = nodeId[p]
  BY <1>1, <1>2 DEF Asked, Request
<1>4. 1 \in DOMAIN down[p] /\ down[p][1] = Incoming(p)
  BY <1>1, <1>2, LenProperties, EmptySeq DEF Incoming
<1>5. ~ Clear(i, down[p])
  BY <1>1, <1>4 DEF Clear
<1> QED
  BY <1>3, <1>5 DEF OnceInv, Settled

\* A queue stays clear of a node when its head is taken, or when something
\* else is put in.
LEMMA ClearQueue ==
  ASSUME NEW c, NEW s \in Seq(Request), Clear(c, s)
  PROVE  /\ s # <<>> => Clear(c, Tail(s))
         /\ \A m \in Request : (m.command = "Create" => m.add_data # c)
              => Clear(c, Append(s, m))
<1>1. ASSUME s # <<>>
      PROVE  Clear(c, Tail(s))
  <2>1. /\ Len(s) \in Nat /\ DOMAIN s = 1 .. Len(s) /\ Tail(s) \in Seq(Request)
        /\ Len(Tail(s)) = Len(s) - 1 /\ Len(s) > 0
        /\ \A i \in 1 .. Len(Tail(s)) : Tail(s)[i] = s[i + 1]
    BY <1>1, HeadTailProperties, LenProperties, EmptySeq
  <2>2. DOMAIN Tail(s) = 1 .. (Len(s) - 1)
    BY <2>1, LenProperties
  <2>3. \A i \in DOMAIN Tail(s) : i + 1 \in DOMAIN s /\ Tail(s)[i] = s[i + 1]
    BY <2>1, <2>2
  <2> QED
    BY <2>3 DEF Clear
<1>2. ASSUME NEW m \in Request, m.command = "Create" => m.add_data # c
      PROVE  Clear(c, Append(s, m))
  <2>1. /\ Len(s) \in Nat /\ DOMAIN s = 1 .. Len(s)
        /\ Append(s, m) \in Seq(Request) /\ Len(Append(s, m)) = Len(s) + 1
        /\ \A i \in 1 .. Len(s) : Append(s, m)[i] = s[i]
        /\ Append(s, m)[Len(s) + 1] = m
    BY AppendProperties, LenProperties
  <2>2. DOMAIN Append(s, m) = 1 .. (Len(s) + 1)
    BY <2>1, LenProperties
  <2>3. \A i \in DOMAIN Append(s, m) :
          \/ i \in DOMAIN s /\ Append(s, m)[i] = s[i]
          \/ Append(s, m)[i] = m
    BY <2>1, <2>2
  <2> QED
    BY <1>2, <2>3 DEF Clear
<1> QED
  BY <1>1, <1>2

LEMMA ClearPart ==
  ASSUME NEW c, NEW s \in Seq(Request), Clear(c, s), NEW t, Part(t, s)
  PROVE  Clear(c, t)
<1>1. Within(t, s)
  BY PartOf
<1> QED
  BY <1>1 DEF Within, Clear

\* A request is passed on: the child that is to be the parent has not had it.
LEMMA OnceMove ==
  ASSUME Inv, NEW R, NEW P, NEW H, OnceInv(R, P, H),
         NEW p \in Pids, NEW T \in SUBSET ChildProcs(p), Moves(p, T),
         UNCHANGED <<creates, asked>>
  PROVE  \E G : OnceInv(R, P, G)'
<1> DEFINE m == Incoming(p)
           num == Creation(R)
<1>1. PICK G : Raised(num, H, T, m, G)
  BY DEF Raised
<1>2. num \in [Request -> Nat]
  BY CreationType DEF OnceInv
<1>3. down[p] # <<>> /\ down' = Broadcast(T, m, Pop(p, down)) /\ UNCHANGED <<nodeId, owner>>
  BY DEF Moves
<1>4. LinkInv /\ creates \in Nat /\ H \in [Pids -> Nat] /\ Flow(num, H, creates)
  BY DEF Inv, ControlInv, ControlTypeOK, OnceInv
<1> HIDE DEF num, m
<1>5. /\ Flow(num, G, creates)'
      /\ G \in [Pids -> Nat]
      /\ \A q \in Pids : H[q] <= G[q]
  <2>1. PICK top \in Nat : top = creates
    BY <1>4
  <2>2. Flow(num, G, top)' /\ G \in [Pids -> Nat] /\ \A q \in Pids : H[q] <= G[q]
    BY <1>1, <1>2, <1>3, <1>4, <2>1, FlowMove DEF m
  <2> QED
    BY <2>1, <2>2 DEF Flow
<1>6. down' \in [Pids -> Seq(Asked(P))] /\ m \in Asked(P)
  <2>1. m \in Asked(P) /\ Pop(p, down) \in [Pids -> Seq(Asked(P))]
    BY <1>3, PopType DEF OnceInv, Incoming, m
  <2> QED
    BY <1>3, <2>1, BroadcastType
<1>7. m \in Request /\ down \in [Pids -> Seq(Request)]
  BY <1>4, <1>6 DEF Asked, LinkInv, LinkTypeOK
<1>8. \A q \in T : num[m] > 0 => H[q] < num[m]
  <2>1. /\ down[p] \in Seq(Request) /\ H[p] \in Nat /\ Rising(down[p], num, H[p])
        /\ \A q \in T : Above(down[p], num, H[q])
    BY <1>4, <1>7 DEF Flow
  <2> QED
    BY <1>2, <1>3, <2>1, FlowTail DEF m, Incoming
<1>9. ASSUME NEW c \in Ids, Used(c), NEW t \in Pids, nodeId[t] = P[c]
      PROVE  Clear(c, down'[t])
  <2>1. R[c] <= H[t] /\ Clear(c, down[t]) /\ R[c] > 0 /\ R[c] \in Nat /\ H[t] \in Nat
    BY <1>9 DEF OnceInv, Settled
  <2> DEFINE rest == IF t = p THEN Tail(down[p]) ELSE down[t]
  <2>2. /\ rest \in Seq(Request) /\ Clear(c, rest)
    BY <1>3, <1>7, <2>1, ClearQueue, HeadTailProperties
  <2>3. down'[t] = IF t \in T THEN Append(rest, m) ELSE rest
    BY <1>3, <1>7 DEF Broadcast, Pop
  <2> HIDE DEF rest
  <2>4. ASSUME t \in T
        PROVE  m.command = "Create" => m.add_data # c
    <3>1. ASSUME m.command = "Create", m.add_data = c
          PROVE  FALSE
      <4>1. num[m] = R[c]
        BY <1>7, <3>1, CreationType DEF OnceInv, num
      <4> QED
        BY <1>8, <2>1, <2>4, <4>1
    <3> QED
      BY <3>1
  <2> QED
    BY <1>7, <2>2, <2>3, <2>4, ClearQueue
<1>10. Settled(R, P, G)'
  <2>1. ASSUME NEW c \in Ids, Used(c), NEW t \in Pids, nodeId[t] = P[c]
        PROVE  R[c] <= G[t]
    <3>1. R[c] <= H[t] /\ R[c] \in Nat /\ H[t] \in Nat /\ G[t] \in Nat /\ H[t] <= G[t]
      BY <1>5, <2>1 DEF OnceInv, Settled
    <3> QED
      BY <3>1
  <2>2. \A c \in Ids : Used(c)' <=> Used(c)
    BY <1>3 DEF Used
  <2> QED
    BY <1>3, <1>9, <2>1, <2>2 DEF OnceInv, Settled
<1>11. Asked(P)' = Asked(P) /\ OneEach'
  BY <1>3 DEF Asked, OnceInv, OneEach
<1>12. Flow(Creation(R), G, creates)'
  <2>1. Creation(R)' = Creation(R)
    BY DEF Creation
  <2> QED
    BY <1>5 DEF num, Flow
<1> QED
  BY <1>5, <1>6, <1>10, <1>11, <1>12 DEF OnceInv

\* Ports are given back and queues are lost.
LEMMA OnceShrink ==
  ASSUME Inv, NEW R, NEW P, NEW H, OnceInv(R, P, H),
         LosesOnly, asked \subseteq asked', \A c \in asked' : R[c] > 0,
         creates' \in {creates, creates + 1}
  PROVE  OnceInv(R, P, H)'
<1>0. UNCHANGED nodeId /\ PortsGivenBack /\ QueuesShrink
  BY DEF LosesOnly
<1>1. Flow(Creation(R), H, creates)'
  <2>1. PICK top \in Nat : top = creates
    BY DEF Inv, ControlInv, ControlTypeOK
  <2>7. PICK new \in Nat : new = creates' /\ top <= new
    BY <2>1
  <2> DEFINE num == Creation(R)
  <2>2. Flow(num, H, top) /\ H \in [Pids -> Nat]
    BY <2>1 DEF OnceInv
  <2>3. num' = num
    BY DEF Creation
  <2> HIDE DEF num
  <2>4. PICK n : n = num
    OBVIOUS
  <2>5. Flow(n, H, new)'
    BY <1>0, <2>2, <2>4, <2>7, FlowShrink DEF Inv
  <2>6. Flow(num, H, creates)'
    BY <2>3, <2>4, <2>5, <2>7 DEF Flow
  <2> QED
    BY <2>6 DEF num
<1>2. Asked(P) \subseteq Asked(P)' /\ OneEach'
  BY <1>0 DEF Asked, OnceInv, OneEach
<1>3. down' \in [Pids -> Seq(Asked(P)')]
  <2>0. down \in [Pids -> Seq(Asked(P)')]
    BY <1>2, QueueMonotone DEF OnceInv
  <2> QED
    BY <1>0, <2>0, ShrinkType
<1>4. Settled(R, P, H)'
  <2>1. \A c \in Ids : Used(c)' => Used(c)
    BY <1>0 DEF Used, PortsGivenBack
  <2>2. \A p \in Pids : down[p] \in Seq(Request) /\ Part(down'[p], down[p])
    BY <1>0 DEF Inv, LinkInv, LinkTypeOK, QueuesShrink
  <2>3. ASSUME NEW c \in Ids, Used(c)
        PROVE  /\ c \in asked'
               /\ P[c] # Root => \E t \in Pids : nodeId[t] = P[c]
               /\ \A t \in Pids : nodeId[t] = P[c] => R[c] <= H[t] /\ Clear(c, down'[t])
    <3>1. \A t \in Pids : nodeId[t] = P[c] => R[c] <= H[t] /\ Clear(c, down[t])
      BY <2>3 DEF OnceInv, Settled
    <3>2. \A t \in Pids : Clear(c, down[t]) => Clear(c, down'[t])
      BY <2>2, ClearPart
    <3> QED
      BY <2>3, <3>1, <3>2 DEF OnceInv, Settled
  <2>4. \A c, t : Clear(c, down[t])' <=> Clear(c, down'[t])
    BY DEF Clear
  <2> QED
    BY <1>0, <2>1, <2>3, <2>4 DEF Settled
<1> QED
  BY <1>1, <1>2, <1>3, <1>4 DEF OnceInv

\* A node that was never asked for may get any number and any parent.
LEMMA OnceRelabel ==
  ASSUME Inv, NEW R, NEW P, NEW H, OnceInv(R, P, H),
         NEW c \in Ids, c \notin asked, NEW r \in Nat, NEW i \in NodeIds
  PROVE  OnceInv([R EXCEPT ![c] = r], [P EXCEPT ![c] = i], H)
<1> DEFINE R2 == [R EXCEPT ![c] = r]
           P2 == [P EXCEPT ![c] = i]
<1>1. R2 \in [Ids -> Nat] /\ P2 \in [Ids -> NodeIds]
  BY DEF OnceInv
<1>2. \A d \in Ids : d # c => R2[d] = R[d] /\ P2[d] = P[d]
  BY DEF OnceInv
<1>3. ~ Used(c)
  BY DEF OnceInv, Settled
<1> HIDE DEF R2, P2
<1>4. \A m \in Asked(P) : m \in Asked(P2) /\ Creation(R2)[m] = Creation(R)[m]
  <2> SUFFICES ASSUME NEW m \in Asked(P)
               PROVE  m \in Asked(P2) /\ Creation(R2)[m] = Creation(R)[m]
    OBVIOUS
  <2>1. m \in Request /\ (m.command = "Create" =>
                            m.add_data \in asked /\ P[m.add_data] = m.id)
    BY DEF Asked
  <2>2. m.command = "Create" => m.add_data \in Ids /\ m.add_data # c
    BY <2>1 DEF Request
  <2> QED
    BY <1>2, <2>1, <2>2 DEF Asked, Creation
<1>5. down \in [Pids -> Seq(Asked(P2))]
  <2>1. Asked(P) \subseteq Asked(P2)
    BY <1>4
  <2> QED
    BY <2>1, QueueMonotone DEF OnceInv
<1>6. Flow(Creation(R2), H, creates)
  <2>1. \A p \in Pids : \A n \in DOMAIN down[p] :
          Creation(R2)[down[p][n]] = Creation(R)[down[p][n]]
    <3>1. \A p \in Pids : down[p] \in Seq(Asked(P))
      BY DEF OnceInv
    <3>2. \A p \in Pids : \A n \in DOMAIN down[p] : down[p][n] \in Asked(P)
      BY <3>1, LenProperties, ElementOfSeq
    <3> QED
      BY <1>4, <3>2
  <2>2. \A p \in Pids : \A h :
          /\ Rising(down[p], Creation(R), h) => Rising(down[p], Creation(R2), h)
          /\ Above(down[p], Creation(R), h) => Above(down[p], Creation(R2), h)
    BY <2>1 DEF Rising, Above
  <2> QED
    BY <2>2 DEF OnceInv, Flow
<1>7. Settled(R2, P2, H)
  BY <1>2, <1>3 DEF OnceInv, Settled
<1>8. \A d \in asked : R2[d] > 0
  <2>1. \A d \in asked : d \in Ids /\ d # c /\ R[d] > 0
    BY DEF Inv, ControlInv, ControlTypeOK, OnceInv
  <2> QED
    BY <1>2, <2>1
<1> QED
  BY <1>1, <1>5, <1>6, <1>7, <1>8 DEF OnceInv, R2, P2

\* The control process sends a request: one to create a node goes out once.
LEMMA OnceSend ==
  ASSUME Inv, NEW R, NEW P, NEW H, OnceInv(R, P, H),
         NEW m \in Request, NEW T \in SUBSET ChildProcs(Control),
         down' = Broadcast(T, m, down), UNCHANGED <<nodeId, owner>>,
         asked \subseteq asked', \A c \in asked' : R[c] > 0,
         creates' \in {creates, creates + 1},
         m.command = "Create" =>
           /\ m.add_data \in asked' /\ P[m.add_data] = m.id
           /\ R[m.add_data] = creates' /\ creates' = creates + 1
           /\ ~ Used(m.add_data)
  PROVE  \E G : OnceInv(R, P, G)'
<1> DEFINE num == Creation(R)
<1>1. PICK G : Raised(num, H, T, m, G)
  BY DEF Raised
<1>2. /\ num \in [Request -> Nat]
      /\ m.command = "Create" => m.add_data \in Ids /\ num[m] = R[m.add_data]
      /\ m.command # "Create" => num[m] = 0
  BY CreationType DEF OnceInv
<1>3. LinkInv /\ creates \in Nat /\ H \in [Pids -> Nat] /\ Flow(num, H, creates)
  BY DEF Inv, ControlInv, ControlTypeOK, OnceInv
<1> HIDE DEF num
<1>10. PICK top \in Nat : top = creates
  BY <1>3
<1>11. PICK new \in {top, top + 1} : new = creates'
  BY <1>10
<1>4. /\ Flow(num, G, new)'
      /\ G \in [Pids -> Nat]
      /\ \A q \in Pids : H[q] <= G[q]
  <2>1. num[m] > 0 => num[m] = new /\ new = top + 1
    <3>1. CASE m.command = "Create"
      BY <1>2, <1>10, <1>11, <3>1
    <3>2. CASE m.command # "Create"
      BY <1>2, <3>2
    <3> QED
      BY <3>1, <3>2
  <2>2. PICK n : n = num
    OBVIOUS
  <2>3. n \in [Request -> Nat] /\ Flow(n, H, top) /\ Raised(n, H, T, m, G) /\ new \in Nat
    BY <1>1, <1>2, <1>3, <1>10, <2>2
  <2>4. /\ Flow(n, G, new)'
        /\ G \in [Pids -> Nat]
        /\ \A q \in Pids : H[q] <= G[q]
    BY <1>3, <2>1, <2>2, <2>3, FlowSend
  <2>5. num' = num
    BY DEF num, Creation
  <2> QED
    BY <2>2, <2>4, <2>5 DEF Flow
<1>5. down' \in [Pids -> Seq(Asked(P)')]
  <2>1. m \in Asked(P)' /\ Asked(P) \subseteq Asked(P)'
    BY DEF Asked
  <2>2. down \in [Pids -> Seq(Asked(P)')]
    BY <2>1, QueueMonotone DEF OnceInv
  <2> QED
    BY <2>1, <2>2, BroadcastType
<1>6. \A q \in Pids : /\ down[q] \in Seq(Request)
                      /\ down'[q] \in {down[q], Append(down[q], m)}
  BY <1>3 DEF Broadcast, LinkInv, LinkTypeOK
<1>7. ASSUME NEW c \in Ids, Used(c)
      PROVE  /\ c \in asked'
             /\ P[c] # Root => \E t \in Pids : nodeId[t] = P[c]
             /\ \A t \in Pids : nodeId[t] = P[c] => R[c] <= G[t] /\ Clear(c, down'[t])
  <2>1. ASSUME NEW t \in Pids, nodeId[t] = P[c]
        PROVE  R[c] <= G[t] /\ Clear(c, down'[t])
    <3>1. /\ R[c] <= H[t] /\ R[c] \in Nat /\ H[t] \in Nat /\ G[t] \in Nat
          /\ H[t] <= G[t] /\ Clear(c, down[t])
      BY <1>4, <1>7, <2>1 DEF OnceInv, Settled
    <3>2. m.command = "Create" => m.add_data # c
      BY <1>7
    <3>3. Clear(c, Append(down[t], m))
      <4>1. down[t] \in Seq(Request) /\ Clear(c, down[t])
        BY <1>6, <3>1
      <4>2. \A x \in Request : (x.command = "Create" => x.add_data # c)
              => Clear(c, Append(down[t], x))
        BY <4>1, ClearQueue
      <4> QED
        BY <3>2, <4>2
    <3>4. CASE down'[t] = down[t]
      BY <3>1, <3>4
    <3>5. CASE down'[t] = Append(down[t], m)
      BY <3>1, <3>3, <3>5
    <3> QED
      BY <1>6, <3>4, <3>5
  <2> QED
    BY <1>7, <2>1 DEF OnceInv, Settled
<1>8. Settled(R, P, G)'
  <2>1. \A c \in Ids : Used(c)' <=> Used(c)
    BY DEF Used
  <2>2. \A c, t : Clear(c, down[t])' <=> Clear(c, down'[t])
    BY DEF Clear
  <2> QED
    BY <1>7, <2>1, <2>2 DEF Settled
<1>9. Flow(Creation(R), G, creates)'
  BY <1>4, <1>11 DEF Flow, num
<1> QED
  BY <1>4, <1>5, <1>8, <1>9 DEF OnceInv, OneEach


\* A process is made for a node that was not there: its parent has had the
\* request.
LEMMA OnceBirth ==
  ASSUME Inv, NEW R, NEW P, NEW H, OnceInv(R, P, H),
         NEW a \in Actors, NEW i \in Ids, Births(a, i), ~ Used(i),
         asked \subseteq asked', i \in asked', \A c \in asked' : R[c] > 0,
         creates' \in {creates, creates + 1},
         P[i] # Root => \E t \in Pids : nodeId[t] = P[i],
         \A t \in Pids : nodeId[t] = P[i] => R[i] <= H[t] /\ Clear(i, down'[t])
  PROVE  OnceInv(R, P, H)'
<1> DEFINE x == FreshPid
<1>0. /\ CanFork /\ nodeId' = [nodeId EXCEPT ![FreshPid] = i]
      /\ BindsAtMost(a, i) /\ QueuesShrink
  BY DEF Births
<1>1. x \in Pids /\ nodeId[x] = NoId /\ i # NoId /\ Root # NoId
  BY <1>0, FreshPidType, MessageAssumption DEF Inv, LinkInv, BornHaveIds, NoId, Root
<1>2. LinkInv /\ creates \in Nat /\ creates' \in Nat /\ creates <= creates'
  BY DEF Inv, ControlInv, ControlTypeOK
<1>3. \A t \in Pids : nodeId'[t] = IF t = x THEN i ELSE nodeId[t]
  BY <1>0, <1>1, <1>2 DEF LinkInv, LinkTypeOK
<1>4. \A t \in Pids : nodeId[t] # i
  BY DEF Used
<1>5. \A t \in Pids : nodeId[t] # NoId => t # x /\ nodeId'[t] = nodeId[t]
  BY <1>1, <1>3
<1>6. Flow(Creation(R), H, creates)'
  <2>1. PICK top \in Nat : top = creates
    BY <1>2
  <2>2. PICK new \in Nat : new = creates' /\ top <= new
    BY <1>2, <2>1
  <2>3. PICK n : n = Creation(R)
    OBVIOUS
  <2>4. n \in [Request -> Nat] /\ H \in [Pids -> Nat] /\ Flow(n, H, top)
    BY <2>1, <2>3, CreationType DEF OnceInv
  <2>5. Flow(n, H, new)'
    BY <1>2, <1>4, <2>2, <2>4, FlowBirth
  <2>6. Creation(R)' = Creation(R)
    BY DEF Creation
  <2> QED
    BY <2>2, <2>3, <2>5, <2>6 DEF Flow
<1> HIDE DEF x
<1>7. down' \in [Pids -> Seq(Asked(P)')]
  <2>1. Asked(P) \subseteq Asked(P)'
    BY DEF Asked
  <2>2. down \in [Pids -> Seq(Asked(P)')]
    BY <2>1, QueueMonotone DEF OnceInv
  <2> QED
    BY <1>0, <2>2, ShrinkType
<1>8. OneEach'
  BY <1>1, <1>3, <1>4 DEF OnceInv, OneEach
<1>9. \A t \in Pids, c \in Ids : Clear(c, down[t]) => Clear(c, down'[t])
  <2> SUFFICES ASSUME NEW t \in Pids, NEW c \in Ids, Clear(c, down[t])
               PROVE  Clear(c, down'[t])
    OBVIOUS
  <2>1. down[t] \in Seq(Request) /\ Part(down'[t], down[t])
    BY <1>0, <1>2 DEF LinkInv, LinkTypeOK, QueuesShrink
  <2> QED
    BY <2>1, ClearPart
<1>10. Settled(R, P, H)'
  <2>1. ASSUME NEW c \in Ids, Used(c)'
        PROVE  /\ c \in asked'
               /\ P[c] # Root => \E t \in Pids : nodeId'[t] = P[c]
               /\ \A t \in Pids : nodeId'[t] = P[c] => R[c] <= H[t] /\ Clear(c, down'[t])
    <3>1. CASE c = i
      <4>1. P[i] \in NodeIds /\ P[i] # NoId /\ i # Root
        BY MessageAssumption DEF OnceInv, NodeIds, Root, NoId
      <4>2. P[i] # i
        BY <1>4, <4>1
      <4>3. P[i] # Root => \E t \in Pids : nodeId'[t] = P[i]
        BY <1>5, <4>1
      <4>4. \A t \in Pids : nodeId'[t] = P[i] => nodeId[t] = P[i]
        BY <1>3, <4>2
      <4> QED
        BY <3>1, <4>3, <4>4
    <3>2. CASE c # i
      <4>1. Used(c)
        BY <1>0, <1>1, <1>3, <2>1, <3>2 DEF Used, BindsAtMost
      <4>2. /\ c \in asked
            /\ P[c] # Root => \E t \in Pids : nodeId[t] = P[c]
            /\ \A t \in Pids : nodeId[t] = P[c] => R[c] <= H[t] /\ Clear(c, down[t])
        BY <4>1 DEF OnceInv, Settled
      <4>3. P[c] # i /\ P[c] # NoId
        BY <1>4, <4>2, MessageAssumption DEF OnceInv, NodeIds, Root, NoId
      <4>4. P[c] # Root => \E t \in Pids : nodeId'[t] = P[c]
        BY <1>5, <4>2, <4>3
      <4>5. \A t \in Pids : nodeId'[t] = P[c] => nodeId[t] = P[c]
        BY <1>3, <4>3
      <4> QED
        BY <1>9, <4>2, <4>4, <4>5
    <3> QED
      BY <3>1, <3>2
  <2>2. \A c, t : Clear(c, down[t])' <=> Clear(c, down'[t])
    BY DEF Clear
  <2> QED
    BY <2>1, <2>2 DEF Settled
<1> QED
  BY <1>6, <1>7, <1>8, <1>10 DEF OnceInv

\* What nobody asked for is not there.
LEMMA UnaskedUnused ==
  ASSUME NEW R, NEW P, NEW H, OnceInv(R, P, H), NEW c \in Ids, c \notin asked
  PROVE  ~ Used(c)
BY DEF OnceInv, Settled

\* A computing process does as it is told: the port is free.
LEMMA OnceCreates ==
  ASSUME Inv, NEW R, NEW P, NEW H, OnceInv(R, P, H), NEW p \in Pids, Creates(p),
         UNCHANGED <<creates, asked>>
  PROVE  OnceInv(R, P, H)'
<1> DEFINE m == Incoming(p)
           i == m.add_data
           num == Creation(R)
<1>1. /\ i \in Ids /\ i \in asked /\ P[i] = nodeId[p] /\ ~ Used(i)
  BY CreatesNew
<1>2. /\ status[p] = "running" /\ down[p] # <<>> /\ m.command = "Create"
      /\ p \in Actors
  BY DEF Creates, Receives, Actors
<1>3. LinkInv /\ down[p] \in Seq(Request) /\ nodeId[p] \in Ids /\ nodeId[p] # NoId
  BY <1>2, MessageAssumption DEF Inv, LinkInv, LinkTypeOK, BornHaveIds, NoId
<1>4. LinkTypeOK /\ \A c \in asked' : R[c] > 0
  BY <1>3 DEF LinkInv, OnceInv
<1>5. CASE LosesOnly
  BY <1>4, <1>5, OnceShrink
<1>6. /\ Births(p, i) \/ LosesOnly
      /\ down[p] # <<>> /\ down'[p] \in {Tail(down[p]), <<>>}
  BY <1>1, <1>4, CreatesShape
<1>7. \A t \in Pids : nodeId[t] = P[i] => t = p
  BY <1>1, <1>3 DEF OnceInv, OneEach
<1>8. P[i] # Root => \E t \in Pids : nodeId[t] = P[i]
  BY <1>1
<1>9. /\ asked \subseteq asked' /\ i \in asked'
      /\ creates' \in {creates, creates + 1}
  BY <1>1
<1>10. num \in [Request -> Nat] /\ m \in Request /\ num[m] = R[i] /\ R[i] > 0
  BY <1>1, <1>2, <1>3, CreationType, HeadTailProperties DEF OnceInv, Incoming
<1>11. H[p] \in Nat /\ Rising(down[p], num, H[p])
  BY DEF OnceInv, Flow
<1> HIDE DEF num, i, m
<1>12. R[i] <= H[p] /\ Above(Tail(down[p]), num, R[i])
  BY <1>2, <1>3, <1>10, <1>11, FlowTail DEF m, Incoming
<1>13. Clear(i, Tail(down[p]))
  <2>1. ASSUME NEW n \in DOMAIN Tail(down[p]),
               Tail(down[p])[n].command = "Create", Tail(down[p])[n].add_data = i
        PROVE  FALSE
    <3>1. Tail(down[p]) \in Seq(Request)
      BY <1>2, <1>3, HeadTailProperties
    <3>2. Tail(down[p])[n] \in Request
      BY <3>1, LenProperties, ElementOfSeq
    <3>3. num[Tail(down[p])[n]] = R[i] /\ R[i] \in Nat
      BY <1>1, <2>1, <3>2, CreationType DEF OnceInv, num
    <3> QED
      BY <1>10, <1>12, <3>3 DEF Above
  <2> QED
    BY <2>1 DEF Clear
<1>14. \A t \in Pids : nodeId[t] = P[i] => R[i] <= H[t] /\ Clear(i, down'[t])
  BY <1>6, <1>7, <1>12, <1>13 DEF Clear
<1>15. CASE Births(p, i)
  BY <1>1, <1>2, <1>4, <1>8, <1>9, <1>14, <1>15, OnceBirth
<1> QED
  BY <1>5, <1>6, <1>15

LEMMA NodeStepOnce ==
  ASSUME Inv, NEW R, NEW P, NEW H, OnceInv(R, P, H), NodeStep,
         UNCHANGED <<creates, asked>>
  PROVE  \E G : OnceInv(R, P, G)'
<1>1. LinkInv
  BY DEF Inv
<1>2. CASE \E p \in Pids : \E T \in SUBSET ChildProcs(p) : Moves(p, T)
  BY <1>2, OnceMove
<1>3. CASE \E p \in Pids : Creates(p)
  BY <1>3, OnceCreates
<1>4. CASE UNCHANGED <<status, nodeId, owner, down>>
  <2>1. /\ \A c \in asked' : R[c] > 0
        /\ LosesOnly
    BY <1>1, <1>4, NothingShrinks DEF OnceInv, LinkInv, LosesOnly
  <2> QED
    BY <1>4, <2>1, OnceShrink
<1> QED
  BY <1>1, <1>2, <1>3, <1>4, NodeShape

\* The user asks for a node that nobody asked for.
LEMMA CreateCommandOnce ==
  ASSUME Inv, Careful, NEW R, NEW P, NEW H, OnceInv(R, P, H),
         NEW c \in Ids, NEW parent \in NodeIds, CreateCommand(c, parent)
  PROVE  AskedOnce'
<1>1. /\ c \notin asked /\ ~ Used(c)
      /\ asked' = asked \cup {c} /\ creates' = creates + 1 /\ creates \in Nat
  BY UnaskedUnused DEF CreateCommand, Inv, ControlInv, ControlTypeOK
<1>9. PICK r \in Nat : r = creates + 1
  BY <1>1
<1>10. PICK R2, P2 : R2 = [R EXCEPT ![c] = r] /\ P2 = [P EXCEPT ![c] = parent]
  OBVIOUS
<1>2. OnceInv(R2, P2, H)
  <2>1. OnceInv([R EXCEPT ![c] = r], [P EXCEPT ![c] = parent], H)
    BY <1>1, OnceRelabel
  <2> QED
    BY <1>10, <2>1
<1>3. /\ R2[c] = creates' /\ P2[c] = parent /\ R2[c] > 0
  BY <1>1, <1>9, <1>10 DEF OnceInv
<1>4. \A d \in asked' : R2[d] > 0
  BY <1>1, <1>2, <1>3 DEF OnceInv
<1>5. LinkTypeOK
  BY DEF Inv, LinkInv
<1>6. asked \subseteq asked' /\ creates' \in {creates, creates + 1} /\ c \in asked'
  BY <1>1
<1>7. CASE parent = Root
  <2>1. \A t \in Pids : nodeId[t] # P2[c]
    BY <1>3, <1>7, MessageAssumption DEF Inv, LinkInv, LinkTypeOK, Root, NoId
  <2>2. \A t \in Pids : nodeId[t] = P2[c] => R2[c] <= H[t] /\ Clear(c, down'[t])
    BY <2>1
  <2>3. P2[c] # Root => \E t \in Pids : nodeId[t] = P2[c]
    BY <1>3, <1>7
  <2>4. Control \in Actors
    BY DEF Actors
  <2>5. Births(Control, c) \/ LosesOnly
    BY <1>5, <1>7, RootShape DEF CreateCommand, CreateCommandAtRoot
  <2>6. ASSUME Births(Control, c)
        PROVE  OnceInv(R2, P2, H)'
    BY <1>1, <1>2, <1>4, <1>6, <2>2, <2>3, <2>4, <2>6, OnceBirth
  <2>7. ASSUME LosesOnly
        PROVE  OnceInv(R2, P2, H)'
    BY <1>2, <1>4, <1>6, <2>7, OnceShrink
  <2>8. OnceInv(R2, P2, H)'
    BY <2>5, <2>6, <2>7
  <2> QED
    BY <2>8 DEF AskedOnce
<1>8. CASE parent # Root
  <2> DEFINE m == Msg("Create", parent, c)
  <2>1. SendToChildren(m)
    BY <1>8 DEF CreateCommand, BroadcastMessage
  <2>2. PICK T : IsBroadcast(Control, T) /\ down' = Broadcast(T, m, down)
    BY <2>1 DEF SendToChildren
  <2>3. T \in SUBSET ChildProcs(Control) /\ UNCHANGED <<nodeId, owner>>
    BY <2>1, <2>2, CopiesToChildren DEF SendToChildren
  <2>4. /\ m \in Request /\ m.command = "Create" /\ m.add_data = c /\ m.id = parent
    BY DEF Msg, Request
  <2>5. m.command = "Create" =>
          /\ m.add_data \in asked' /\ P2[m.add_data] = m.id
          /\ R2[m.add_data] = creates' /\ creates' = creates + 1
          /\ ~ Used(m.add_data)
    BY <1>1, <1>3, <2>4
  <2> HIDE DEF m
  <2>6. \E G : OnceInv(R2, P2, G)'
    BY <1>2, <1>4, <1>6, <2>2, <2>3, <2>4, <2>5, OnceSend
  <2> QED
    BY <2>6 DEF AskedOnce
<1> QED
  BY <1>7, <1>8

\* The other commands send a request of another kind.
OtherRequest(m) ==
  /\ m.command # "Create"
  /\ m.command = "ExecAdd" => m.add_data = requests + 1
  /\ SendToChildren(m)
  /\ requests' = requests + 1
  /\ UNCHANGED <<creates, asked>>

LEMMA OtherCommandSends ==
  ASSUME Inv, UserCommand,
         ~ \E c \in Ids, parent \in NodeIds : CreateCommand(c, parent)
  PROVE  \E m \in Request : OtherRequest(m)
<1>1. ASSUME NEW i \in NodeIds, NEW k \in Keys, ExecAddCommand(i, k)
      PROVE  \E m \in Request : OtherRequest(m)
  <2> DEFINE m == MsgVal("ExecAdd", i, requests + 1, k)
  <2>1. m \in Request
    BY MessageAssumption DEF MsgVal, Request, Inv, ControlInv, ControlTypeOK
  <2>2. m.command = "ExecAdd" /\ m.add_data = requests + 1
    BY DEF MsgVal
  <2>3. OtherRequest(m)
    BY <1>1, <2>2 DEF ExecAddCommand, SendRequest, BroadcastMessage, OtherRequest
  <2> QED
    BY <2>1, <2>3
<1>2. ASSUME NEW i \in NodeIds, NEW k \in Keys, ExecFindCommand(i, k)
      PROVE  \E m \in Request : OtherRequest(m)
  <2> DEFINE m == MsgVal("ExecFnd", i, -1, k)
  <2>1. m \in Request
    BY MessageAssumption DEF MsgVal, Request
  <2>2. m.command = "ExecFnd"
    BY DEF MsgVal
  <2>3. OtherRequest(m)
    BY <1>2, <2>2 DEF ExecFindCommand, SendRequest, BroadcastMessage, OtherRequest
  <2> QED
    BY <2>1, <2>3
<1>3. ASSUME NEW i \in NodeIds, PingCommand(i)
      PROVE  \E m \in Request : OtherRequest(m)
  <2> DEFINE m == Msg("Ping", i, 0)
  <2>1. m \in Request /\ m.command = "Ping"
    BY DEF Msg, Request
  <2>2. OtherRequest(m)
    BY <1>3, <2>1 DEF PingCommand, SendRequest, BroadcastMessage, OtherRequest
  <2> QED
    BY <2>1, <2>2
<1>4. ASSUME NEW time \in Periods, HeartbeatCommand(time)
      PROVE  \E m \in Request : OtherRequest(m)
  <2> DEFINE m == Msg("HeartBeat", Root, time)
  <2>1. m \in Request /\ m.command = "HeartBeat"
    BY DEF Msg, Request
  <2>2. OtherRequest(m)
    BY <1>4, <2>1 DEF HeartbeatCommand, OtherRequest
  <2> QED
    BY <2>1, <2>2
<1> QED
  BY <1>1, <1>2, <1>3, <1>4 DEF UserCommand

\* They ask for no node.
LEMMA OtherCommandOnce ==
  ASSUME Inv, NEW R, NEW P, NEW H, OnceInv(R, P, H), UserCommand,
         ~ \E c \in Ids, parent \in NodeIds : CreateCommand(c, parent)
  PROVE  AskedOnce' /\ UNCHANGED <<status, creates, asked>>
<1>1. PICK m \in Request : OtherRequest(m)
  BY OtherCommandSends
<1>2. /\ m.command # "Create" /\ SendToChildren(m)
      /\ UNCHANGED <<creates, asked>>
  BY <1>1 DEF OtherRequest
<1>3. PICK T : IsBroadcast(Control, T) /\ down' = Broadcast(T, m, down)
  BY <1>2 DEF SendToChildren
<1>4. /\ T \in SUBSET ChildProcs(Control) /\ UNCHANGED <<status, nodeId, owner>>
      /\ \A c \in asked' : R[c] > 0
      /\ asked \subseteq asked' /\ creates' \in {creates, creates + 1}
  BY <1>2, <1>3, CopiesToChildren DEF SendToChildren, OnceInv
<1>5. \E G : OnceInv(R, P, G)'
  BY <1>2, <1>3, <1>4, OnceSend
<1> QED
  BY <1>2, <1>4, <1>5 DEF AskedOnce

\* Everybody else creates nothing and asks for nothing.
Others ==
  \/ (ControlStep \/ ControlRestart) /\ UNCHANGED <<nodeVars, kills>>
  \/ Connects \/ Kills \/ Tick \/ UNCHANGED vars

LEMMA OthersShrink ==
  ASSUME Inv, Others
  PROVE  LosesOnly /\ UNCHANGED <<dictionary, creates, requests, asked>>
<1>1. UNCHANGED <<nodeId, dictionary, creates, requests, asked>>
  BY DEF Others, ControlStep, CreateAnswered, PingAnswered, AddAnswered,
         FindAnswered, BeatReceived, ControlReceives, CheckPending, CheckBeats,
         linkVars, ControlRestart, Connects, Connect, Kills, Kill, Tick, vars,
         nodeVars, ctlVars, Next
<1>2. CASE Kills
  BY <1>1, <1>2, KillShrinks DEF Inv, LinkInv, LosesOnly
<1>3. CASE ~ Kills
  <2>1. UNCHANGED <<owner, down>>
    BY <1>3 DEF Others, ControlStep, CreateAnswered, PingAnswered, AddAnswered,
         FindAnswered, BeatReceived, ControlReceives, CheckPending, CheckBeats,
         linkVars, ControlRestart, Connects, Connect, Tick, vars
  <2> QED
    BY <1>1, <2>1, NothingShrinks DEF Inv, LinkInv, LosesOnly
<1> QED
  BY <1>2, <1>3

LEMMA OtherOnce ==
  ASSUME Inv, NEW R, NEW P, NEW H, OnceInv(R, P, H), Others
  PROVE  OnceInv(R, P, H)' /\ UNCHANGED <<creates, asked>>
<1>1. \A c \in asked' : R[c] > 0
  BY OthersShrink DEF OnceInv
<1> QED
  BY <1>1, OthersShrink, OnceShrink

LEMMA OnceInit == Init => AskedOnce
<1> SUFFICES ASSUME Init
             PROVE  OnceInv([i \in Ids |-> 0], [i \in Ids |-> Root], [p \in Pids |-> 0])
  BY DEF AskedOnce
<1>1. /\ \A p \in Pids : nodeId[p] = NoId /\ down[p] = <<>>
      /\ \A i \in Ids : owner[i] = NoOwner
      /\ asked = {} /\ creates = 0
      /\ \A S : down \in [Pids -> Seq(S)]
  BY EmptySeq DEF Init, LinkInit, ControlInit
<1>2. \A a \in Actors : ChildProcs(a) = {}
  BY <1>1, MessageAssumption DEF ChildProcs, Children, NoId
<1>3. \A c \in Ids : ~ Used(c)
  BY <1>1, MessageAssumption DEF Used, NoId
<1>4. Flow(Creation([i \in Ids |-> 0]), [p \in Pids |-> 0], creates)
  BY <1>1, <1>2 DEF Flow, Rising, Actors
<1> QED
  BY <1>1, <1>3, <1>4 DEF OnceInv, OneEach, Settled, NodeIds

LEMMA OnceStep ==
  ASSUME Inv, Careful, AskedOnce, [Next]_vars
  PROVE  AskedOnce'
<1>1. PICK R, P, H : OnceInv(R, P, H)
  BY DEF AskedOnce
<1>2. CASE NodeStep /\ UNCHANGED <<ctlVars, kills>>
  BY <1>1, <1>2, NodeStepOnce DEF ctlVars, AskedOnce
<1>3. CASE UserCommand
  BY <1>1, <1>3, CreateCommandOnce, OtherCommandOnce
<1>4. CASE Others
  BY <1>1, <1>4, OtherOnce DEF AskedOnce
<1> QED
  BY <1>2, <1>3, <1>4 DEF Next, Others

-----------------------------------------------------------------------------
(***************************************************************************)
(* Who ends.  No two commands ask for the same node, so there is a process *)
(* for every node if there are enough for all commands.                    *)
(***************************************************************************)
ForksSucceed == IsFiniteSet(Pids) => MaxCreates <= Cardinality(Pids)

AskedFew ==
  /\ IsFiniteSet(asked)
  /\ Cardinality(asked) <= creates
  /\ creates <= MaxCreates

CarefulInv == Careful => AskedOnce /\ AskedFew

\* As long as a node that was asked for is not there, a process is left.
LEMMA RoomToFork ==
  ASSUME ForksSucceed, Inv, AskedFew, NEW R, NEW P, NEW H, OnceInv(R, P, H),
         NEW c \in Ids, ~ Used(c), c \in asked \/ creates < MaxCreates
  PROVE  CanFork
<1> SUFFICES ASSUME ~ CanFork
             PROVE  FALSE
  OBVIOUS
<1> DEFINE f == [p \in Pids |-> nodeId[p]]
           left == asked \ {c}
<1>1. \A p \in Pids : nodeId[p] \in Ids /\ nodeId[p] # NoId
  BY MessageAssumption DEF CanFork, Inv, LinkInv, LinkTypeOK, BornHaveIds, NoId
<1>2. \A p \in Pids : nodeId[p] \in left
  BY <1>1 DEF OnceInv, Settled, Used
<1>3. f \in Injection(Pids, left)
  BY <1>1, <1>2 DEF Injection, IsInjective, OnceInv, OneEach
<1>4. /\ IsFiniteSet(left)
      /\ Cardinality(left) = IF c \in asked THEN Cardinality(asked) - 1
                                            ELSE Cardinality(asked)
  BY FS_RemoveElement DEF AskedFew
<1> HIDE DEF f, left
<1>5. IsFiniteSet(Pids) /\ Cardinality(Pids) <= Cardinality(left)
  BY <1>3, <1>4, FS_Injection
<1>6. /\ Cardinality(asked) \in Nat /\ Cardinality(Pids) \in Nat
      /\ creates \in Nat /\ MaxCreates \in Nat
  BY <1>5, FS_CardinalityType, ControlAssumption
  DEF AskedFew, Inv, ControlInv, ControlTypeOK
<1> QED
  BY <1>4, <1>5, <1>6 DEF ForksSucceed, AskedFew

\* A command that creates a node asks for one more.
LEMMA FewStep ==
  ASSUME Inv, AskedOnce, AskedFew, [Next]_vars
  PROVE  AskedFew'
<1>1. CASE UNCHANGED <<creates, asked>>
  BY <1>1 DEF AskedFew
<1>2. ASSUME NEW c \in Ids, NEW parent \in NodeIds, CreateCommand(c, parent)
      PROVE  AskedFew'
  <2>1. /\ asked' = asked \cup {c} /\ creates' = creates + 1
        /\ creates < MaxCreates
    BY <1>2 DEF CreateCommand
  <2>2. /\ IsFiniteSet(asked \cup {c})
        /\ Cardinality(asked \cup {c}) = IF c \in asked THEN Cardinality(asked)
                                                        ELSE Cardinality(asked) + 1
    BY FS_AddElement DEF AskedFew
  <2>3. Cardinality(asked) \in Nat /\ creates \in Nat /\ MaxCreates \in Nat
    BY FS_CardinalityType, ControlAssumption
    DEF AskedFew, Inv, ControlInv, ControlTypeOK
  <2> QED
    BY <2>1, <2>2, <2>3 DEF AskedFew
<1>3. PICK R, P, H : OnceInv(R, P, H)
  BY DEF AskedOnce
<1>4. CASE UserCommand
  BY <1>1, <1>2, <1>3, <1>4, OtherCommandOnce
<1>5. CASE NodeStep /\ UNCHANGED <<ctlVars, kills>>
  BY <1>1, <1>5 DEF ctlVars
<1> QED
  BY <1>1, <1>3, <1>4, <1>5, OtherOnce DEF Next, Others

\* A fork ends nobody who runs.
LEMMA ForkEndsNobody ==
  ASSUME LinkInv, NEW b, NEW i, ForkAndBind(b, i),
         NEW a \in Actors, status[a] = "running"
  PROVE  status'[a] = "running"
<1>1. FreshPid \in Pids /\ FreshPid # a
  BY FreshPidType DEF ForkAndBind
<1>2. PICK s : status' = [status EXCEPT ![FreshPid] = s]
  BY DEF ForkAndBind
<1> QED
  BY <1>1, <1>2 DEF LinkInv, LinkTypeOK

\* A port that none of the processes has bound can only be refused.
LEMMA OnlyRefused ==
  ASSUME LinkInv, NEW b, NEW i \in Ids, NEW kept, ~ Used(i), BindFails(b, i, kept)
  PROVE  AskedForRefused
<1>1. FreshPid \in Pids /\ nodeId[FreshPid] = NoId
  BY FreshPidType DEF BindFails, LinkInv, BornHaveIds
<1>2. nodeId'[FreshPid] = i
  BY <1>1 DEF BindFails, LinkInv, LinkTypeOK
<1>3. i \in Refused
  BY DEF BindFails, Used
<1> QED
  BY <1>1, <1>2, <1>3 DEF AskedForRefused

\* No process is left for a node that is wanted and not there.
NoRoom ==
  /\ ~ CanFork
  /\ \E c \in Ids : ~ Used(c) /\ (c \in asked \/ creates < MaxCreates)

LEMMA CreatesEnds ==
  ASSUME LinkInv, NEW b, NEW c \in Ids, NEW kept, ~ Used(c),
         c \in asked \/ creates < MaxCreates,
         ForkAndBind(b, c) \/ BindFails(b, c, kept) \/ ForkFails(b, kept),
         NEW a \in Actors, status[a] = "running", status'[a] = "dead"
  PROVE  AskedForRefused \/ NoRoom
<1>1. CASE ForkAndBind(b, c)
  BY <1>1, ForkEndsNobody
<1>2. CASE BindFails(b, c, kept)
  BY <1>2, OnlyRefused
<1>3. CASE ForkFails(b, kept)
  BY <1>3 DEF ForkFails, NoRoom
<1> QED
  BY <1>1, <1>2, <1>3

\* Why an actor ends.
LEMMA EndCause ==
  ASSUME Careful, Inv, AskedOnce, [Next]_vars,
         NEW a \in Actors, status[a] = "running", status'[a] = "dead"
  PROVE  kills' = kills + 1 \/ AskedForRefused \/ NoRoom
<1>1. PICK R, P, H : OnceInv(R, P, H)
  BY DEF AskedOnce
<1>2. LinkInv
  BY DEF Inv
<1>3. ~ UNCHANGED status
  OBVIOUS
<1>4. CASE NodeStep
  <2>1. PICK p \in Pids : Creates(p)
    BY <1>2, <1>3, <1>4, NodeShape DEF Moves
  <2>2. PICK c \in Ids : c = Incoming(p).add_data /\ c \in asked /\ ~ Used(c)
    BY <1>1, <2>1, CreatesNew
  <2>3. ForkAndBind(p, c) \/ BindFails(p, c, up[p]) \/ ForkFails(p, up[p])
    BY <2>1, <2>2 DEF Creates, ForkChild
  <2> QED
    BY <1>2, <2>2, <2>3, CreatesEnds
<1>5. CASE UserCommand
  <2>1. PICK c \in Ids, parent \in NodeIds : CreateCommand(c, parent)
    BY <1>1, <1>3, <1>5, OtherCommandOnce
  <2>2. parent = Root
    BY <1>3, <2>1 DEF CreateCommand, BroadcastMessage, SendToChildren
  <2>3. c \notin asked /\ creates < MaxCreates
    BY <2>1 DEF CreateCommand
  <2>4. ~ Used(c)
    BY <1>1, <2>3, UnaskedUnused
  <2>5. \/ ForkAndBind(Control, c) \/ BindFails(Control, c, <<>>)
        \/ ForkFails(Control, <<>>)
    BY <2>1, <2>2 DEF CreateCommand, CreateCommandAtRoot
  <2> QED
    BY <1>2, <2>3, <2>4, <2>5, CreatesEnds
<1>6. CASE Kills
  BY <1>6 DEF Kills
<1>7. CASE ControlRestart
  BY <1>7 DEF ControlRestart, Inv, LinkInv, LinkTypeOK
<1>8. CASE ControlStep \/ Connects \/ Tick \/ UNCHANGED vars
  BY <1>3, <1>8
  DEF ControlStep, CreateAnswered, PingAnswered, AddAnswered, FindAnswered,
      BeatReceived, ControlReceives, CheckPending, CheckBeats, linkVars,
      Connects, Connect, Tick, vars
<1> QED
  BY <1>4, <1>5, <1>6, <1>7, <1>8 DEF Next

LEMMA CarefulInit == Init => CarefulInv
<1> SUFFICES ASSUME Init
             PROVE  AskedOnce /\ AskedFew
  BY DEF CarefulInv
<1>1. AskedFew
  BY FS_EmptySet, ControlAssumption DEF Init, ControlInit, AskedFew
<1> QED
  BY <1>1, OnceInit

LEMMA CarefulStep == Inv /\ CarefulInv /\ [Next]_vars => CarefulInv'
BY OnceStep, FewStep DEF CarefulInv

LEMMA SpecCarefulInv == Spec => []CarefulInv
BY CarefulInit, CarefulStep, SpecInv, PTL DEF Spec

(***************************************************************************)
(* If the user never asks twice for a node, an actor ends only by kill,    *)
(* because there was no process left to fork, or because the system may    *)
(* have refused the port that was asked for: no two processes of the       *)
(* system ever want the same port, and no end of one node ends another     *)
(* (nodes.cpp:54-58 and 70-73).                                            *)
(***************************************************************************)
THEOREM EveryEndExplained == Spec => EndsExplained
<1>1. ASSUME Inv, CarefulInv, [Next]_vars, Careful, NEW a \in Actors,
             status[a] = "running", status'[a] = "dead"
      PROVE  kills' = kills + 1 \/ ~ CanFork \/ AskedForRefused
  BY <1>1, EndCause DEF CarefulInv, NoRoom
<1>2. Inv /\ CarefulInv /\ [Next]_vars
        => [Careful => \A a \in Actors :
              status[a] = "running" /\ status'[a] = "dead" =>
                kills' = kills + 1 \/ ~ CanFork \/ AskedForRefused]_vars
  BY <1>1
<1>3. Spec => []Inv /\ []CarefulInv
  BY SpecInv, SpecCarefulInv
<1> QED
  BY <1>2, <1>3, PTL DEF Spec, EndsExplained

(***************************************************************************)
(* With a process for every create command, a fork never fails for such a  *)
(* user: what ends was killed, or a port was asked for that the system may *)
(* refuse.                                                                 *)
(***************************************************************************)
EndsKilledOrRefused ==
  [][Careful => \A a \in Actors :
       status[a] = "running" /\ status'[a] = "dead" =>
         kills' = kills + 1 \/ AskedForRefused]_vars

THEOREM EnoughProcesses == ASSUME ForksSucceed PROVE Spec => EndsKilledOrRefused
<1>1. ASSUME Inv, CarefulInv, Careful PROVE ~ NoRoom
  BY <1>1, RoomToFork DEF CarefulInv, AskedOnce, NoRoom
<1>2. ASSUME Inv, CarefulInv, [Next]_vars, Careful, NEW a \in Actors,
             status[a] = "running", status'[a] = "dead"
      PROVE  kills' = kills + 1 \/ AskedForRefused
  BY <1>1, <1>2, EndCause DEF CarefulInv
<1>3. Inv /\ CarefulInv /\ [Next]_vars
        => [Careful => \A a \in Actors :
              status[a] = "running" /\ status'[a] = "dead" =>
                kills' = kills + 1 \/ AskedForRefused]_vars
  BY <1>2
<1>4. Spec => []Inv /\ []CarefulInv
  BY SpecInv, SpecCarefulInv
<1> QED
  BY <1>3, <1>4, PTL DEF Spec, EndsKilledOrRefused
=============================================================================
