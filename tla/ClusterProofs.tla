---------------------------- MODULE ClusterProofs ----------------------------
(***************************************************************************)
(* Proofs about module Cluster, for every number of nodes, processes, keys *)
(* and commands.                                                           *)
(***************************************************************************)
EXTENDS Cluster, SequenceTheorems, TLAPS

-----------------------------------------------------------------------------
(***************************************************************************)
(* What the queue operators of NodeLinks do to a queue per process.  S is  *)
(* any set of messages.                                                    *)
(***************************************************************************)

\* The oldest message is one that was put in, and taking it leaves a queue.
LEMMA PopType ==
  ASSUME NEW S, NEW Q \in [Pids -> Seq(S)], NEW p \in Pids, Q[p] # <<>>
  PROVE  Head(Q[p]) \in S /\ Pop(p, Q) \in [Pids -> Seq(S)]
<1>1. Q[p] \in Seq(S)
  OBVIOUS
<1>2. Head(Q[p]) \in S /\ Tail(Q[p]) \in Seq(S)
  BY <1>1, HeadTailProperties
<1> QED
  BY <1>2 DEF Pop

\* A reply is queued or dropped.
LEMMA SendType ==
  ASSUME NEW S, NEW Q \in [Pids -> Seq(S)], NEW p \in Pids, NEW m \in S
  PROVE  Send(p, m, Q) \in [Pids -> Seq(S)]
<1>1. Append(Q[p], m) \in Seq(S)
  BY AppendProperties
<1> QED
  BY <1>1 DEF Send

\* A broadcast request is queued for some of the processes.
LEMMA BroadcastType ==
  ASSUME NEW S, NEW Q \in [Pids -> Seq(S)], NEW T, NEW m \in S
  PROVE  Broadcast(T, m, Q) \in [Pids -> Seq(S)]
<1>1. \A p \in Pids : Append(Q[p], m) \in Seq(S)
  BY AppendProperties
<1> QED
  BY <1>1 DEF Broadcast

\* A queue of messages of S is one of messages of a larger set.
LEMMA QueueMonotone ==
  ASSUME NEW S, NEW R, S \subseteq R, NEW Q \in [Pids -> Seq(S)]
  PROVE  Q \in [Pids -> Seq(R)]
<1>1. Seq(S) \subseteq Seq(R)
  OBVIOUS
<1> QED
  BY <1>1

\* The beginning and the end of a queue are queues.
LEMMA CutType ==
  ASSUME NEW S, NEW s \in Seq(S), NEW k \in 0 .. Len(s)
  PROVE  SubSeq(s, 1, k) \in Seq(S) /\ SubSeq(s, k + 1, Len(s)) \in Seq(S)
<1>1. \A i \in 1 .. k : i \in 1 .. Len(s)
  BY LenProperties
<1>2. \A i \in k + 1 .. Len(s) : i \in 1 .. Len(s)
  BY LenProperties
<1> QED
  BY <1>1, <1>2, SubSeqProperties

\* A queue without its n-th element is a queue.
LEMMA RemoveAtType ==
  ASSUME NEW S, NEW s \in Seq(S), NEW n \in 1 .. Len(s)
  PROVE  RemoveAt(s, n) \in Seq(S)
<1>1. n - 1 \in 0 .. Len(s) /\ n \in 0 .. Len(s)
  BY LenProperties
<1>2. SubSeq(s, 1, n - 1) \in Seq(S) /\ SubSeq(s, n + 1, Len(s)) \in Seq(S)
  BY <1>1, CutType
<1> QED
  BY <1>2, ConcatProperties DEF RemoveAt

-----------------------------------------------------------------------------
(***************************************************************************)
(* The inductive invariant.  A request travels while others are answered,  *)
(* so that its node is known must be said of every message in a queue, and *)
(* so must the honesty of the replies.  A process has an id from its fork  *)
(* on; without that, a reply might name no node.                           *)
(***************************************************************************)
KnownRequests == {m \in Request : m.id \in everKnown}
OwnRequests   == {m \in Request : m.id \in node_ids_}
HonestReplies == {m \in Reply : CreatedNode(m)}

BornHaveIds == \A p \in Pids : nodeId[p] = NoId <=> status[p] = "unborn"

LinkInv ==
  /\ LinkTypeOK
  /\ BornHaveIds
  /\ down \in [Pids -> Seq(KnownRequests)]
  /\ up \in [Pids -> Seq(HonestReplies)]

ControlInv ==
  /\ ControlTypeOK
  /\ Root \in node_ids_
  /\ node_ids_ \subseteq everKnown
  /\ KnownNodesForked
  /\ pending_messages_ \in Seq([msg : OwnRequests, age : Nat])

Inv == LinkInv /\ NodeTypeOK /\ ControlInv /\ kills \in Nat

THEOREM InvImpliesTypeOK == Inv => TypeOK
BY DEF Inv, LinkInv, ControlInv, TypeOK

THEOREM InvImpliesRequestsAddressKnownNodes == Inv => RequestsAddressKnownNodes
<1> SUFFICES ASSUME Inv PROVE RequestsAddressKnownNodes
  OBVIOUS
<1>1. ASSUME NEW p \in Pids, NEW n \in DOMAIN down[p]
      PROVE  down[p][n].id \in everKnown
  <2>1. down[p] \in Seq(KnownRequests)
    BY DEF Inv, LinkInv
  <2>2. down[p][n] \in KnownRequests
    BY <2>1, LenProperties, ElementOfSeq
  <2> QED
    BY <2>2 DEF KnownRequests
<1>2. ASSUME NEW n \in DOMAIN pending_messages_
      PROVE  pending_messages_[n].msg.id \in node_ids_
  <2>1. pending_messages_[n] \in [msg : OwnRequests, age : Nat]
    BY LenProperties, ElementOfSeq DEF Inv, ControlInv
  <2> QED
    BY <2>1 DEF OwnRequests
<1> QED
  BY <1>1, <1>2 DEF RequestsAddressKnownNodes

THEOREM InvImpliesRepliesNameNodes == Inv => RepliesNameNodes
<1> SUFFICES ASSUME Inv PROVE RepliesNameNodes
  OBVIOUS
<1>1. ASSUME NEW p \in Pids, NEW n \in DOMAIN up[p]
      PROVE  CreatedNode(up[p][n])
  <2>1. up[p] \in Seq(HonestReplies)
    BY DEF Inv, LinkInv
  <2>2. up[p][n] \in HonestReplies
    BY <2>1, LenProperties, ElementOfSeq
  <2> QED
    BY <2>2 DEF HonestReplies
<1> QED
  BY <1>1 DEF RepliesNameNodes, CreateRepliesHonest, Inv, ControlInv

THEOREM InitInv == Init => Inv
<1> SUFFICES ASSUME Init PROVE Inv
  OBVIOUS
<1> USE DEF Init
<1>1. \A S : <<>> \in Seq(S)
  BY EmptySeq
<1>2. LinkInv
  <2>1. \A p \in Pids : status[p] = "unborn"
    BY LinkAssumption DEF LinkInit, Actors, Control
  <2>2. BornHaveIds
    BY <2>1 DEF LinkInit, BornHaveIds
  <2> QED
    BY <1>1, <2>2 DEF LinkInit, LinkInv, LinkTypeOK, NoOwner
<1>3. NodeTypeOK
  BY DEF NodeInit, NodeTypeOK
<1>4. ControlInv
  BY <1>1 DEF ControlInit, ControlInv, ControlTypeOK, KnownNodesForked,
              NodeIds, Untracked, NoWrite
<1> QED
  BY <1>2, <1>3, <1>4 DEF Inv

-----------------------------------------------------------------------------
(***************************************************************************)
(* What the network operations preserve.                                   *)
(***************************************************************************)

\* A reply that names no new node, or names it rightly, may be sent.
LEMMA SendReplyInv ==
  ASSUME LinkInv, UNCHANGED everKnown, NEW p \in Pids, down[p] # <<>>,
         NEW m \in HonestReplies, SendReply(p, m)
  PROVE  LinkInv'
<1>1. KnownRequests' = KnownRequests /\ HonestReplies' = HonestReplies
  BY DEF KnownRequests, HonestReplies, CreatedNode, SendReply
<1>2. down' \in [Pids -> Seq(KnownRequests)]
  BY PopType DEF LinkInv, SendReply
<1>3. up' \in [Pids -> Seq(HonestReplies)]
  BY SendType DEF LinkInv, SendReply
<1>4. down' \in [Pids -> Seq(Request)] /\ up' \in [Pids -> Seq(Reply)]
  BY <1>2, <1>3, QueueMonotone DEF KnownRequests, HonestReplies
<1> QED
  BY <1>1, <1>2, <1>3, <1>4
  DEF LinkInv, LinkTypeOK, BornHaveIds, SendReply, Full

\* Passing a request on leaves every queue with requests for known nodes.
LEMMA PassOnInv ==
  ASSUME LinkInv, UNCHANGED everKnown, NEW p \in Pids, down[p] # <<>>, PassOn(p)
  PROVE  LinkInv'
<1>1. KnownRequests' = KnownRequests /\ HonestReplies' = HonestReplies
  BY DEF KnownRequests, HonestReplies, CreatedNode, PassOn
<1>2. PICK T : down' = Broadcast(T, Incoming(p), Pop(p, down))
  BY DEF PassOn
<1>3. /\ Incoming(p) \in KnownRequests
      /\ Pop(p, down) \in [Pids -> Seq(KnownRequests)]
  BY PopType DEF LinkInv, Incoming
<1>4. down' \in [Pids -> Seq(KnownRequests)]
  BY <1>2, <1>3, BroadcastType
<1>5. down' \in [Pids -> Seq(Request)]
  BY <1>4, QueueMonotone DEF KnownRequests
<1> QED
  BY <1>1, <1>4, <1>5 DEF LinkInv, LinkTypeOK, BornHaveIds, PassOn, DropsCopy

\* The process a fork makes was not born before.
LEMMA FreshPidType == CanFork => FreshPid \in Pids /\ status[FreshPid] = "unborn"
BY DEF CanFork, FreshPid

\* The new process runs, or has ended at once.
LEMMA NewProcessType == \A i, s : s \in NewProcess(i) => s \in {"running", "dead"}
BY DEF NewProcess

\* A fork gives an id to a process that had none, so no reply under way
\* changes its meaning.
LEMMA ForkInv ==
  ASSUME LinkInv, CanFork, NEW a \in Actors, NEW i \in Ids,
         status[a] = "running",
         nodeId' = [nodeId EXCEPT ![FreshPid] = i],
         NEW s \in {"running", "dead"},
         \/ status' = [status EXCEPT ![FreshPid] = s]
         \/ status' = [status EXCEPT ![FreshPid] = s, ![a] = "dead"]
  PROVE  /\ nodeId' \in [Pids -> Ids \cup {NoId}]
         /\ status' \in [Actors -> {"unborn", "running", "dead"}]
         /\ BornHaveIds'
         /\ HonestReplies \subseteq HonestReplies'
         /\ nodeId'[FreshPid] = i
         /\ \A p \in Pids : nodeId[p] # NoId => nodeId'[p] = nodeId[p]
<1>1. FreshPid \in Pids /\ status[FreshPid] = "unborn" /\ FreshPid # a
  BY FreshPidType
<1>2. i # NoId
  BY MessageAssumption DEF NoId
<1>3. \A p \in Pids : p \in Actors
  BY DEF Actors
<1>4. /\ nodeId' \in [Pids -> Ids \cup {NoId}]
      /\ status' \in [Actors -> {"unborn", "running", "dead"}]
      /\ nodeId'[FreshPid] = i
      /\ \A p \in Pids : p # FreshPid => nodeId'[p] = nodeId[p]
  BY <1>1, <1>3 DEF LinkInv, LinkTypeOK
<1>5. nodeId[FreshPid] = NoId
  BY <1>1 DEF LinkInv, BornHaveIds
<1>6. \A p \in Pids : status'[p] = "unborn" <=> (status[p] = "unborn" /\ p # FreshPid)
  BY <1>1, <1>3 DEF LinkInv, LinkTypeOK
<1>7. BornHaveIds'
  BY <1>2, <1>4, <1>5, <1>6 DEF LinkInv, BornHaveIds
<1>8. ASSUME NEW m \in HonestReplies
      PROVE  m \in HonestReplies'
  <2>1. m.command = "Create" => m.id # NoId
    BY MessageAssumption DEF HonestReplies, Reply, NoId
  <2>2. CreatedNode(m)'
    BY <1>4, <1>5, <2>1 DEF HonestReplies, CreatedNode
  <2> QED
    BY <2>2 DEF HonestReplies
<1> QED
  BY <1>4, <1>5, <1>7, <1>8

\* What a dying actor has sent downwards is the first part of what it had
\* queued: all of it, if it throws.
FirstParts(sent) ==
  \A p \in Pids : \E n \in 0 .. Len(down[p]) : sent[p] = SubSeq(down[p], 1, n)

LEMMA AllSent == ASSUME LinkTypeOK PROVE FirstParts(down)
<1> SUFFICES ASSUME NEW p \in Pids
             PROVE  \E n \in 0 .. Len(down[p]) : down[p] = SubSeq(down[p], 1, n)
  BY DEF FirstParts
<1>1. down[p] \in Seq(Request)
  BY DEF LinkTypeOK
<1>2. Len(down[p]) \in 0 .. Len(down[p])
  BY <1>1, LenProperties
<1>3. down[p] = SubSeq(down[p], 1, Len(down[p]))
  BY <1>1, <1>2
<1> QED
  BY <1>2, <1>3

LEMMA PartSent ==
  ASSUME LinkTypeOK, NEW a, NEW sent \in SentDown(a)
  PROVE  FirstParts(sent)
<1>1. PICK m \in [Pids -> 0 .. Hwm] :
        /\ \A p \in Pids : IF p \in ChildProcs(a) THEN m[p] <= Len(down[p])
                                                  ELSE m[p] = Len(down[p])
        /\ sent = [p \in Pids |-> SubSeq(down[p], 1, m[p])]
  BY Zenon DEF SentDown
<1>2. ASSUME NEW p \in Pids
      PROVE  \E n \in 0 .. Len(down[p]) : sent[p] = SubSeq(down[p], 1, n)
  <2>1. Len(down[p]) \in Nat
    BY LenProperties DEF LinkTypeOK
  <2>2. m[p] \in 0 .. Hwm /\ m[p] <= Len(down[p])
    BY <1>1, <2>1
  <2>3. m[p] \in 0 .. Len(down[p])
    BY <2>1, <2>2, LinkAssumption
  <2>4. sent[p] = SubSeq(down[p], 1, m[p])
    BY <1>1
  <2> QED
    BY <2>3, <2>4
<1> QED
  BY <1>2 DEF FirstParts

\* How a throw and a kill close the sockets of an actor.
Closes(a, kept) == \E sent : CloseSockets(a, kept, sent) /\ FirstParts(sent)

LEMMA ThrowCloses ==
  ASSUME LinkTypeOK, NEW a, NEW kept,
         (\E i : BindFails(a, i, kept)) \/ ForkFails(a, kept)
  PROVE  Closes(a, kept)
<1>1. CloseSockets(a, kept, down) /\ FirstParts(down)
  BY AllSent DEF BindFails, ForkFails
<1> QED
  BY <1>1 DEF Closes

LEMMA KillCloses ==
  ASSUME LinkTypeOK, NEW a, Kill(a)
  PROVE  \E k \in 0 .. Len(SentUp(a)) : Closes(a, SubSeq(SentUp(a), 1, k))
<1>1. PICK k \in 0 .. Len(SentUp(a)), sent \in SentDown(a) :
        CloseSockets(a, SubSeq(SentUp(a), 1, k), sent)
  BY DEF Kill
<1> QED
  BY <1>1, PartSent DEF Closes

\* Closing sockets may lose messages, but makes none.
LEMMA CloseSocketsInv ==
  ASSUME LinkInv, NEW a \in Actors, NEW kept \in Seq(HonestReplies),
         Closes(a, kept)
  PROVE  /\ owner' \in [Ids -> Actors \cup {NoOwner}]
         /\ connected' \in [Pids -> BOOLEAN]
         /\ down' \in [Pids -> Seq(KnownRequests)]
         /\ up' \in [Pids -> Seq(HonestReplies)]
         /\ lost' \in BOOLEAN
<1>1. \A S : <<>> \in Seq(S)
  BY EmptySeq
<1>0. PICK sent : CloseSockets(a, kept, sent) /\ FirstParts(sent)
  BY DEF Closes
<1>2. owner' \in [Ids -> Actors \cup {NoOwner}] /\ lost' \in BOOLEAN
  BY <1>0 DEF CloseSockets, LinkInv, LinkTypeOK
<1>3. connected' \in [Pids -> BOOLEAN]
  BY <1>0, Zenon DEF CloseSockets, LinkInv, LinkTypeOK
<1>4. down' \in [Pids -> Seq(KnownRequests)]
  <2>1. \A p \in Pids : sent[p] \in Seq(KnownRequests)
    BY <1>0, CutType DEF FirstParts, LinkInv
  <2> QED
    BY <1>0, <1>1, <2>1 DEF CloseSockets
<1>5. up' \in [Pids -> Seq(HonestReplies)]
  BY <1>0, <1>1 DEF CloseSockets, LinkInv
<1> QED
  BY <1>2, <1>3, <1>4, <1>5

\* From the parts to the whole, when nothing known was forgotten.
LEMMA LinkInvFromParts ==
  ASSUME everKnown \subseteq everKnown',
         HonestReplies \subseteq HonestReplies',
         nodeId' \in [Pids -> Ids \cup {NoId}],
         status' \in [Actors -> {"unborn", "running", "dead"}],
         BornHaveIds',
         owner' \in [Ids -> Actors \cup {NoOwner}],
         connected' \in [Pids -> BOOLEAN],
         down' \in [Pids -> Seq(KnownRequests)],
         up' \in [Pids -> Seq(HonestReplies)],
         lost' \in BOOLEAN
  PROVE  LinkInv'
<1>1. KnownRequests \subseteq KnownRequests'
  BY DEF KnownRequests
<1>2. down' \in [Pids -> Seq(Request)] /\ up' \in [Pids -> Seq(Reply)]
  BY QueueMonotone DEF KnownRequests, HonestReplies
<1>3. /\ down' \in [Pids -> Seq(KnownRequests')]
      /\ up' \in [Pids -> Seq(HonestReplies')]
  BY <1>1, QueueMonotone
<1> QED
  BY <1>2, <1>3 DEF LinkInv, LinkTypeOK

\* An actor whose create_process throws.
LEMMA BindFailsInv ==
  ASSUME LinkInv, UNCHANGED everKnown, NEW a \in Actors, status[a] = "running",
         NEW i \in Ids, NEW kept \in Seq(HonestReplies), BindFails(a, i, kept)
  PROVE  LinkInv'
<1>1. CanFork /\ nodeId' = [nodeId EXCEPT ![FreshPid] = i]
  BY DEF BindFails
<1>2. PICK s \in {"running", "dead"} :
        status' = [status EXCEPT ![FreshPid] = s, ![a] = "dead"]
  BY NewProcessType DEF BindFails
<1>3. Closes(a, kept)
  BY ThrowCloses DEF LinkInv
<1> QED
  BY <1>1, <1>2, <1>3, ForkInv, CloseSocketsInv, LinkInvFromParts

\* An actor that ends, and nothing is forked.
LEMMA EndInv ==
  ASSUME LinkInv, UNCHANGED <<everKnown, nodeId>>, NEW a \in Actors,
         status[a] = "running", status' = [status EXCEPT ![a] = "dead"],
         NEW kept \in Seq(HonestReplies), Closes(a, kept)
  PROVE  LinkInv'
<1>1. HonestReplies' = HonestReplies
  BY DEF HonestReplies, CreatedNode
<1>2. /\ nodeId' \in [Pids -> Ids \cup {NoId}]
      /\ status' \in [Actors -> {"unborn", "running", "dead"}]
      /\ BornHaveIds'
  BY DEF LinkInv, LinkTypeOK, BornHaveIds, Actors
<1> QED
  BY <1>1, <1>2, CloseSocketsInv, LinkInvFromParts

LEMMA ForkFailsInv ==
  ASSUME LinkInv, UNCHANGED everKnown, NEW a \in Actors, status[a] = "running",
         NEW kept \in Seq(HonestReplies), ForkFails(a, kept)
  PROVE  LinkInv'
<1>1. Closes(a, kept)
  BY ThrowCloses DEF LinkInv
<1> QED
  BY <1>1, EndInv DEF ForkFails

LEMMA KillInv ==
  ASSUME LinkInv, UNCHANGED everKnown, NEW a \in Actors, Kill(a)
  PROVE  LinkInv'
<1>1. PICK k \in 0 .. Len(SentUp(a)) : Closes(a, SubSeq(SentUp(a), 1, k))
  BY KillCloses DEF LinkInv
<1>2. SentUp(a) \in Seq(HonestReplies)
  BY EmptySeq DEF SentUp, LinkInv, Actors
<1>3. SubSeq(SentUp(a), 1, k) \in Seq(HonestReplies)
  BY <1>2, CutType
<1> QED
  BY <1>1, <1>3, EndInv DEF Kill

LEMMA ConnectInv ==
  ASSUME LinkInv, UNCHANGED everKnown, NEW p \in Pids, Connect(p)
  PROVE  LinkInv'
<1>1. HonestReplies' = HonestReplies
  BY DEF HonestReplies, CreatedNode, Connect
<1>2. PICK k \in 0 .. Len(up[p]) :
        /\ up' = [up EXCEPT ![p] = SubSeq(@, k + 1, Len(@))]
        /\ lost' = (lost \/ k > 0)
  BY DEF Connect
<1>3. SubSeq(up[p], k + 1, Len(up[p])) \in Seq(HonestReplies)
  BY CutType DEF LinkInv
<1>4. up' \in [Pids -> Seq(HonestReplies)]
  BY <1>2, <1>3 DEF LinkInv
<1> QED
  BY <1>1, <1>2, <1>4, LinkInvFromParts
  DEF Connect, LinkInv, LinkTypeOK, BornHaveIds

-----------------------------------------------------------------------------
(***************************************************************************)
(* The steps of a computing process.                                       *)
(***************************************************************************)

\* What a running process receives was asked of a node that is known, and
\* the process itself runs a node.
LEMMA IncomingFacts ==
  ASSUME LinkInv, NEW p \in Pids, status[p] = "running", down[p] # <<>>
  PROVE  /\ Incoming(p) \in Request
         /\ nodeId[p] \in Ids
         /\ p \in Actors
<1>1. Incoming(p) \in KnownRequests
  BY PopType DEF LinkInv, Incoming
<1> QED
  BY <1>1 DEF KnownRequests, LinkInv, LinkTypeOK, BornHaveIds, Actors

\* The request itself is an honest reply of the node it was meant for,
\* unless it is a Create.
LEMMA EchoHonest ==
  ASSUME NEW m \in Request, m.id \in Ids, m.command \in {"Ping", "ExecAdd"}
  PROVE  m \in HonestReplies
BY DEF Request, Reply, HonestReplies, CreatedNode

LEMMA NodeCreateInv ==
  ASSUME LinkInv, UNCHANGED everKnown, NEW p \in Pids, NodeCreate(p)
  PROVE  LinkInv'
<1>1. /\ status[p] = "running" /\ down[p] # <<>>
      /\ Incoming(p).command = "Create"
  BY DEF NodeCreate, Receives
<1>2. Incoming(p).add_data \in Ids /\ nodeId[p] \in Ids /\ p \in Actors
  BY <1>1, IncomingFacts DEF Request
<1>3. up[p] \in Seq(HonestReplies)
  BY DEF LinkInv
<1> DEFINE i == Incoming(p).add_data
<1>4. CASE PassOn(p)
  BY <1>1, <1>4, PassOnInv
<1>5. CASE BindFails(p, i, up[p])
  BY <1>1, <1>2, <1>3, <1>5, BindFailsInv
<1>6. CASE ForkFails(p, up[p])
  BY <1>1, <1>2, <1>3, <1>6, ForkFailsInv
<1>7. CASE ForkChild(p, i)
  <2> DEFINE m == Msg("Create", i, FreshPid)
  <2> HIDE DEF i
  <2>0. i \in Ids
    BY <1>2 DEF i
  <2>1. CanFork /\ nodeId' = [nodeId EXCEPT ![FreshPid] = i]
        /\ owner' = [owner EXCEPT ![i] = p] /\ connected' = connected
        /\ down' = Pop(p, down) /\ up' = Send(p, m, up)
        /\ lost' = (lost \/ Full(p))
    BY <1>7 DEF ForkChild, ForkAndBind
  <2>11. PICK s \in {"running", "dead"} : status' = [status EXCEPT ![FreshPid] = s]
    BY <1>7, NewProcessType DEF ForkChild, ForkAndBind
  <2>2. /\ nodeId' \in [Pids -> Ids \cup {NoId}]
        /\ status' \in [Actors -> {"unborn", "running", "dead"}]
        /\ BornHaveIds'
        /\ HonestReplies \subseteq HonestReplies'
        /\ nodeId'[FreshPid] = i
    BY <1>1, <1>2, <2>0, <2>1, <2>11, ForkInv
  <2>3. m \in HonestReplies'
    <3>1. FreshPid \in Pids /\ FreshPid \in Nat
      BY <2>1, FreshPidType, LinkAssumption
    <3>2. m \in Reply
      BY <2>0, <3>1 DEF Reply, Msg
    <3> QED
      BY <2>2, <3>1, <3>2 DEF HonestReplies, CreatedNode, Msg
  <2>4. up \in [Pids -> Seq(HonestReplies')]
    BY <2>2, QueueMonotone DEF LinkInv
  <2>5. up' \in [Pids -> Seq(HonestReplies')]
    BY <2>1, <2>3, <2>4, SendType
  <2>6. down' \in [Pids -> Seq(KnownRequests)]
    BY <1>1, <2>1, PopType DEF LinkInv
  <2>7. KnownRequests' = KnownRequests
    BY DEF KnownRequests
  <2>8. down' \in [Pids -> Seq(Request)] /\ up' \in [Pids -> Seq(Reply)]
    BY <2>5, <2>6, QueueMonotone DEF KnownRequests, HonestReplies
  <2>9. /\ owner' \in [Ids -> Actors \cup {NoOwner}]
        /\ connected' \in [Pids -> BOOLEAN] /\ lost' \in BOOLEAN
    BY <1>2, <2>1 DEF LinkInv, LinkTypeOK, Full
  <2> QED
    BY <2>2, <2>5, <2>6, <2>7, <2>8, <2>9 DEF LinkInv, LinkTypeOK
<1> QED
  BY <1>4, <1>5, <1>6, <1>7 DEF NodeCreate

LEMMA NodePingInv ==
  ASSUME LinkInv, UNCHANGED everKnown, NEW p \in Pids, NodePing(p)
  PROVE  LinkInv'
<1>1. /\ status[p] = "running" /\ down[p] # <<>>
      /\ Incoming(p).command = "Ping"
  BY DEF NodePing, Receives
<1>2. ForMe(p) => Incoming(p) \in HonestReplies
  BY <1>1, IncomingFacts, EchoHonest DEF ForMe
<1> QED
  BY <1>1, <1>2, SendReplyInv, PassOnInv DEF NodePing

LEMMA NodeHeartBeatInv ==
  ASSUME LinkInv, NodeTypeOK, UNCHANGED everKnown, NEW p \in Pids,
         NodeHeartBeat(p)
  PROVE  LinkInv' /\ NodeTypeOK'
<1>1. /\ status[p] = "running" /\ down[p] # <<>> /\ PassOn(p)
      /\ Incoming(p).command = "HeartBeat"
  BY DEF NodeHeartBeat, Receives
<1>2. Incoming(p).add_data \in Periods
  BY <1>1, IncomingFacts DEF Request
<1> QED
  BY <1>1, <1>2, PassOnInv DEF NodeHeartBeat, NodeTypeOK

LEMMA NodeExecAddInv ==
  ASSUME LinkInv, NodeTypeOK, UNCHANGED everKnown, NEW p \in Pids,
         NodeExecAdd(p)
  PROVE  LinkInv' /\ NodeTypeOK'
<1>1. /\ status[p] = "running" /\ down[p] # <<>>
      /\ Incoming(p).command = "ExecAdd"
  BY DEF NodeExecAdd, Receives
<1>2. Incoming(p).add_data \in Nat /\ Incoming(p).val \in Keys
  BY <1>1, IncomingFacts DEF Request
<1>3. ForMe(p) => Incoming(p) \in HonestReplies
  BY <1>1, IncomingFacts, EchoHonest DEF ForMe
<1>4. LinkInv'
  BY <1>1, <1>3, SendReplyInv, PassOnInv DEF NodeExecAdd
<1>5. dictionary' \in [Pids -> [Keys -> Nat \cup {Absent}]]
  BY <1>2 DEF NodeExecAdd, NodeTypeOK
<1> QED
  BY <1>4, <1>5 DEF NodeExecAdd, NodeTypeOK

LEMMA NodeExecFindInv ==
  ASSUME LinkInv, NodeTypeOK, UNCHANGED everKnown, NEW p \in Pids,
         NodeExecFind(p)
  PROVE  LinkInv'
<1>1. /\ status[p] = "running" /\ down[p] # <<>>
      /\ Incoming(p).command = "ExecFnd"
  BY DEF NodeExecFind, Receives
<1> DEFINE k == Incoming(p).val
<1>2. k \in Keys /\ nodeId[p] \in Ids
  BY <1>1, IncomingFacts DEF Request
<1>3. Stored[k] \in Keys
  BY <1>2, MessageAssumption
<1>4. dictionary[p][k] \in Nat \cup {Absent}
  BY <1>2 DEF NodeTypeOK
<1>5. FindReply(p, k) \in HonestReplies
  BY <1>2, <1>3, <1>4
  DEF FindReply, MsgVal, HonestReplies, Reply, CreatedNode
<1> QED
  BY <1>1, <1>5, SendReplyInv, PassOnInv DEF NodeExecFind

LEMMA NodeForwardInv ==
  ASSUME LinkInv, UNCHANGED everKnown, NEW p \in Pids, NEW q \in Pids,
         NodeForward(p, q)
  PROVE  LinkInv'
<1>1. HonestReplies' = HonestReplies
  BY DEF HonestReplies, CreatedNode, NodeForward
<1>2. up[q] # <<>>
  BY DEF NodeForward, Readable
<1>3. up' \in [Pids -> Seq(HonestReplies)]
  BY <1>2, PopType, SendType DEF NodeForward, LinkInv
<1> QED
  BY <1>1, <1>3, LinkInvFromParts
  DEF NodeForward, LinkInv, LinkTypeOK, BornHaveIds, Full

LEMMA NodeBeatInv ==
  ASSUME LinkInv, NodeTypeOK, UNCHANGED everKnown, NEW p \in Pids, NodeBeat(p)
  PROVE  LinkInv' /\ NodeTypeOK'
<1>1. HonestReplies' = HonestReplies
  BY DEF HonestReplies, CreatedNode, NodeBeat
<1>2. nodeId[p] \in Ids
  BY DEF NodeBeat, LinkInv, LinkTypeOK, BornHaveIds
<1>3. Msg("HeartBeat", nodeId[p], -1) \in HonestReplies
  BY <1>2 DEF Msg, HonestReplies, Reply, CreatedNode
<1>4. up' \in [Pids -> Seq(HonestReplies)]
  BY <1>3, SendType DEF NodeBeat, LinkInv
<1>5. LinkInv'
  BY <1>1, <1>4, LinkInvFromParts
  DEF NodeBeat, LinkInv, LinkTypeOK, BornHaveIds, Full
<1> QED
  BY <1>5 DEF NodeBeat, NodeTypeOK

LEMMA NodeStepInv ==
  ASSUME LinkInv, NodeTypeOK, UNCHANGED everKnown, NodeStep
  PROVE  LinkInv' /\ NodeTypeOK'
<1>1. ASSUME NEW p \in Pids, NodeCreate(p) \/ NodePing(p) \/ NodeExecFind(p)
      PROVE  LinkInv' /\ NodeTypeOK'
  <2>1. LinkInv'
    BY <1>1, NodeCreateInv, NodePingInv, NodeExecFindInv
  <2> QED
    BY <1>1, <2>1
    DEF NodeTypeOK, NodeCreate, NodePing, NodeExecFind, nodeVars
<1>2. ASSUME NEW p \in Pids, NodeHeartBeat(p) \/ NodeExecAdd(p) \/ NodeBeat(p)
      PROVE  LinkInv' /\ NodeTypeOK'
  BY <1>2, NodeHeartBeatInv, NodeExecAddInv, NodeBeatInv
<1>3. ASSUME NEW p \in Pids, NEW q \in Pids, NodeForward(p, q)
      PROVE  LinkInv' /\ NodeTypeOK'
  BY <1>3, NodeForwardInv DEF NodeTypeOK, NodeForward, nodeVars
<1> QED
  BY <1>1, <1>2, <1>3 DEF NodeStep

-----------------------------------------------------------------------------
(***************************************************************************)
(* The steps of the control process.                                       *)
(***************************************************************************)
KnownPending == [msg : OwnRequests, age : Nat]

\* Erasing a pending request leaves pending requests.
LEMMA RemovePendingType ==
  ASSUME pending_messages_ \in Seq(KnownPending), NEW c, NEW i,
         RemovePending(c, i)
  PROVE  pending_messages_' \in Seq(KnownPending)
<1>1. CASE UNCHANGED pending_messages_
  BY <1>1
<1>2. ASSUME NEW n \in DOMAIN pending_messages_,
             pending_messages_' = RemoveAt(pending_messages_, n)
      PROVE  pending_messages_' \in Seq(KnownPending)
  <2>1. n \in 1 .. Len(pending_messages_)
    BY LenProperties
  <2> QED
    BY <1>2, <2>1, RemoveAtType
<1> QED
  BY <1>1, <1>2 DEF RemovePending

\* A request for a node the control process knows is one for a known node.
LEMMA OwnIsKnown == ControlInv => OwnRequests \subseteq KnownRequests
BY DEF ControlInv, OwnRequests, KnownRequests

\* What is pending for a known node stays so while no node is forgotten.
LEMMA PendingMonotone ==
  ASSUME NEW P \in Seq(KnownPending), node_ids_ \subseteq node_ids_'
  PROVE  P \in Seq(KnownPending') /\ P \in Seq(Pending)
<1>1. KnownPending \subseteq KnownPending' /\ KnownPending \subseteq Pending
  BY DEF KnownPending, OwnRequests, Pending
<1> QED
  BY <1>1, SeqMonotonic

\* Known nodes keep their processes, whatever else is forked.
LEMMA ForkedStaysForked ==
  ASSUME ControlTypeOK, KnownNodesForked, UNCHANGED node_ids_,
         \A p \in Pids : nodeId[p] # NoId => nodeId'[p] = nodeId[p]
  PROVE  KnownNodesForked'
<1>1. ASSUME NEW i \in node_ids_, i # Root
      PROVE  i \in {nodeId'[p] : p \in Pids}
  <2>1. PICK p \in Pids : nodeId[p] = i
    BY <1>1 DEF KnownNodesForked
  <2>2. i # NoId
    BY <1>1, MessageAssumption DEF ControlTypeOK, NodeIds, NoId
  <2> QED
    BY <2>1, <2>2
<1> QED
  BY <1>1 DEF KnownNodesForked

\* The control process takes an honest reply out of a queue.
LEMMA ControlReceivesInv ==
  ASSUME LinkInv, everKnown \subseteq everKnown', NEW q \in Pids, NEW c,
         ControlReceives(q, c)
  PROVE  /\ LinkInv'
         /\ Answer(q) \in HonestReplies
         /\ Answer(q).command = c
         /\ UNCHANGED nodeId
<1>1. HonestReplies' = HonestReplies
  BY DEF HonestReplies, CreatedNode, ControlReceives
<1>2. Answer(q) \in HonestReplies /\ up' \in [Pids -> Seq(HonestReplies)]
  BY PopType DEF LinkInv, ControlReceives, Readable, Answer
<1> QED
  BY <1>1, <1>2, LinkInvFromParts
  DEF ControlReceives, LinkInv, LinkTypeOK, BornHaveIds

LEMMA CreateAnsweredInv ==
  ASSUME LinkInv, ControlInv, NEW q \in Pids, CreateAnswered(q)
  PROVE  LinkInv' /\ ControlInv'
<1>1. /\ node_ids_' = node_ids_ \cup {Answer(q).id}
      /\ everKnown' = everKnown \cup {Answer(q).id}
      /\ ControlReceives(q, "Create")
  BY DEF CreateAnswered
<1>2. /\ LinkInv' /\ UNCHANGED nodeId
      /\ Answer(q) \in HonestReplies /\ Answer(q).command = "Create"
  BY <1>1, ControlReceivesInv
<1>3. Answer(q).id \in Ids /\ CreatedNode(Answer(q))
  BY <1>2 DEF HonestReplies, Reply
<1>4. KnownNodesForked'
  BY <1>1, <1>2, <1>3 DEF ControlInv, KnownNodesForked, CreatedNode
<1>5. /\ pending_messages_' \in Seq(KnownPending)
      /\ node_ids_ \subseteq node_ids_'
  BY <1>1, RemovePendingType DEF CreateAnswered, ControlInv, KnownPending
<1>6. pending_messages_' \in Seq(KnownPending') /\ pending_messages_' \in Seq(Pending)
  BY <1>5, PendingMonotone
<1>7. beat_tracker' \in [Ids -> Nat \cup {Untracked}]
  BY DEF CreateAnswered, ControlInv, ControlTypeOK
<1> QED
  BY <1>1, <1>2, <1>3, <1>4, <1>6, <1>7
  DEF CreateAnswered, ControlInv, ControlTypeOK, NodeIds, KnownPending

\* The other replies teach the controller no node.
LEMMA OtherAnswersInv ==
  ASSUME LinkInv, ControlInv, NEW q \in Pids,
         \/ PingAnswered(q) \/ AddAnswered(q) \/ FindAnswered(q)
         \/ BeatReceived(q)
  PROVE  LinkInv' /\ ControlInv'
<1>1. UNCHANGED <<node_ids_, everKnown>> /\ \E c : ControlReceives(q, c)
  BY DEF PingAnswered, AddAnswered, FindAnswered, BeatReceived
<1>2. /\ LinkInv' /\ UNCHANGED nodeId /\ Answer(q) \in Reply
  BY <1>1, ControlReceivesInv DEF HonestReplies
<1>3. pending_messages_' \in Seq(KnownPending)
  <2>1. pending_messages_ \in Seq(KnownPending)
    BY DEF ControlInv, KnownPending
  <2>2. CASE BeatReceived(q)
    BY <2>1, <2>2 DEF BeatReceived
  <2>3. CASE PingAnswered(q) \/ AddAnswered(q) \/ FindAnswered(q)
    BY <2>1, <2>3, RemovePendingType
    DEF PingAnswered, AddAnswered, FindAnswered
  <2> QED
    BY <2>2, <2>3
<1>4. pending_messages_' \in Seq(KnownPending') /\ pending_messages_' \in Seq(Pending)
  BY <1>1, <1>3, PendingMonotone
<1>5. acked' \in [Ids -> [Keys -> Nat]]
  <2>1. CASE AddAnswered(q)
    <3>1. Answer(q).command = "ExecAdd"
      BY <2>1 DEF AddAnswered, ControlReceives
    <3>2. Answer(q).add_data \in Nat
      BY <1>2, <3>1 DEF Reply
    <3> QED
      BY <2>1, <3>2 DEF AddAnswered, ControlInv, ControlTypeOK
  <2>2. CASE PingAnswered(q) \/ FindAnswered(q) \/ BeatReceived(q)
    <3>1. UNCHANGED acked
      BY <2>2 DEF PingAnswered, FindAnswered, BeatReceived
    <3> QED
      BY <3>1 DEF ControlInv, ControlTypeOK
  <2> QED
    BY <2>1, <2>2
<1>6. /\ beat_tracker' \in [Ids -> Nat \cup {Untracked}]
      /\ reported' \in SUBSET Ids
      /\ UNCHANGED <<heartbeat, creates, requests, restarts, asked>>
  <2>1. CASE BeatReceived(q)
    BY <2>1 DEF BeatReceived, ControlInv, ControlTypeOK
  <2>2. CASE PingAnswered(q) \/ AddAnswered(q) \/ FindAnswered(q)
    BY <2>2
    DEF PingAnswered, AddAnswered, FindAnswered, ControlInv, ControlTypeOK
  <2> QED
    BY <2>1, <2>2
<1> QED
  BY <1>1, <1>2, <1>4, <1>5, <1>6
  DEF ControlInv, ControlTypeOK, KnownNodesForked, KnownPending

LEMMA ChecksInv ==
  ASSUME ControlInv, UNCHANGED nodeId, CheckPending \/ CheckBeats
  PROVE  ControlInv'
<1>1. CASE CheckPending
  <2>1. PICK n \in DOMAIN pending_messages_ :
          pending_messages_' = SubSeq(pending_messages_, n + 1,
                                      Len(pending_messages_))
    BY <1>1 DEF CheckPending
  <2>2. pending_messages_' \in Seq(KnownPending)
    <3>1. pending_messages_ \in Seq(KnownPending)
      BY DEF ControlInv, KnownPending
    <3>2. n \in 0 .. Len(pending_messages_)
      BY <3>1, LenProperties
    <3> QED
      BY <2>1, <3>1, <3>2, CutType
  <2>3. UNCHANGED node_ids_
    BY <1>1 DEF CheckPending
  <2>4. /\ pending_messages_' \in Seq(KnownPending')
        /\ pending_messages_' \in Seq(Pending)
    BY <2>2, <2>3, PendingMonotone
  <2> QED
    BY <1>1, <2>3, <2>4
    DEF CheckPending, ControlInv, ControlTypeOK, KnownNodesForked, KnownPending
<1>2. CASE CheckBeats
  <2>1. OwnRequests' = OwnRequests
    BY <1>2 DEF CheckBeats, OwnRequests
  <2> QED
    BY <1>2, <2>1
    DEF CheckBeats, ControlInv, ControlTypeOK, KnownNodesForked
<1> QED
  BY <1>1, <1>2

LEMMA ControlStepInv ==
  ASSUME LinkInv, ControlInv, ControlStep
  PROVE  LinkInv' /\ ControlInv'
<1>1. ASSUME NEW q \in Pids,
             \/ CreateAnswered(q) \/ PingAnswered(q) \/ AddAnswered(q)
             \/ FindAnswered(q) \/ BeatReceived(q)
      PROVE  LinkInv' /\ ControlInv'
  BY <1>1, CreateAnsweredInv, OtherAnswersInv
<1>2. CASE CheckPending \/ CheckBeats
  <2>1. UNCHANGED <<linkVars, everKnown>>
    BY <1>2 DEF CheckPending, CheckBeats
  <2>2. KnownRequests' = KnownRequests /\ HonestReplies' = HonestReplies
    BY <2>1 DEF KnownRequests, HonestReplies, CreatedNode, linkVars
  <2> QED
    BY <1>2, <2>1, <2>2, ChecksInv
    DEF linkVars, LinkInv, LinkTypeOK, BornHaveIds
<1> QED
  BY <1>1, <1>2 DEF ControlStep

-----------------------------------------------------------------------------
(***************************************************************************)
(* The commands of the user.                                               *)
(***************************************************************************)

LEMMA SendToChildrenInv ==
  ASSUME LinkInv, UNCHANGED everKnown, NEW m \in KnownRequests,
         SendToChildren(m)
  PROVE  LinkInv' /\ UNCHANGED nodeId
<1>1. HonestReplies' = HonestReplies
  BY DEF HonestReplies, CreatedNode, SendToChildren
<1>2. PICK T : down' = Broadcast(T, m, down)
  BY DEF SendToChildren
<1>3. down' \in [Pids -> Seq(KnownRequests)]
  BY <1>2, BroadcastType DEF LinkInv
<1> QED
  BY <1>1, <1>3, LinkInvFromParts
  DEF SendToChildren, LinkInv, LinkTypeOK, BornHaveIds, DropsCopy

LEMMA BroadcastMessageInv ==
  ASSUME LinkInv, ControlInv, UNCHANGED <<node_ids_, everKnown>>,
         NEW m \in OwnRequests, BroadcastMessage(m)
  PROVE  /\ LinkInv'
         /\ UNCHANGED nodeId
         /\ KnownNodesForked'
         /\ pending_messages_' \in Seq(KnownPending')
         /\ pending_messages_' \in Seq(Pending)
<1>1. LinkInv' /\ UNCHANGED nodeId
  BY OwnIsKnown, SendToChildrenInv DEF BroadcastMessage
<1>2. [msg |-> m, age |-> 0] \in KnownPending
  BY DEF KnownPending
<1>3. pending_messages_' \in Seq(KnownPending)
  BY <1>2, AppendProperties DEF BroadcastMessage, ControlInv, KnownPending
<1> QED
  BY <1>1, <1>3, PendingMonotone DEF ControlInv, KnownNodesForked

LEMMA CreateCommandAtRootInv ==
  ASSUME LinkInv, ControlInv, NEW c \in Ids, status[Control] = "running",
         CreateCommandAtRoot(c)
  PROVE  /\ LinkInv'
         /\ KnownNodesForked'
         /\ \/ UNCHANGED <<node_ids_, everKnown>>
            \/ /\ node_ids_' = node_ids_ \cup {c}
               /\ everKnown' = everKnown \cup {c}
<1>1. Control \in Actors
  BY DEF Actors
<1>2. <<>> \in Seq(HonestReplies)
  BY EmptySeq
<1>3. CASE BindFails(Control, c, <<>>) /\ UNCHANGED <<node_ids_, everKnown>>
  <2>1. LinkInv'
    BY <1>1, <1>2, <1>3, BindFailsInv
  <2>2. CanFork /\ nodeId' = [nodeId EXCEPT ![FreshPid] = c]
    BY <1>3 DEF BindFails
  <2>3. PICK s \in {"running", "dead"} :
          status' = [status EXCEPT ![FreshPid] = s, ![Control] = "dead"]
    BY <1>3, NewProcessType DEF BindFails
  <2>4. \A p \in Pids : nodeId[p] # NoId => nodeId'[p] = nodeId[p]
    BY <1>1, <2>2, <2>3, ForkInv
  <2> QED
    BY <1>3, <2>1, <2>4, ForkedStaysForked DEF ControlInv
<1>4. CASE ForkFails(Control, <<>>) /\ UNCHANGED <<node_ids_, everKnown>>
  <2>1. LinkInv'
    BY <1>1, <1>2, <1>4, ForkFailsInv
  <2> QED
    BY <1>4, <2>1 DEF ForkFails, ControlInv, KnownNodesForked
<1>5. CASE /\ ForkAndBind(Control, c)
           /\ node_ids_' = node_ids_ \cup {c}
           /\ everKnown' = everKnown \cup {c}
           /\ UNCHANGED <<down, up, lost>>
  <2>1. /\ CanFork /\ nodeId' = [nodeId EXCEPT ![FreshPid] = c]
        /\ owner' = [owner EXCEPT ![c] = Control] /\ connected' = connected
    BY <1>5 DEF ForkAndBind
  <2>11. PICK s \in {"running", "dead"} : status' = [status EXCEPT ![FreshPid] = s]
    BY <1>5, NewProcessType DEF ForkAndBind
  <2>2. /\ nodeId' \in [Pids -> Ids \cup {NoId}]
        /\ status' \in [Actors -> {"unborn", "running", "dead"}]
        /\ BornHaveIds'
        /\ HonestReplies \subseteq HonestReplies'
        /\ nodeId'[FreshPid] = c
        /\ \A p \in Pids : nodeId[p] # NoId => nodeId'[p] = nodeId[p]
    BY <1>1, <2>1, <2>11, ForkInv
  <2>3. owner' \in [Ids -> Actors \cup {NoOwner}]
    BY <1>1, <2>1 DEF LinkInv, LinkTypeOK
  <2>4. LinkInv'
    BY <1>5, <2>1, <2>2, <2>3, LinkInvFromParts DEF LinkInv, LinkTypeOK
  <2>5. KnownNodesForked'
    <3>1. FreshPid \in Pids
      BY <2>1, FreshPidType
    <3>2. ASSUME NEW i \in node_ids_, i # Root
          PROVE  \E p \in Pids : nodeId'[p] = i
      <4>1. PICK p \in Pids : nodeId[p] = i
        BY <3>2 DEF ControlInv, KnownNodesForked
      <4>2. i # NoId
        BY <3>2, MessageAssumption DEF ControlInv, ControlTypeOK, NodeIds, NoId
      <4> QED
        BY <2>2, <4>1, <4>2
    <3> QED
      BY <1>5, <2>2, <3>1, <3>2 DEF KnownNodesForked
  <2> QED
    BY <1>5, <2>4, <2>5
<1> QED
  BY <1>3, <1>4, <1>5 DEF CreateCommandAtRoot

LEMMA CreateCommandInv ==
  ASSUME LinkInv, ControlInv, NEW c \in Ids, NEW parent \in NodeIds,
         CreateCommand(c, parent)
  PROVE  LinkInv' /\ ControlInv'
<1>1. /\ creates' \in Nat /\ asked' \in SUBSET Ids
      /\ UNCHANGED <<heartbeat, beat_tracker, requests, restarts, acked, reported>>
  BY DEF CreateCommand, ControlInv, ControlTypeOK
<1>2. CASE parent = Root
  <2>1. CreateCommandAtRoot(c) /\ UNCHANGED pending_messages_
    BY <1>2 DEF CreateCommand, CreateCommandAtRoot
  <2>2. /\ LinkInv' /\ KnownNodesForked'
        /\ \/ UNCHANGED <<node_ids_, everKnown>>
           \/ /\ node_ids_' = node_ids_ \cup {c}
              /\ everKnown' = everKnown \cup {c}
    BY <2>1, CreateCommandAtRootInv DEF CreateCommand
  <2>3. /\ pending_messages_ \in Seq(KnownPending')
        /\ pending_messages_ \in Seq(Pending)
    BY <2>2, PendingMonotone DEF ControlInv, KnownPending
  <2> QED
    BY <1>1, <2>1, <2>2, <2>3
    DEF ControlInv, ControlTypeOK, NodeIds, KnownPending
<1>3. CASE parent # Root
  <2>1. /\ BroadcastMessage(Msg("Create", parent, c)) /\ UNCHANGED <<node_ids_, everKnown>>
        /\ parent \in node_ids_
    BY <1>3 DEF CreateCommand
  <2>2. Msg("Create", parent, c) \in OwnRequests
    BY <2>1 DEF Msg, OwnRequests, Request
  <2> QED
    BY <1>1, <2>1, <2>2, BroadcastMessageInv
    DEF ControlInv, ControlTypeOK, KnownPending
<1> QED
  BY <1>2, <1>3

LEMMA SendRequestInv ==
  ASSUME LinkInv, ControlInv, NEW i, NEW m \in Request, m.id = i,
         SendRequest(i, m)
  PROVE  LinkInv' /\ ControlInv'
<1>1. m \in OwnRequests
  BY DEF SendRequest, OwnRequests
<1> QED
  BY <1>1, BroadcastMessageInv
  DEF SendRequest, ControlInv, ControlTypeOK, KnownPending

LEMMA HeartbeatCommandInv ==
  ASSUME LinkInv, ControlInv, NEW time \in Periods, HeartbeatCommand(time)
  PROVE  LinkInv' /\ ControlInv'
<1>1. Msg("HeartBeat", Root, time) \in KnownRequests
  BY DEF Msg, KnownRequests, Request, ControlInv
<1>2. LinkInv' /\ UNCHANGED <<nodeId, node_ids_, everKnown>>
  BY <1>1, SendToChildrenInv DEF HeartbeatCommand
<1>3. OwnRequests' = OwnRequests
  BY <1>2 DEF OwnRequests
<1>4. time \in Nat
  BY MessageAssumption
<1> QED
  BY <1>2, <1>3, <1>4
  DEF HeartbeatCommand, ControlInv, ControlTypeOK, KnownNodesForked

LEMMA UserCommandInv ==
  ASSUME LinkInv, ControlInv, UserCommand
  PROVE  LinkInv' /\ ControlInv'
<1>1. ASSUME NEW i \in NodeIds, NEW k \in Keys, ExecAddCommand(i, k)
      PROVE  LinkInv' /\ ControlInv'
  <2>1. MsgVal("ExecAdd", i, requests + 1, k) \in Request
    BY MessageAssumption DEF MsgVal, Request, ControlInv, ControlTypeOK
  <2> QED
    BY <1>1, <2>1, SendRequestInv DEF ExecAddCommand, MsgVal
<1>2. ASSUME NEW i \in NodeIds, NEW k \in Keys, ExecFindCommand(i, k)
      PROVE  LinkInv' /\ ControlInv'
  <2>1. MsgVal("ExecFnd", i, -1, k) \in Request
    BY MessageAssumption DEF MsgVal, Request
  <2> QED
    BY <1>2, <2>1, SendRequestInv DEF ExecFindCommand, MsgVal
<1>3. ASSUME NEW i \in NodeIds, PingCommand(i)
      PROVE  LinkInv' /\ ControlInv'
  <2>1. Msg("Ping", i, 0) \in Request
    BY DEF Msg, Request
  <2> QED
    BY <1>3, <2>1, SendRequestInv DEF PingCommand, Msg
<1> QED
  BY <1>1, <1>2, <1>3, CreateCommandInv, HeartbeatCommandInv DEF UserCommand

-----------------------------------------------------------------------------
\* A new control process knows Root only, and waits for nothing.
LEMMA ControlRestartInv ==
  ASSUME LinkInv, ControlInv, ControlRestart
  PROVE  LinkInv' /\ ControlInv'
<1>1. /\ UNCHANGED <<nodeId, owner, connected, down, up, lost, everKnown>>
      /\ status' = [status EXCEPT ![Control] = "running"]
  BY DEF ControlRestart
<1>2. Control \in Actors /\ Control \notin Pids
  BY LinkAssumption DEF Actors, Control
<1>3. /\ status' \in [Actors -> {"unborn", "running", "dead"}]
      /\ \A p \in Pids : status'[p] = status[p]
  BY <1>1, <1>2 DEF LinkInv, LinkTypeOK, Actors
<1>4. KnownRequests' = KnownRequests /\ HonestReplies' = HonestReplies
  BY <1>1 DEF KnownRequests, HonestReplies, CreatedNode
<1>5. LinkInv'
  BY <1>1, <1>3, <1>4 DEF LinkInv, LinkTypeOK, BornHaveIds
<1>6. \A S : <<>> \in Seq(S)
  BY EmptySeq
<1> QED
  BY <1>5, <1>6
  DEF ControlRestart, ControlInv, ControlTypeOK, KnownNodesForked, NodeIds,
      Untracked

\* Clocks only move ages.
LEMMA TickInv ==
  ASSUME Inv, Tick
  PROVE  Inv'
<1>1. UNCHANGED <<linkVars, node_ids_, everKnown>>
  BY DEF Tick
<1>2. /\ KnownRequests' = KnownRequests /\ OwnRequests' = OwnRequests
      /\ HonestReplies' = HonestReplies
  BY <1>1 DEF KnownRequests, OwnRequests, HonestReplies, CreatedNode, linkVars
<1>3. LinkInv'
  BY <1>1, <1>2 DEF Inv, linkVars, LinkInv, LinkTypeOK, BornHaveIds
<1>4. NodeTypeOK'
  BY DEF Inv, Tick, NodeTick, NodeTypeOK
<1>5. pending_messages_' \in Seq(KnownPending) /\ pending_messages_' \in Seq(Pending)
  <2>1. pending_messages_ \in Seq(KnownPending)
    BY DEF Inv, ControlInv, KnownPending
  <2>2. \A n \in 1 .. Len(pending_messages_) :
          pending_messages_[n] \in KnownPending
    BY <2>1, ElementOfSeq
  <2>3. /\ DOMAIN pending_messages_' = 1 .. Len(pending_messages_)
        /\ \A n \in 1 .. Len(pending_messages_) :
             pending_messages_'[n] \in KnownPending
    BY <2>1, <2>2, LenProperties DEF Tick, ControlTick, KnownPending
  <2>4. pending_messages_' \in [1 .. Len(pending_messages_) -> KnownPending]
    BY <2>3 DEF Tick, ControlTick
  <2>5. pending_messages_' \in Seq(KnownPending)
    BY <2>1, <2>4, LenProperties, SeqDef
  <2> QED
    BY <1>1, <2>5, PendingMonotone
<1>6. beat_tracker' \in [Ids -> Nat \cup {Untracked}]
  BY DEF Tick, ControlTick, Inv, ControlInv, ControlTypeOK, Untracked
<1>7. ControlInv'
  BY <1>1, <1>2, <1>5, <1>6
  DEF Tick, Inv, ControlInv, ControlTypeOK, KnownNodesForked, linkVars,
      KnownPending
<1> QED
  BY <1>3, <1>4, <1>7 DEF Inv, Tick

\* A step that leaves the control process alone leaves what it knows alone.
LEMMA ControlUntouched ==
  ASSUME LinkInv, ControlInv, UNCHANGED ctlVars,
         \A p \in Pids : nodeId[p] # NoId => nodeId'[p] = nodeId[p]
  PROVE  ControlInv'
<1>1. UNCHANGED node_ids_
  BY DEF ctlVars
<1>2. KnownNodesForked'
  BY <1>1, ForkedStaysForked DEF ControlInv
<1>3. OwnRequests' = OwnRequests
  BY <1>1 DEF OwnRequests
<1> QED
  BY <1>2, <1>3 DEF ControlInv, ControlTypeOK, ctlVars

\* No step of a computing process renames a process.
LEMMA NodeStepKeepsIds ==
  ASSUME LinkInv, NodeStep
  PROVE  \A p \in Pids : nodeId[p] # NoId => nodeId'[p] = nodeId[p]
<1>1. ASSUME NEW q \in Pids, NodeCreate(q)
      PROVE  \A p \in Pids : nodeId[p] # NoId => nodeId'[p] = nodeId[p]
  <2>1. \/ UNCHANGED nodeId
        \/ /\ CanFork
           /\ nodeId' = [nodeId EXCEPT ![FreshPid] = Incoming(q).add_data]
    BY <1>1 DEF NodeCreate, PassOn, ForkChild, ForkAndBind, BindFails, ForkFails
  <2>2. CanFork => nodeId[FreshPid] = NoId
    BY FreshPidType DEF LinkInv, BornHaveIds
  <2> QED
    BY <2>1, <2>2 DEF LinkInv, LinkTypeOK
<1>2. ASSUME NEW q \in Pids,
             \/ NodePing(q) \/ NodeHeartBeat(q) \/ NodeExecAdd(q)
             \/ NodeExecFind(q) \/ NodeBeat(q)
             \/ \E r \in Pids : NodeForward(q, r)
      PROVE  UNCHANGED nodeId
  BY <1>2 DEF NodePing, NodeHeartBeat, NodeExecAdd, NodeExecFind, NodeBeat,
              NodeForward, SendReply, PassOn
<1> QED
  BY <1>1, <1>2 DEF NodeStep

(***************************************************************************)
(* Every step preserves the invariant.                                     *)
(***************************************************************************)
THEOREM NextInv == Inv /\ [Next]_vars => Inv'
<1> SUFFICES ASSUME Inv, [Next]_vars PROVE Inv'
  OBVIOUS
<1> USE DEF Inv
<1>1. CASE NodeStep /\ UNCHANGED <<ctlVars, kills>>
  <2>1. UNCHANGED everKnown
    BY <1>1 DEF ctlVars
  <2> QED
    BY <1>1, <2>1, NodeStepInv, NodeStepKeepsIds, ControlUntouched
<1>2. CASE ControlStep /\ UNCHANGED <<nodeVars, kills>>
  BY <1>2, ControlStepInv DEF NodeTypeOK, nodeVars
<1>3. CASE UserCommand /\ UNCHANGED <<nodeVars, kills>>
  BY <1>3, UserCommandInv DEF NodeTypeOK, nodeVars
<1>4. CASE Connects
  <2>1. PICK p \in Pids : Connect(p) /\ UNCHANGED <<nodeVars, ctlVars, kills>>
    BY <1>4 DEF Connects
  <2>2. UNCHANGED <<everKnown, nodeId>>
    BY <2>1 DEF ctlVars, Connect
  <2> QED
    BY <2>1, <2>2, ConnectInv, ControlUntouched DEF NodeTypeOK, nodeVars
<1>5. CASE Kills
  <2>1. PICK a \in Actors : Kill(a)
    BY <1>5 DEF Kills
  <2>2. UNCHANGED <<nodeVars, ctlVars>> /\ kills' \in Nat
    BY <1>5 DEF Kills
  <2>3. UNCHANGED <<everKnown, nodeId>>
    BY <2>1, <2>2 DEF ctlVars, Kill
  <2> QED
    BY <2>1, <2>2, <2>3, KillInv, ControlUntouched DEF NodeTypeOK, nodeVars
<1>6. CASE Tick
  BY <1>6, TickInv
<1>7. CASE ControlRestart /\ UNCHANGED <<nodeVars, kills>>
  BY <1>7, ControlRestartInv DEF NodeTypeOK, nodeVars
<1>8. CASE UNCHANGED vars
  <2>1. UNCHANGED <<linkVars, nodeVars, ctlVars, kills>>
    BY <1>8 DEF vars
  <2>2. UNCHANGED <<everKnown, nodeId>>
    BY <2>1 DEF ctlVars, linkVars
  <2>3. KnownRequests' = KnownRequests /\ HonestReplies' = HonestReplies
    BY <2>2 DEF KnownRequests, HonestReplies, CreatedNode
  <2>4. LinkInv'
    BY <2>1, <2>3 DEF linkVars, LinkInv, LinkTypeOK, BornHaveIds
  <2> QED
    BY <2>1, <2>2, <2>4, ControlUntouched DEF NodeTypeOK, nodeVars
<1> QED
  BY <1>1, <1>2, <1>3, <1>4, <1>5, <1>6, <1>7, <1>8 DEF Next

THEOREM SpecInv == Spec => []Inv
BY InitInv, NextInv, PTL DEF Spec

\* In every state of every system, each variable has its type: among others,
\* no reply goes down and no request up, and no reply comes from Root.
THEOREM TypeCorrect == Spec => []TypeOK
BY SpecInv, InvImpliesTypeOK, PTL

\* However many nodes there are, whatever dies, times out or is lost, no
\* request is under way for a node that no control process has known, or
\* pending for one that the present control process does not know.
THEOREM RequestsCorrect == Spec => []RequestsAddressKnownNodes
BY SpecInv, InvImpliesRequestsAddressKnownNodes, PTL

\* Every "Ok: <pid>" names the process that runs the new node, and the
\* controller knows no node that was never forked.
THEOREM RepliesCorrect == Spec => []RepliesNameNodes
BY SpecInv, InvImpliesRepliesNameNodes, PTL
=============================================================================
