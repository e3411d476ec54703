-------------------------- MODULE ClusterWriteProofs --------------------------
(***************************************************************************)
(* Proofs about the requests of Lab5 and their answers: no write that was  *)
(* reported as done is lost, no find answers with an older value, and at   *)
(* the first control process no answer comes that no request waits for.    *)
(***************************************************************************)
EXTENDS ClusterTreeProofs

-----------------------------------------------------------------------------
(***************************************************************************)
(* Writes are numbered by the values they write, which grow.  A process    *)
(* has stored no value that is still to come, so that what it stores next  *)
(* is greater than what it stored before.                                  *)
(***************************************************************************)
Writes == [m \in Request |-> IF m.command = "ExecAdd" THEN m.add_data ELSE 0]

Positive == {m \in Request : m.command = "ExecAdd" => m.add_data > 0}

OlderThan(q, s, h) ==
  \A k \in Keys : dictionary[q][k] <= h /\ Above(s, Writes, dictionary[q][k])

WriteInv(H) ==
  /\ H \in [Pids -> Nat]
  /\ Flow(Writes, H, requests)
  /\ down \in [Pids -> Seq(Positive)]
  /\ \A q \in Pids : OlderThan(q, down[q], H[q])

WritesInOrder == \E H : WriteInv(H)

Grows == \A q \in Pids, k \in Keys : dictionary[q][k] <= dictionary'[q][k]

LEMMA WritesType ==
  /\ Writes \in [Request -> Nat]
  /\ \A m \in Request : m.command = "ExecAdd" =>
       m.add_data \in Nat /\ m.val \in Keys /\ Writes[m] = m.add_data
  /\ \A m \in Request : m.command # "ExecAdd" => Writes[m] = 0
<1>1. \A m \in Request : m.command = "ExecAdd" => m.add_data \in Nat /\ m.val \in Keys
  BY DEF Request
<1> QED
  BY <1>1 DEF Writes

LEMMA SameGrows ==
  ASSUME Inv, UNCHANGED dictionary
  PROVE  Grows
<1>1. \A q \in Pids, k \in Keys : dictionary[q][k] \in Int
  BY DEF Inv, NodeTypeOK, Absent
<1> QED
  BY <1>1 DEF Grows

\* What is stored stays older when the queue gets shorter or grows by a
\* later write.
LEMMA OlderPart ==
  ASSUME NEW q, NEW s \in Seq(Request), NEW h, OlderThan(q, s, h),
         NEW t, Part(t, s)
  PROVE  OlderThan(q, t, h)
BY FlowPart DEF OlderThan

LEMMA OlderAppend ==
  ASSUME Inv, NEW q \in Pids, NEW s \in Seq(Request), NEW h \in Nat,
         Rising(s, Writes, h), OlderThan(q, s, h),
         NEW m \in Request, Writes[m] > 0 => h < Writes[m], NEW g \in Nat, h <= g
  PROVE  OlderThan(q, Append(s, m), g)
<1>1. Writes \in [Request -> Nat]
  BY WritesType
<1>2. \A k \in Keys : dictionary[q][k] \in Int
  BY DEF Inv, NodeTypeOK, Absent
<1> SUFFICES ASSUME NEW k \in Keys
             PROVE  dictionary[q][k] <= g /\ Above(Append(s, m), Writes, dictionary[q][k])
  BY DEF OlderThan
<1>3. dictionary[q][k] <= h /\ Above(s, Writes, dictionary[q][k])
  BY DEF OlderThan
<1>4. Writes[m] > 0 => dictionary[q][k] < Writes[m]
  BY <1>1, <1>2, <1>3
<1>5. Above(Append(s, m), Writes, dictionary[q][k])
  BY <1>1, <1>3, <1>4, FlowAppend
<1> QED
  BY <1>2, <1>3, <1>5

\* p stores the value it was sent, or nothing.
Stores(p) ==
  \/ UNCHANGED dictionary
  \/ /\ Incoming(p).command = "ExecAdd"
     /\ dictionary' =
          [dictionary EXCEPT ![p][Incoming(p).val] = Incoming(p).add_data]

LEMMA NodeStores ==
  ASSUME LinkInv, NodeStep
  PROVE  \/ \E p \in Pids : \E T \in SUBSET ChildProcs(p) : Moves(p, T) /\ Stores(p)
         \/ \E p \in Pids : Creates(p) /\ UNCHANGED dictionary
         \/ UNCHANGED <<status, nodeId, owner, down, dictionary>>
<1>1. ASSUME NEW p \in Pids, NodeExecAdd(p)
      PROVE  \E T \in SUBSET ChildProcs(p) : Moves(p, T) /\ Stores(p)
  <2>1. /\ status[p] = "running" /\ down[p] # <<>>
        /\ PassOn(p) \/ SendReply(p, Incoming(p))
    BY <1>1 DEF NodeExecAdd, Receives
  <2>2. Stores(p)
    BY <1>1 DEF NodeExecAdd, Receives, Stores
  <2> QED
    BY <2>1, <2>2, PassOnMoves, ReplyMoves
<1>2. CASE ~ \E p \in Pids : NodeExecAdd(p)
  <2>1. UNCHANGED dictionary
    BY <1>2 DEF NodeStep, NodeCreate, NodePing, NodeHeartBeat, NodeExecFind,
                NodeForward, NodeBeat, nodeVars
  <2> QED
    BY <2>1, NodeShape DEF Stores
<1> QED
  BY <1>1, <1>2

\* A request is passed on or done.
LEMMA WriteMove ==
  ASSUME Inv, NEW H, WriteInv(H), NEW p \in Pids, NEW T \in SUBSET ChildProcs(p),
         Moves(p, T), Stores(p), UNCHANGED requests
  PROVE  WritesInOrder' /\ Grows
<1> DEFINE m == Incoming(p)
           x == Writes[m]
           Rest(q) == IF q = p THEN Tail(down[p]) ELSE down[q]
<1>1. PICK G : Raised(Writes, H, T, m, G)
  BY DEF Raised
<1>2. /\ LinkInv /\ Writes \in [Request -> Nat] /\ H \in [Pids -> Nat]
      /\ down[p] # <<>> /\ down' = Broadcast(T, m, Pop(p, down))
      /\ UNCHANGED <<nodeId, owner>>
  BY WritesType DEF Inv, WriteInv, Moves
<1>3. PICK top \in Nat : top = requests
  BY DEF Inv, ControlInv, ControlTypeOK
<1>4. /\ Flow(Writes, G, top)'
      /\ G \in [Pids -> Nat]
      /\ \A q \in Pids : H[q] <= G[q]
  BY <1>1, <1>2, <1>3, FlowMove DEF WriteInv
<1>5. \A q \in Pids : down[q] \in Seq(Request) /\ Rising(down[q], Writes, H[q])
  BY <1>2 DEF LinkInv, LinkTypeOK, WriteInv, Flow
<1>6. /\ m \in Request /\ m \in Positive /\ m = Head(down[p])
      /\ Pop(p, down) \in [Pids -> Seq(Positive)]
  <2>1. Head(down[p]) \in Positive /\ Pop(p, down) \in [Pids -> Seq(Positive)]
    BY <1>2, PopType DEF WriteInv
  <2> QED
    BY <2>1 DEF Positive, Incoming
<1>7. down' \in [Pids -> Seq(Positive)]
  BY <1>2, <1>6, BroadcastType
<1>8. /\ x \in Nat /\ x <= H[p] /\ Above(Tail(down[p]), Writes, x)
      /\ \A g : Above(down[p], Writes, g) /\ x > 0 => g < x
  BY <1>2, <1>5, <1>6, FlowTail
<1>9. \A q \in T : q \in Pids /\ (x > 0 => H[q] < x)
  BY <1>8 DEF WriteInv, Flow, ChildProcs
<1>10. \A q \in Pids : down'[q] = IF q \in T THEN Append(Rest(q), m) ELSE Rest(q)
  BY <1>2 DEF Broadcast, Pop, LinkInv, LinkTypeOK
<1>11. ASSUME NEW q \in Pids
       PROVE  OlderThan(q, down'[q], G[q])
  <2>1. /\ Rest(q) \in Seq(Request) /\ Rising(Rest(q), Writes, H[q])
        /\ OlderThan(q, Rest(q), H[q]) /\ H[q] \in Nat
    <3>1. H[q] \in Nat /\ OlderThan(q, down[q], H[q])
      BY DEF WriteInv
    <3>2. CASE q = p
      <4>1. Tail(down[p]) \in Seq(Request)
        BY <1>2, <1>5, HeadTailProperties
      <4>2. Rising(Tail(down[p]), Writes, H[p])
        BY <1>2, <1>5, FlowTail
      <4> QED
        BY <1>2, <1>5, <3>1, <3>2, <4>1, <4>2, PartKinds, OlderPart
    <3>3. CASE q # p
      BY <1>5, <3>1, <3>3
    <3> QED
      BY <3>2, <3>3
  <2>2. G[q] \in Nat /\ H[q] <= G[q]
    BY <1>4
  <2> HIDE DEF Rest, m
  <2>3. CASE q \in T
    <3>1. OlderThan(q, Append(Rest(q), m), G[q])
      BY <1>6, <1>9, <2>1, <2>2, <2>3, OlderAppend
    <3> QED
      BY <1>10, <2>3, <3>1
  <2>4. CASE q \notin T
    <3>1. \A k \in Keys : dictionary[q][k] \in Int
      BY DEF Inv, NodeTypeOK, Absent
    <3>2. OlderThan(q, Rest(q), G[q])
      BY <2>1, <2>2, <3>1 DEF OlderThan
    <3> QED
      BY <1>10, <2>4, <3>2
  <2> QED
    BY <2>3, <2>4
<1> HIDE DEF m, Rest
<1>12. CASE UNCHANGED dictionary
  <2>1. \A q \in Pids : OlderThan(q, down[q], G[q])'
    BY <1>11, <1>12 DEF OlderThan, Above
  <2> QED
    BY <1>3, <1>4, <1>7, <1>12, <2>1, SameGrows
    DEF WritesInOrder, WriteInv, Flow, Positive
<1>13. CASE /\ m.command = "ExecAdd"
            /\ dictionary' = [dictionary EXCEPT ![p][m.val] = m.add_data]
  <2>1. m.val \in Keys /\ m.add_data = x /\ x > 0
    BY <1>6, <1>13, WritesType DEF Positive
  <2>2. p \notin T /\ down'[p] = Tail(down[p])
    BY <1>2, <1>8, <1>9, <1>10, <2>1 DEF Rest
  <2>3. \A q \in Pids, k \in Keys :
          dictionary'[q][k] = IF q = p /\ k = m.val THEN x ELSE dictionary[q][k]
    BY <1>13, <2>1 DEF Inv, NodeTypeOK
  <2> HIDE DEF x
  <2>4. ASSUME NEW q \in Pids, NEW k \in Keys
        PROVE  /\ dictionary[q][k] <= dictionary'[q][k]
               /\ dictionary'[q][k] <= G[q]
               /\ Above(down'[q], Writes, dictionary'[q][k])
    <3>0. dictionary[q][k] \in Int /\ H[q] \in Nat /\ G[q] \in Nat /\ H[q] <= G[q]
      BY <1>2, <1>4 DEF Inv, NodeTypeOK, Absent
    <3>1. CASE q = p /\ k = m.val
      <4>1. dictionary[p][k] < x
        BY <1>8, <2>1 DEF WriteInv, OlderThan
      <4> QED
        BY <1>8, <2>2, <2>3, <3>0, <3>1, <4>1
    <3>2. CASE ~ (q = p /\ k = m.val)
      BY <1>11, <2>3, <3>0, <3>2 DEF OlderThan
    <3> QED
      BY <3>1, <3>2
  <2>5. \A q \in Pids : OlderThan(q, down[q], G[q])'
    BY <2>4 DEF OlderThan, Above
  <2>6. WriteInv(G)'
    BY <1>3, <1>4, <1>7, <2>5 DEF WriteInv, Flow, Positive
  <2> QED
    BY <2>4, <2>6 DEF WritesInOrder, Grows
<1> QED
  BY <1>12, <1>13 DEF Stores, m

LEMMA OlderShrunk ==
  ASSUME Inv, NEW H, WriteInv(H), QueuesShrink
  PROVE  \A q \in Pids : OlderThan(q, down'[q], H[q])
<1>1. \A q \in Pids : /\ down[q] \in Seq(Request) /\ Part(down'[q], down[q])
                      /\ OlderThan(q, down[q], H[q])
  BY DEF Inv, LinkInv, LinkTypeOK, QueuesShrink, WriteInv
<1> QED
  BY <1>1, OlderPart

\* Nothing is stored, and queues are lost or not.
LEMMA WriteShrink ==
  ASSUME Inv, NEW H, WriteInv(H), LosesOnly, UNCHANGED dictionary,
         requests' \in {requests, requests + 1}
  PROVE  WritesInOrder' /\ Grows
<1>1. PICK top \in Nat : top = requests
  BY DEF Inv, ControlInv, ControlTypeOK
<1>2. PICK new \in Nat : new = requests' /\ top <= new
  BY <1>1
<1>3. Flow(Writes, H, top) /\ H \in [Pids -> Nat]
  BY <1>1 DEF WriteInv
<1>4. Flow(Writes, H, new)'
  <2>1. PICK num : num = Writes
    OBVIOUS
  <2>2. Flow(num, H, new)'
    BY <1>2, <1>3, <2>1, FlowShrink DEF LosesOnly, Inv
  <2> QED
    BY <2>1, <2>2
<1>5. down' \in [Pids -> Seq(Positive)]
  BY ShrinkType DEF WriteInv, LosesOnly
<1>6. \A q \in Pids : OlderThan(q, down[q], H[q])'
  <2>1. \A q \in Pids : OlderThan(q, down'[q], H[q])
    BY OlderShrunk DEF LosesOnly
  <2> QED
    BY <2>1 DEF OlderThan, Above
<1> QED
  BY <1>2, <1>3, <1>4, <1>5, <1>6, SameGrows
  DEF WritesInOrder, WriteInv, Flow, Positive

\* A node is created that nobody ran before.
LEMMA WriteBirth ==
  ASSUME Inv, NEW H, WriteInv(H), UNCHANGED <<dictionary, requests>>,
         NEW a \in Actors, NEW i \in Ids, Births(a, i),
         \A p \in Pids : nodeId[p] # i
  PROVE  WritesInOrder' /\ Grows
<1>1. PICK top \in Nat : top = requests
  BY DEF Inv, ControlInv, ControlTypeOK
<1>2. /\ Flow(Writes, H, top) /\ H \in [Pids -> Nat]
      /\ LinkInv /\ Writes \in [Request -> Nat]
  BY <1>1, WritesType DEF WriteInv, Inv
<1>3. Flow(Writes, H, top)'
  <2>1. PICK num : num = Writes
    OBVIOUS
  <2>2. /\ num \in [Request -> Nat] /\ Flow(num, H, top) /\ H \in [Pids -> Nat]
        /\ LinkInv /\ top <= top
    BY <1>1, <1>2, <2>1
  <2>3. Flow(num, H, top)'
    BY <2>2, FlowBirth
  <2> QED
    BY <2>1, <2>3
<1>4. down' \in [Pids -> Seq(Positive)]
  BY ShrinkType DEF WriteInv, Births
<1>5. \A q \in Pids : OlderThan(q, down'[q], H[q])
  BY OlderShrunk DEF Births
<1>6. \A q \in Pids : OlderThan(q, down[q], H[q])'
  BY <1>5 DEF OlderThan, Above
<1> QED
  BY <1>1, <1>2, <1>3, <1>4, <1>6, SameGrows
  DEF WritesInOrder, WriteInv, Flow, Positive

\* The control process sends a request: a write is the greatest so far.
LEMMA WriteSend ==
  ASSUME Inv, NEW H, WriteInv(H), UNCHANGED <<nodeId, owner, dictionary>>,
         NEW m \in Request, NEW T \in SUBSET ChildProcs(Control),
         down' = Broadcast(T, m, down),
         requests' \in {requests, requests + 1},
         m.command = "ExecAdd" =>
           m.add_data = requests + 1 /\ requests' = requests + 1
  PROVE  WritesInOrder' /\ Grows
<1>1. PICK G : Raised(Writes, H, T, m, G)
  BY DEF Raised
<1>2. PICK top \in Nat : top = requests
  BY DEF Inv, ControlInv, ControlTypeOK
<1>3. PICK new \in {top, top + 1} : new = requests'
  BY <1>2
<1>4. /\ Flow(Writes, H, top) /\ H \in [Pids -> Nat]
      /\ LinkInv /\ Writes \in [Request -> Nat]
  BY <1>2, WritesType DEF WriteInv, Inv
<1>5. Writes[m] > 0 => Writes[m] = new /\ new = top + 1
  BY <1>2, <1>3, WritesType
<1>6. /\ Flow(Writes, G, new)'
      /\ G \in [Pids -> Nat]
      /\ \A q \in Pids : H[q] <= G[q]
  BY <1>1, <1>4, <1>5, FlowSend
<1>7. down' \in [Pids -> Seq(Positive)]
  <2>1. m \in Positive
    BY <1>2 DEF Positive
  <2> QED
    BY <2>1, BroadcastType DEF WriteInv
<1>8. ASSUME NEW q \in Pids
      PROVE  OlderThan(q, down'[q], G[q])
  <2>1. /\ OlderThan(q, down[q], H[q]) /\ H[q] \in Nat /\ G[q] \in Nat
        /\ H[q] <= G[q]
        /\ down[q] \in Seq(Request) /\ Rising(down[q], Writes, H[q])
    BY <1>4, <1>6 DEF WriteInv, Flow, LinkInv, LinkTypeOK
  <2>2. down'[q] = IF q \in T THEN Append(down[q], m) ELSE down[q]
    BY DEF Broadcast
  <2>3. CASE q \in T
    <3>1. H[q] <= top
      BY <1>4, <2>3 DEF Flow
    <3>2. Writes[m] > 0 => H[q] < Writes[m]
      BY <1>5, <2>1, <3>1
    <3>3. OlderThan(q, Append(down[q], m), G[q])
      BY <2>1, <3>2, OlderAppend
    <3> QED
      BY <2>2, <2>3, <3>3
  <2>4. CASE q \notin T
    <3>1. \A k \in Keys : dictionary[q][k] \in Int
      BY DEF Inv, NodeTypeOK, Absent
    <3> QED
      BY <2>1, <2>2, <2>4, <3>1 DEF OlderThan
  <2> QED
    BY <2>3, <2>4
<1>9. \A q \in Pids : OlderThan(q, down[q], G[q])'
  BY <1>8 DEF OlderThan, Above
<1> QED
  BY <1>3, <1>6, <1>7, <1>9, SameGrows
  DEF WritesInOrder, WriteInv, Flow, Positive

\* A create command touches no value.
LEMMA CreateCommandWrites ==
  ASSUME Inv, Careful, AskedOnce, NEW H, WriteInv(H), NEW c \in Ids,
         NEW parent \in NodeIds, CreateCommand(c, parent), UNCHANGED dictionary
  PROVE  WritesInOrder' /\ Grows
<1>1. PICK R, P, N : OnceInv(R, P, N)
  BY DEF AskedOnce
<1>2. c \notin asked /\ UNCHANGED requests
  BY DEF CreateCommand
<1>3. ~ Used(c)
  BY <1>1, <1>2, UnaskedUnused
<1>4. CASE parent # Root
  <2> DEFINE m == Msg("Create", parent, c)
  <2>1. SendToChildren(m)
    BY <1>4 DEF CreateCommand, BroadcastMessage
  <2>2. PICK T : IsBroadcast(Control, T) /\ down' = Broadcast(T, m, down)
    BY <2>1 DEF SendToChildren
  <2>3. T \in SUBSET ChildProcs(Control) /\ UNCHANGED <<nodeId, owner>>
    BY <2>1, <2>2, CopiesToChildren DEF SendToChildren
  <2>4. m \in Request /\ m.command = "Create"
    BY DEF Msg, Request
  <2> HIDE DEF m
  <2> QED
    BY <1>2, <2>2, <2>3, <2>4, WriteSend
<1>5. CASE parent = Root
  <2>1. Births(Control, c) \/ LosesOnly
    BY <1>5, RootShape DEF CreateCommand, CreateCommandAtRoot, Inv, LinkInv
  <2>2. Control \in Actors /\ \A p \in Pids : nodeId[p] # c
    BY <1>3 DEF Actors, Used
  <2> QED
    BY <1>2, <2>1, <2>2, WriteBirth, WriteShrink
<1> QED
  BY <1>4, <1>5

\* A computing process that creates a node touches no value.
LEMMA CreatesWrites ==
  ASSUME Inv, AskedOnce, NEW H, WriteInv(H), NEW p \in Pids, Creates(p),
         UNCHANGED <<dictionary, requests>>
  PROVE  WritesInOrder' /\ Grows
<1> DEFINE i == Incoming(p).add_data
<1>1. PICK R, P, N : OnceInv(R, P, N)
  BY DEF AskedOnce
<1>2. i \in Ids /\ ~ Used(i)
  BY <1>1, CreatesNew
<1>3. Births(p, i) \/ LosesOnly
  BY <1>2, CreatesShape DEF Inv, LinkInv
<1>4. p \in Actors /\ \A q \in Pids : nodeId[q] # i
  BY <1>2 DEF Actors, Used
<1> QED
  BY <1>2, <1>3, <1>4, WriteBirth, WriteShrink

LEMMA WriteStep ==
  ASSUME Inv, Careful, AskedOnce, WritesInOrder, [Next]_vars
  PROVE  WritesInOrder' /\ Grows
<1>1. PICK H : WriteInv(H)
  BY DEF WritesInOrder
<1>2. CASE NodeStep /\ UNCHANGED <<ctlVars, kills>>
  <2>1. CASE \E p \in Pids : \E T \in SUBSET ChildProcs(p) : Moves(p, T) /\ Stores(p)
    BY <1>1, <1>2, <2>1, WriteMove DEF ctlVars
  <2>2. CASE \E p \in Pids : Creates(p) /\ UNCHANGED dictionary
    BY <1>1, <1>2, <2>2, CreatesWrites DEF ctlVars
  <2>3. CASE UNCHANGED <<status, nodeId, owner, down, dictionary>>
    <3>1. LosesOnly
      BY <2>3, NothingShrinks DEF LosesOnly, Inv, LinkInv
    <3> QED
      BY <1>1, <1>2, <2>3, <3>1, WriteShrink DEF ctlVars
  <2> QED
    BY <1>2, <2>1, <2>2, <2>3, NodeStores DEF Inv
<1>3. CASE UserCommand /\ UNCHANGED <<nodeVars, kills>>
  <2>1. CASE \E c \in Ids, parent \in NodeIds : CreateCommand(c, parent)
    BY <1>1, <1>3, <2>1, CreateCommandWrites DEF nodeVars
  <2>2. CASE ~ \E c \in Ids, parent \in NodeIds : CreateCommand(c, parent)
    <3>1. PICK m \in Request : OtherRequest(m)
      BY <1>3, <2>2, OtherCommandSends
    <3>2. SendToChildren(m) /\ UNCHANGED <<nodeId, owner, dictionary>>
      BY <1>3, <3>1 DEF OtherRequest, SendToChildren, nodeVars
    <3>3. PICK T : IsBroadcast(Control, T) /\ down' = Broadcast(T, m, down)
      BY <3>2 DEF SendToChildren
    <3>4. T \in SUBSET ChildProcs(Control)
      BY <3>3, CopiesToChildren
    <3> QED
      BY <1>1, <3>1, <3>2, <3>3, <3>4, WriteSend DEF OtherRequest
  <2> QED
    BY <2>1, <2>2
<1>4. CASE Others
  BY <1>1, <1>4, OthersShrink, WriteShrink
<1> QED
  BY <1>2, <1>3, <1>4 DEF Next, Others

LEMMA WriteInit == Init => WritesInOrder
<1> SUFFICES ASSUME Init
             PROVE  WriteInv([p \in Pids |-> 0])
  BY DEF WritesInOrder
<1>1. /\ \A p \in Pids : nodeId[p] = NoId /\ down[p] = <<>>
      /\ \A p \in Pids, k \in Keys : dictionary[p][k] = -1
      /\ requests = 0 /\ down \in [Pids -> Seq(Positive)]
  BY EmptySeq DEF Init, LinkInit, NodeInit, ControlInit, Absent
<1>2. \A a \in Actors : ChildProcs(a) = {}
  BY <1>1, MessageAssumption DEF ChildProcs, Children, NoId
<1>3. Flow(Writes, [p \in Pids |-> 0], requests)
  BY <1>1, <1>2 DEF Flow, Rising, Actors
<1>4. \A q \in Pids : OlderThan(q, down[q], 0)
  BY <1>1 DEF OlderThan, Above
<1> QED
  BY <1>1, <1>3, <1>4 DEF WriteInv

-----------------------------------------------------------------------------
(***************************************************************************)
(* What was reported as stored is stored, and was stored when the answer   *)
(* began to travel.                                                        *)
(***************************************************************************)
StoredBy(p, m) == nodeId[p] = m.id /\ m.add_data <= dictionary[p][m.val]

Done == {m \in Reply : m.command = "ExecAdd" => \E p \in Pids : StoredBy(p, m)}

AckedInv ==
  /\ up \in [Pids -> Seq(Done)]
  /\ \A i \in Ids, k \in Keys : acked[i][k] # NoWrite =>
       \E p \in Pids : nodeId[p] = i /\ acked[i][k] <= dictionary[p][k]

IdsKept == \A p \in Pids : nodeId[p] # NoId => nodeId'[p] = nodeId[p]

LEMMA NextKeepsIds ==
  ASSUME Inv, [Next]_vars
  PROVE  IdsKept
<1>1. CASE UNCHANGED nodeId
  BY <1>1 DEF IdsKept
<1>2. CASE NodeStep
  BY <1>2, NodeStepKeepsIds DEF Inv, IdsKept
<1>3. CASE UserCommand
  <2>1. ASSUME NEW c \in Ids, NEW parent \in NodeIds, CreateCommand(c, parent)
        PROVE  IdsKept
    <3>1. \/ UNCHANGED nodeId
          \/ CanFork /\ nodeId' = [nodeId EXCEPT ![FreshPid] = c]
      BY <2>1 DEF CreateCommand, CreateCommandAtRoot, ForkAndBind, BindFails,
                  ForkFails, BroadcastMessage, SendToChildren
    <3>2. CanFork => nodeId[FreshPid] = NoId
      BY FreshPidType DEF Inv, LinkInv, BornHaveIds
    <3> QED
      BY <3>1, <3>2 DEF Inv, LinkInv, LinkTypeOK, IdsKept
  <2> QED
    BY <1>1, <1>3, <2>1, OtherCommandSends DEF OtherRequest, SendToChildren
<1>4. CASE Others
  BY <1>1, <1>4, OthersShrink DEF LosesOnly
<1> QED
  BY <1>2, <1>3, <1>4 DEF Next, Others

\* What is stored stays stored, or is replaced by something later.
LEMMA DoneKept ==
  ASSUME Inv, Inv', IdsKept, Grows
  PROVE  Done \subseteq Done'
<1>1. ASSUME NEW m \in Done, m.command = "ExecAdd"
      PROVE  m \in Done'
  <2>1. m \in Reply /\ m.id \in Ids /\ m.val \in Keys /\ m.add_data \in Nat
    BY <1>1 DEF Done, Reply
  <2>2. PICK p \in Pids : StoredBy(p, m)
    BY <1>1 DEF Done
  <2>3. nodeId'[p] = m.id
    BY <2>1, <2>2, MessageAssumption DEF StoredBy, IdsKept, NoId
  <2>4. /\ dictionary[p][m.val] \in Int /\ dictionary'[p][m.val] \in Int
        /\ dictionary[p][m.val] <= dictionary'[p][m.val]
    BY <2>1 DEF Inv, NodeTypeOK, Absent, Grows
  <2>5. StoredBy(p, m)'
    BY <2>1, <2>2, <2>3, <2>4 DEF StoredBy
  <2> QED
    BY <2>1, <2>5 DEF Done
<1> QED
  BY <1>1 DEF Done

\* What a computing process sends up is a write it has done, or no write.
LEMMA NodeStepUp ==
  ASSUME Inv, NEW S, up \in [Pids -> Seq(S)], NodeStep,
         \A m \in Reply : m.command # "ExecAdd" => m \in S,
         \A p \in Pids : NodeExecAdd(p) /\ ForMe(p) => Incoming(p) \in S
  PROVE  up' \in [Pids -> Seq(S)]
<1>1. ASSUME NEW p \in Pids, NEW m \in S, SendReply(p, m)
      PROVE  up' \in [Pids -> Seq(S)]
  BY <1>1, SendType DEF SendReply
<1>2. ASSUME NEW p \in Pids, PassOn(p)
      PROVE  up' \in [Pids -> Seq(S)]
  BY <1>2 DEF PassOn
<1>3. ASSUME NEW p \in Pids, NEW i,
             BindFails(p, i, up[p]) \/ ForkFails(p, up[p])
      PROVE  up' \in [Pids -> Seq(S)]
  BY <1>3, EmptySeq DEF BindFails, ForkFails, CloseSockets
<1>4. ASSUME NEW p \in Pids, NodeCreate(p)
      PROVE  up' \in [Pids -> Seq(S)]
  <2>1. Incoming(p).add_data \in Ids
    BY <1>4, IncomingFacts DEF NodeCreate, Receives, Inv, Request
  <2>2. CASE ForkChild(p, Incoming(p).add_data)
    <3> DEFINE m == Msg("Create", Incoming(p).add_data, FreshPid)
    <3>1. FreshPid \in Nat
      BY <2>2, FreshPidType, LinkAssumption DEF ForkChild, ForkAndBind
    <3>2. m \in Reply /\ m.command # "ExecAdd"
      BY <2>1, <3>1 DEF Msg, Reply
    <3>3. m \in S /\ up' = Send(p, m, up)
      BY <2>2, <3>2 DEF ForkChild
    <3> QED
      BY <3>3, SendType
  <2> QED
    BY <1>2, <1>3, <1>4, <2>2 DEF NodeCreate
<1>5. ASSUME NEW p \in Pids, NodePing(p)
      PROVE  up' \in [Pids -> Seq(S)]
  <2>1. /\ status[p] = "running" /\ down[p] # <<>> /\ Incoming(p).command = "Ping"
        /\ Incoming(p) \in Request /\ nodeId[p] \in Ids
    BY <1>5, IncomingFacts DEF NodePing, Receives, Inv
  <2>2. ForMe(p) => Incoming(p) \in Reply
    BY <2>1, EchoHonest DEF ForMe, HonestReplies
  <2> QED
    BY <1>1, <1>2, <1>5, <2>1, <2>2 DEF NodePing
<1>6. ASSUME NEW p \in Pids, NodeExecFind(p)
      PROVE  up' \in [Pids -> Seq(S)]
  <2> DEFINE k == Incoming(p).val
  <2>1. k \in Keys /\ nodeId[p] \in Ids
    BY <1>6, IncomingFacts DEF NodeExecFind, Receives, Inv, Request
  <2>2. Stored[k] \in Keys /\ dictionary[p][k] \in Nat \cup {Absent}
    BY <2>1, MessageAssumption DEF Inv, NodeTypeOK
  <2>3. FindReply(p, k) \in Reply /\ FindReply(p, k).command # "ExecAdd"
    BY <2>1, <2>2 DEF FindReply, MsgVal, Reply
  <2> QED
    BY <1>1, <1>2, <1>6, <2>3 DEF NodeExecFind
<1>7. ASSUME NEW p \in Pids, NodeExecAdd(p)
      PROVE  up' \in [Pids -> Seq(S)]
  BY <1>1, <1>2, <1>7 DEF NodeExecAdd
<1>8. ASSUME NEW p \in Pids, NodeHeartBeat(p)
      PROVE  up' \in [Pids -> Seq(S)]
  BY <1>2, <1>8 DEF NodeHeartBeat
<1>9. ASSUME NEW p \in Pids, NodeBeat(p)
      PROVE  up' \in [Pids -> Seq(S)]
  <2>1. nodeId[p] \in Ids
    BY <1>9 DEF NodeBeat, Inv, LinkInv, LinkTypeOK, BornHaveIds
  <2>2. /\ Msg("HeartBeat", nodeId[p], -1) \in Reply
        /\ Msg("HeartBeat", nodeId[p], -1).command # "ExecAdd"
    BY <2>1 DEF Msg, Reply
  <2> QED
    BY <1>9, <2>2, SendType DEF NodeBeat
<1>10. ASSUME NEW p \in Pids, NEW q \in Pids, NodeForward(p, q)
       PROVE  up' \in [Pids -> Seq(S)]
  BY <1>10, PopType, SendType DEF NodeForward, Readable
<1> QED
  BY <1>4, <1>5, <1>6, <1>7, <1>8, <1>9, <1>10 DEF NodeStep

\* Nobody else sends anything up.
LEMMA OtherUp ==
  ASSUME LinkTypeOK, NEW S, up \in [Pids -> Seq(S)], UserCommand \/ Others
  PROVE  up' \in [Pids -> Seq(S)]
<1>1. ASSUME NEW a \in Actors, NEW kept \in Seq(S), Closes(a, kept)
      PROVE  up' \in [Pids -> Seq(S)]
  BY <1>1, EmptySeq DEF Closes, CloseSockets
<1>2. CASE UserCommand
  <2>1. <<>> \in Seq(S) /\ Control \in Actors
    BY EmptySeq DEF Actors
  <2>2. UNCHANGED up \/ Closes(Control, <<>>)
    BY <1>2, ThrowCloses
    DEF UserCommand, CreateCommand, CreateCommandAtRoot, ExecAddCommand,
        ExecFindCommand, PingCommand, HeartbeatCommand, SendRequest,
        BroadcastMessage, SendToChildren
  <2> QED
    BY <1>1, <2>1, <2>2
<1>3. CASE Kills
  <2>1. PICK a \in Actors : Kill(a)
    BY <1>3 DEF Kills
  <2>2. PICK k \in 0 .. Len(SentUp(a)) : Closes(a, SubSeq(SentUp(a), 1, k))
    BY <2>1, KillCloses
  <2>3. SentUp(a) \in Seq(S)
    BY EmptySeq DEF SentUp, Actors
  <2> QED
    BY <1>1, <2>2, <2>3, CutType
<1>4. CASE Connects
  <2>1. PICK p \in Pids : Connect(p)
    BY <1>4 DEF Connects
  <2>2. PICK k \in 0 .. Len(up[p]) :
          up' = [up EXCEPT ![p] = SubSeq(@, k + 1, Len(@))]
    BY <2>1 DEF Connect
  <2>3. SubSeq(up[p], k + 1, Len(up[p])) \in Seq(S)
    BY CutType
  <2> QED
    BY <2>2, <2>3
<1>5. CASE ControlStep
  <2>1. \/ UNCHANGED up
        \/ \E q \in Pids : Readable(q) /\ up' = Pop(q, up)
    BY <1>5 DEF ControlStep, CreateAnswered, PingAnswered, AddAnswered,
                FindAnswered, BeatReceived, ControlReceives, CheckPending,
                CheckBeats, linkVars
  <2> QED
    BY <2>1, PopType DEF Readable
<1>6. CASE ControlRestart \/ Tick \/ UNCHANGED vars
  BY <1>6 DEF ControlRestart, Tick, vars, linkVars
<1> QED
  BY <1>2, <1>3, <1>4, <1>5, <1>6 DEF Others

\* The answer to a write arrives; no other step acknowledges one.
LEMMA AckedStep ==
  ASSUME Inv, Inv', AckedInv, IdsKept, Grows, [Next]_vars
  PROVE  AckedInv'
<1>1. PICK S : S = Done'
  OBVIOUS
<1>2. /\ Done \subseteq S
      /\ up \in [Pids -> Seq(S)]
  BY <1>1, DoneKept, QueueMonotone DEF AckedInv
<1>3. ASSUME NodeStep
      PROVE  up' \in [Pids -> Seq(S)]
  <2>1. \A m \in Reply : m.command # "ExecAdd" => m \in S
    BY <1>1 DEF Done
  <2>2. ASSUME NEW p \in Pids, NodeExecAdd(p), ForMe(p)
        PROVE  Incoming(p) \in S
    <3> DEFINE m == Incoming(p)
    <3>1. /\ status[p] = "running" /\ down[p] # <<>> /\ m.command = "ExecAdd"
          /\ dictionary' = [dictionary EXCEPT ![p][m.val] = m.add_data]
          /\ m.id = nodeId[p]
      BY <2>2 DEF NodeExecAdd, Receives, ForMe
    <3>2. m \in Request /\ nodeId[p] \in Ids
      BY <3>1, IncomingFacts DEF Inv
    <3>3. m \in Reply /\ m.val \in Keys /\ m.add_data \in Nat
      BY <3>1, <3>2, EchoHonest DEF HonestReplies, Request
    <3>4. dictionary'[p][m.val] = m.add_data
      BY <3>1, <3>3 DEF Inv, NodeTypeOK
    <3>5. nodeId'[p] = m.id
      BY <3>1, <3>2, MessageAssumption DEF IdsKept, NoId
    <3>6. \E q \in Pids : nodeId'[q] = m.id /\ m.add_data <= dictionary'[q][m.val]
      BY <3>3, <3>4, <3>5
    <3> QED
      BY <1>1, <3>3, <3>6 DEF Done, StoredBy
  <2> QED
    BY <1>2, <1>3, <2>1, <2>2, NodeStepUp
<1>4. up' \in [Pids -> Seq(S)]
  BY <1>2, <1>3, OtherUp DEF Next, Others, Inv, LinkInv
<1>5. ASSUME NEW i \in Ids, NEW k \in Keys, NEW v \in Nat, NEW p \in Pids,
             nodeId[p] = i, v <= dictionary[p][k]
      PROVE  nodeId'[p] = i /\ v <= dictionary'[p][k]
  <2>1. nodeId'[p] = i
    BY <1>5, MessageAssumption DEF IdsKept, NoId
  <2>2. /\ dictionary[p][k] \in Int /\ dictionary'[p][k] \in Int
        /\ dictionary[p][k] <= dictionary'[p][k]
    BY DEF Inv, NodeTypeOK, Absent, Grows
  <2> QED
    BY <1>5, <2>1, <2>2
<1>6. ASSUME NEW i \in Ids, NEW k \in Keys, acked'[i][k] # NoWrite
      PROVE  \E p \in Pids : nodeId'[p] = i /\ acked'[i][k] <= dictionary'[p][k]
  <2>1. acked[i][k] \in Nat
    BY DEF Inv, ControlInv, ControlTypeOK
  <2>2. CASE acked'[i][k] = acked[i][k]
    <3>1. PICK p \in Pids : nodeId[p] = i /\ acked[i][k] <= dictionary[p][k]
      BY <1>6, <2>2 DEF AckedInv
    <3> QED
      BY <1>5, <2>1, <2>2, <3>1
  <2>3. ASSUME NEW q \in Pids, AddAnswered(q), acked'[i][k] # acked[i][k]
        PROVE  \E p \in Pids : nodeId'[p] = i /\ acked'[i][k] <= dictionary'[p][k]
    <3> DEFINE m == Answer(q)
    <3>1. up[q] # <<>> /\ m.command = "ExecAdd"
      BY <2>3 DEF AddAnswered, ControlReceives, Readable
    <3>2. m \in Done
      BY <3>1, PopType DEF AckedInv, Answer
    <3>3. m.id \in Ids /\ m.val \in Keys /\ m.add_data \in Nat
      BY <3>1, <3>2 DEF Done, Reply
    <3>4. /\ m.id = i /\ m.val = k
          /\ acked'[i][k] = m.add_data
      BY <2>3, <3>3 DEF AddAnswered, Inv, ControlInv, ControlTypeOK
    <3>5. PICK p \in Pids : StoredBy(p, m)
      BY <3>1, <3>2 DEF Done
    <3> QED
      BY <1>5, <3>3, <3>4, <3>5 DEF StoredBy
  <2>4. UNCHANGED acked \/ \E q \in Pids : AddAnswered(q)
    BY DEF Next, ControlStep, CreateAnswered, PingAnswered, FindAnswered,
           BeatReceived, CheckPending, CheckBeats, UserCommand, CreateCommand,
           ExecAddCommand, ExecFindCommand, PingCommand, HeartbeatCommand,
           SendRequest, ControlRestart, Connects, Kills, Tick, ctlVars, vars
  <2> QED
    BY <2>2, <2>3, <2>4
<1> QED
  BY <1>1, <1>4, <1>6 DEF AckedInv

CarefulWriteInv == Careful => WritesInOrder /\ AckedInv

LEMMA CarefulWriteInit == Init => CarefulWriteInv
<1> SUFFICES ASSUME Init
             PROVE  WritesInOrder /\ AckedInv
  BY DEF CarefulWriteInv
<1>1. AckedInv
  BY EmptySeq DEF Init, LinkInit, ControlInit, AckedInv
<1> QED
  BY <1>1, WriteInit

LEMMA CarefulWriteStep ==
  Inv /\ Inv' /\ CarefulInv /\ CarefulWriteInv /\ [Next]_vars => CarefulWriteInv'
BY WriteStep, AckedStep, NextKeepsIds DEF CarefulInv, CarefulWriteInv

LEMMA SpecCarefulWriteInv == Spec => []CarefulWriteInv
<1>1. Spec => []Inv /\ []CarefulInv
  BY SpecInv, SpecCarefulInv
<1> QED
  BY <1>1, CarefulWriteInit, CarefulWriteStep, PTL DEF Spec

(***************************************************************************)
(* If the user never asks twice for a node, a write that was reported as   *)
(* done is kept by the process of its node, however often processes are    *)
(* killed and answers lost: a value is replaced by later ones only         *)
(* (nodes.cpp:105-106, control.cpp:31-34).                                 *)
(***************************************************************************)
THEOREM NoAckedWriteLost == Spec => []AckedWritesKept
<1>1. CarefulWriteInv => AckedWritesKept
  BY DEF CarefulWriteInv, AckedInv, AckedWritesKept, Runs
<1> QED
  BY <1>1, SpecCarefulWriteInv, PTL

-----------------------------------------------------------------------------
(***************************************************************************)
(* Answers on their way up.  Line[r] holds the processes an answer of r    *)
(* passes through, r among them, and D[a] is how far a process is from the *)
(* control process.  No port is ever bound by a second process, so the     *)
(* line of a process stays as it was when the process was born.            *)
(***************************************************************************)
Lines(D, Line) ==
  /\ D \in [Pids -> Nat] /\ Line \in [Pids -> SUBSET Pids]
  /\ \A r \in Pids : nodeId[r] # NoId => r \in Line[r]
  /\ \A r \in Pids : \A a \in Line[r] :
       nodeId[a] # NoId /\ D[a] > 0 /\ D[a] <= D[r]
  /\ \A r \in Pids : \A a, b \in Line[r] : D[a] = D[b] => a = b
  /\ \A p \in Pids : \A q \in ChildProcs(p) :
       /\ nodeId[p] # NoId
       /\ D[q] = D[p] + 1
       /\ \A r \in Pids : q \in Line[r] => p \in Line[r]
  /\ \A q \in ChildProcs(Control) : D[q] = 1

\* Those that are there stay where they are.
LinesStay(D, Line, E, New) ==
  \A r \in Pids : nodeId[r] # NoId => E[r] = D[r] /\ New[r] = Line[r]

\* Ports are given back.
LEMMA LinesKept ==
  ASSUME NEW D, NEW Line, Lines(D, Line), UNCHANGED nodeId, PortsGivenBack
  PROVE  Lines(D, Line)'
<1>1. Control # NoOwner /\ \A p \in Pids : p # NoOwner
  BY LinkAssumption DEF Control, NoOwner
<1>2. \A a \in Pids \cup {Control} : ChildProcs(a)' \subseteq ChildProcs(a)
  BY <1>1 DEF ChildProcs, Children, PortsGivenBack
<1> QED
  BY <1>2 DEF Lines

\* A process is born to run a node that nobody runs.
LEMMA LinesGrow ==
  ASSUME LinkInv, NEW D, NEW Line, Lines(D, Line), NEW a \in Actors, NEW i \in Ids,
         Births(a, i), ~ Used(i), a \in Pids => nodeId[a] # NoId
  PROVE  \E E, New : Lines(E, New)' /\ LinesStay(D, Line, E, New)
<1> DEFINE c == FreshPid
           far == IF a = Control THEN 1 ELSE D[a] + 1
           way == IF a = Control THEN {c} ELSE {c} \cup Line[a]
           E == [D EXCEPT ![c] = far]
           New == [Line EXCEPT ![c] = way]
<1>0. /\ CanFork /\ nodeId' = [nodeId EXCEPT ![FreshPid] = i]
      /\ BindsAtMost(a, i) /\ owner[i] = NoOwner /\ \A p \in Pids : nodeId[p] # i
  BY DEF Births, Used
<1>1. c \in Pids /\ nodeId[c] = NoId
  BY <1>0, FreshPidType DEF LinkInv, BornHaveIds
<1>2. /\ i # NoId /\ \A j \in Ids : j # NoId
      /\ Control \notin Pids /\ (a # Control => a \in Pids)
  BY MessageAssumption, LinkAssumption DEF NoId, Control, Actors
<1>3. \A r \in Pids : nodeId'[r] = IF r = c THEN i ELSE nodeId[r]
  BY <1>0 DEF LinkInv, LinkTypeOK
<1>4. /\ D \in [Pids -> Nat] /\ Line \in [Pids -> SUBSET Pids]
      /\ a \in Pids => D[a] \in Nat /\ Line[a] \in SUBSET Pids
      /\ far \in Nat /\ way \in SUBSET Pids
  BY <1>1, <1>2 DEF Lines
<1>5. /\ E \in [Pids -> Nat] /\ New \in [Pids -> SUBSET Pids]
      /\ E[c] = far /\ New[c] = way
      /\ \A r \in Pids \ {c} : E[r] = D[r] /\ New[r] = Line[r]
  BY <1>1, <1>4
<1>6. \A r \in Pids : c \notin Line[r]
  BY <1>1 DEF Lines
<1>7. ASSUME NEW p \in Pids \cup {Control}, NEW q \in ChildProcs(p)'
      PROVE  \/ q = c /\ p = a
             \/ q # c /\ q \in ChildProcs(p)
  <2>1. q \in Pids /\ nodeId'[q] \in Ids /\ owner'[nodeId'[q]] = p
    BY <1>7 DEF ChildProcs, Children
  <2>2. p # NoOwner
    BY LinkAssumption DEF Control, NoOwner
  <2>3. CASE q = c
    BY <1>0, <1>3, <2>1, <2>2, <2>3 DEF BindsAtMost
  <2>4. CASE q # c
    <3>1. nodeId'[q] = nodeId[q] /\ nodeId[q] # i
      BY <1>0, <1>3, <2>1, <2>4
    <3>2. owner[nodeId[q]] = p
      BY <1>0, <2>1, <2>2, <3>1 DEF BindsAtMost
    <3> QED
      BY <2>1, <2>4, <3>1, <3>2 DEF ChildProcs, Children
  <2> QED
    BY <2>3, <2>4
<1> HIDE DEF E, New, far, way, c
<1>8. \A r \in Pids : nodeId'[r] # NoId => r \in New[r]
  BY <1>2, <1>3, <1>5 DEF Lines, way
<1>9. ASSUME NEW r \in Pids, NEW b \in New[r]
      PROVE  nodeId'[b] # NoId /\ E[b] > 0 /\ E[b] <= E[r]
  <2>1. CASE r # c
    <3>1. b \in Line[r] /\ b # c /\ b \in Pids
      BY <1>5, <1>6, <1>9, <2>1 DEF Lines
    <3> QED
      BY <1>3, <1>5, <2>1, <3>1 DEF Lines
  <2>2. CASE r = c /\ b = c
    BY <1>2, <1>3, <1>4, <1>5, <2>2 DEF far
  <2>3. CASE r = c /\ b # c
    <3>1. a \in Pids /\ b \in Line[a] /\ b \in Pids
      BY <1>2, <1>4, <1>5, <1>9, <2>3 DEF way
    <3>2. nodeId[b] # NoId /\ D[b] > 0 /\ D[b] <= D[a] /\ D[b] \in Nat
      BY <1>4, <3>1 DEF Lines
    <3>3. E[c] = D[a] + 1
      BY <1>2, <1>5, <3>1 DEF far
    <3> QED
      BY <1>3, <1>4, <1>5, <2>3, <3>1, <3>2, <3>3
  <2> QED
    BY <2>1, <2>2, <2>3
<1>10. ASSUME NEW r \in Pids, NEW b \in New[r], NEW d \in New[r], E[b] = E[d]
       PROVE  b = d
  <2>1. CASE r # c
    <3>1. b \in Line[r] /\ d \in Line[r] /\ b # c /\ d # c /\ b \in Pids /\ d \in Pids
      BY <1>5, <1>6, <2>1 DEF Lines
    <3> QED
      BY <1>5, <1>10, <3>1 DEF Lines
  <2>2. CASE r = c
    <3>1. b \in way /\ d \in way
      BY <1>5, <2>2
    <3>2. \A x \in way \ {c} : a \in Pids /\ x \in Line[a] /\ x \in Pids /\ E[x] = D[x]
                               /\ D[x] \in Nat /\ D[x] < E[c]
      <4> TAKE x \in way \ {c}
      <4>1. a \in Pids /\ x \in Line[a]
        BY <1>2 DEF way
      <4>2. x \in Pids /\ D[x] <= D[a] /\ E[c] = D[a] + 1
        BY <1>2, <1>4, <1>5, <4>1 DEF Lines, far
      <4> QED
        BY <1>4, <1>5, <4>1, <4>2
    <3> QED
      BY <1>10, <3>1, <3>2 DEF Lines
  <2> QED
    BY <2>1, <2>2
<1>11. ASSUME NEW p \in Pids, NEW q \in ChildProcs(p)'
       PROVE  /\ nodeId'[p] # NoId
              /\ E[q] = E[p] + 1
              /\ \A r \in Pids : q \in New[r] => p \in New[r]
  <2>1. CASE q = c /\ p = a
    <3>1. nodeId[a] # NoId /\ a # c /\ a # Control
      BY <1>1, <1>2, <1>11, <2>1
    <3>2. a \in Line[a]
      BY <1>11, <2>1, <3>1 DEF Lines
    <3>3. \A r \in Pids : c \in New[r] => r = c
      BY <1>5, <1>6
    <3> QED
      BY <1>3, <1>5, <2>1, <3>1, <3>2, <3>3 DEF far, way
  <2>2. CASE q # c /\ q \in ChildProcs(p)
    <3>1. nodeId[p] # NoId /\ D[q] = D[p] + 1 /\ q \in Pids
      BY <2>2 DEF Lines, ChildProcs
    <3>2. p # c
      BY <1>1, <3>1
    <3>3. ASSUME NEW r \in Pids, q \in New[r]
          PROVE  p \in New[r]
      <4>1. CASE r # c
        BY <1>5, <2>2, <3>3, <4>1 DEF Lines
      <4>2. CASE r = c
        <5>1. a \in Pids /\ q \in Line[a]
          BY <1>2, <1>5, <2>2, <3>3, <4>2 DEF way
        <5>2. p \in Line[a] /\ a # Control
          BY <1>2, <2>2, <5>1 DEF Lines
        <5> QED
          BY <1>5, <4>2, <5>2 DEF way
      <4> QED
        BY <4>1, <4>2
    <3> QED
      BY <1>3, <1>5, <2>2, <3>1, <3>2, <3>3
  <2> QED
    BY <1>7, <1>11, <2>1, <2>2
<1>12. ASSUME NEW q \in ChildProcs(Control)'
       PROVE  E[q] = 1
  <2>1. CASE q = c /\ Control = a
    BY <1>5, <2>1 DEF far
  <2>2. CASE q # c /\ q \in ChildProcs(Control)
    <3>1. q \in Pids /\ D[q] = 1
      BY <2>2 DEF Lines, ChildProcs
    <3> QED
      BY <1>5, <2>2, <3>1
  <2> QED
    BY <1>7, <1>12, <2>1, <2>2
<1>13. PICK F, W : F = E /\ W = New
  OBVIOUS
<1>14. Lines(F, W)'
  BY <1>5, <1>8, <1>9, <1>10, <1>11, <1>12, <1>13 DEF Lines
<1>15. LinesStay(D, Line, F, W)
  BY <1>1, <1>5, <1>13 DEF LinesStay
<1> QED
  BY <1>14, <1>15
-----------------------------------------------------------------------------
(***************************************************************************)
(* What the user is told about a key.  ack holds the writes acknowledged   *)
(* so far.  An answer to a find may be older than a write whose answer is  *)
(* still under way, but then it arrives first: it is nearer to the control *)
(* process, or before it in the same queue.                                *)
(***************************************************************************)
IsRead(m) == m.command \in {"ExecFnd", "ExecErr"}
IsWrite(m) == m.command = "ExecAdd"
Seen(m) == IF m.command = "ExecFnd" THEN m.add_data ELSE NoWrite
SameKey(m, w) == m.id = w.id /\ m.val = w.val

Fresh(m, ack) == IsRead(m) => ack[m.id][m.val] <= Seen(m)
Older(w, m) == IsRead(m) /\ IsWrite(w) /\ SameKey(m, w) => w.add_data <= Seen(m)
OnLine(m, p, Line) ==
  IsRead(m) \/ IsWrite(m) => \E r \in Pids : nodeId[r] = m.id /\ p \in Line[r]

InOrder(Q, ack, D, Line) ==
  /\ \A p \in Pids : \A n \in DOMAIN Q[p] : Fresh(Q[p][n], ack) /\ OnLine(Q[p][n], p, Line)
  /\ \A f, w \in Pids : \A k \in DOMAIN Q[f], n \in DOMAIN Q[w] :
       Older(Q[w][n], Q[f][k]) \/ D[f] < D[w] \/ (f = w /\ k < n)

\* Every queue is a part of what it was.
Shorter(Q, P) ==
  \A p \in Pids : \E s \in Nat : \A n \in DOMAIN Q[p] :
    n + s \in DOMAIN P[p] /\ Q[p][n] = P[p][n + s]

\* m may be put at the end of the queue of p.
Fits(m, p, Q, ack, D, Line) ==
  /\ Fresh(m, ack) /\ OnLine(m, p, Line)
  /\ \A q \in Pids : \A n \in DOMAIN Q[q] :
       /\ Older(Q[q][n], m) \/ D[p] < D[q]
       /\ Older(m, Q[q][n]) \/ D[q] < D[p] \/ q = p

\* What is left of queues in order is in order.
LEMMA OrderShorter ==
  ASSUME NEW P \in [Pids -> Seq(Reply)], NEW Q \in [Pids -> Seq(Reply)], Shorter(Q, P),
         NEW ack, NEW D, NEW Line, InOrder(P, ack, D, Line)
  PROVE  InOrder(Q, ack, D, Line)
<1>1. ASSUME NEW p \in Pids, NEW n \in DOMAIN Q[p]
      PROVE  Fresh(Q[p][n], ack) /\ OnLine(Q[p][n], p, Line)
  <2>1. PICK s \in Nat : n + s \in DOMAIN P[p] /\ Q[p][n] = P[p][n + s]
    BY DEF Shorter
  <2> QED
    BY <2>1 DEF InOrder
<1>2. ASSUME NEW f \in Pids, NEW w \in Pids, NEW k \in DOMAIN Q[f], NEW n \in DOMAIN Q[w]
      PROVE  Older(Q[w][n], Q[f][k]) \/ D[f] < D[w] \/ (f = w /\ k < n)
  <2>1. PICK s \in Nat : \A j \in DOMAIN Q[f] :
               j + s \in DOMAIN P[f] /\ Q[f][j] = P[f][j + s]
    BY DEF Shorter
  <2>2. PICK t \in Nat : \A j \in DOMAIN Q[w] :
               j + t \in DOMAIN P[w] /\ Q[w][j] = P[w][j + t]
    BY DEF Shorter
  <2>3. k \in Nat /\ n \in Nat
    OBVIOUS
  <2>4. CASE f = w
    <3>1. /\ k + s \in DOMAIN P[f] /\ Q[f][k] = P[f][k + s]
          /\ n + s \in DOMAIN P[w] /\ Q[w][n] = P[w][n + s]
      BY <2>1, <2>4
    <3>2. k + s < n + s => k < n
      BY <2>3
    <3> QED
      BY <2>4, <3>1, <3>2 DEF InOrder
  <2>5. CASE f # w
    <3>1. /\ k + s \in DOMAIN P[f] /\ Q[f][k] = P[f][k + s]
          /\ n + t \in DOMAIN P[w] /\ Q[w][n] = P[w][n + t]
      BY <2>1, <2>2
    <3> QED
      BY <2>5, <3>1 DEF InOrder
  <2> QED
    BY <2>4, <2>5
<1> QED
  BY <1>1, <1>2 DEF InOrder

\* A message that fits leaves the queues in order.
LEMMA OrderSend ==
  ASSUME NEW Q \in [Pids -> Seq(Reply)], NEW p \in Pids, NEW m \in Reply,
         NEW ack, NEW D, NEW Line, InOrder(Q, ack, D, Line), Fits(m, p, Q, ack, D, Line)
  PROVE  InOrder(Send(p, m, Q), ack, D, Line)
<1> DEFINE S == Send(p, m, Q)
<1>1. \A q \in Pids : \A n \in DOMAIN S[q] :
        \/ n \in DOMAIN Q[q] /\ S[q][n] = Q[q][n]
        \/ q = p /\ n = Len(Q[q]) + 1 /\ S[q][n] = m
  <2> TAKE q \in Pids
  <2>1. S[q] = Q[q] \/ (q = p /\ S[q] = Append(Q[q], m))
    BY DEF Send
  <2>2. Q[q] \in Seq(Reply)
    OBVIOUS
  <2> HIDE DEF S
  <2>3. CASE S[q] = Q[q]
    BY <2>3
  <2>4. CASE q = p /\ S[q] = Append(Q[q], m)
    BY <2>2, <2>4
  <2> QED
    BY <2>1, <2>3, <2>4
<1> HIDE DEF S
<1>2. ASSUME NEW q \in Pids, NEW n \in DOMAIN S[q]
      PROVE  Fresh(S[q][n], ack) /\ OnLine(S[q][n], q, Line)
  BY <1>1 DEF InOrder, Fits
<1>3. ASSUME NEW f \in Pids, NEW w \in Pids, NEW k \in DOMAIN S[f], NEW n \in DOMAIN S[w]
      PROVE  Older(S[w][n], S[f][k]) \/ D[f] < D[w] \/ (f = w /\ k < n)
  <2>1. CASE k \in DOMAIN Q[f] /\ S[f][k] = Q[f][k]
    <3>1. CASE n \in DOMAIN Q[w] /\ S[w][n] = Q[w][n]
      BY <2>1, <3>1 DEF InOrder
    <3>2. CASE w = p /\ n = Len(Q[w]) + 1 /\ S[w][n] = m
      <4>1. k \in 1 .. Len(Q[f])
        BY <2>1
      <4>2. Older(m, Q[f][k]) \/ D[f] < D[p] \/ f = p
        BY <2>1 DEF Fits
      <4> QED
        BY <2>1, <3>2, <4>1, <4>2
    <3> QED
      BY <1>1, <3>1, <3>2
  <2>2. CASE f = p /\ k = Len(Q[f]) + 1 /\ S[f][k] = m
    <3>1. CASE n \in DOMAIN Q[w] /\ S[w][n] = Q[w][n]
      BY <2>2, <3>1 DEF Fits
    <3>2. CASE S[w][n] = m
      BY <2>2, <3>2 DEF Older, IsRead, IsWrite
    <3> QED
      BY <1>1, <3>1, <3>2
  <2> QED
    BY <1>1, <2>1, <2>2
<1> QED
  BY <1>2, <1>3 DEF InOrder, S

\* Taking the oldest message, cutting a queue and losing one shorten it.
LEMMA ShorterSame ==
  ASSUME NEW Q \in [Pids -> Seq(Reply)]
  PROVE  Shorter(Q, Q)
<1>1. \A p \in Pids : \A n \in DOMAIN Q[p] : n + 0 = n
  OBVIOUS
<1> QED
  BY <1>1 DEF Shorter

LEMMA ShorterPop ==
  ASSUME NEW Q \in [Pids -> Seq(Reply)], NEW q \in Pids, Q[q] # <<>>
  PROVE  Shorter(Pop(q, Q), Q)
<1>1. ASSUME NEW p \in Pids
      PROVE  \E s \in Nat : \A n \in DOMAIN Pop(q, Q)[p] :
               n + s \in DOMAIN Q[p] /\ Pop(q, Q)[p][n] = Q[p][n + s]
  <2>1. CASE p = q
    <3>1. Pop(q, Q)[p] = Tail(Q[p]) /\ Q[p] \in Seq(Reply) /\ Q[p] # <<>>
      BY <2>1 DEF Pop
    <3>2. \A n \in DOMAIN Tail(Q[p]) : n + 1 \in DOMAIN Q[p] /\ Tail(Q[p])[n] = Q[p][n + 1]
      BY <3>1
    <3> QED
      BY <3>1, <3>2
  <2>2. CASE p # q
    <3>1. \A n \in DOMAIN Q[p] : n + 0 = n
      OBVIOUS
    <3> QED
      BY <2>2, <3>1 DEF Pop
  <2> QED
    BY <2>1, <2>2
<1> QED
  BY <1>1 DEF Shorter

LEMMA ShorterCut ==
  ASSUME NEW P \in [Pids -> Seq(Reply)], NEW Q \in [Pids -> Seq(Reply)],
         \A p \in Pids : \/ Q[p] \in {P[p], <<>>}
                         \/ \E i \in 0 .. Len(P[p]), j \in 0 .. Len(P[p]) :
                              Q[p] = SubSeq(P[p], i + 1, j)
  PROVE  Shorter(Q, P)
<1>1. ASSUME NEW p \in Pids
      PROVE  \E s \in Nat : \A n \in DOMAIN Q[p] :
               n + s \in DOMAIN P[p] /\ Q[p][n] = P[p][n + s]
  <2>1. CASE Q[p] = P[p]
    <3>1. \A n \in DOMAIN Q[p] : n + 0 = n
      OBVIOUS
    <3> QED
      BY <2>1, <3>1
  <2>2. CASE Q[p] = <<>>
    <3>1. \A n \in DOMAIN Q[p] : n + 0 \in DOMAIN P[p] /\ Q[p][n] = P[p][n + 0]
      BY <2>2
    <3> QED
      BY <3>1
  <2>3. ASSUME NEW i \in 0 .. Len(P[p]), NEW j \in 0 .. Len(P[p]),
               Q[p] = SubSeq(P[p], i + 1, j)
        PROVE  \E s \in Nat : \A n \in DOMAIN Q[p] :
                 n + s \in DOMAIN P[p] /\ Q[p][n] = P[p][n + s]
    <3>1. P[p] \in Seq(Reply) /\ Len(P[p]) \in Nat
      OBVIOUS
    <3>2. \A n \in DOMAIN SubSeq(P[p], i + 1, j) :
            n + i \in DOMAIN P[p] /\ SubSeq(P[p], i + 1, j)[n] = P[p][n + i]
      BY <3>1
    <3> QED
      BY <2>3, <3>2
  <2> QED
    BY <2>1, <2>2, <2>3
<1> QED
  BY <1>1 DEF Shorter
-----------------------------------------------------------------------------
\* A process passes on the oldest answer of a child: whatever was behind it
\* is still behind it.
LEMMA ForwardInOrder ==
  ASSUME Inv, OneEach, NEW D, NEW Line, Lines(D, Line), InOrder(up, acked, D, Line),
         NEW p \in Pids, NEW q \in Pids, NodeForward(p, q)
  PROVE  InOrder(up', acked, D, Line)
<1> DEFINE m == Head(up[q])
           Q == Pop(q, up)
<1>1. /\ up \in [Pids -> Seq(Reply)] /\ up[q] # <<>> /\ q \in ChildProcs(p)
      /\ up' = Send(p, m, Q)
  BY DEF NodeForward, Readable, Inv, LinkInv, LinkTypeOK
<1>2. /\ m \in Reply /\ Q \in [Pids -> Seq(Reply)] /\ Shorter(Q, up)
      /\ 1 \in DOMAIN up[q] /\ up[q][1] = m
  <2>1. m \in Reply /\ Q \in [Pids -> Seq(Reply)]
    BY ONLY <1>1, q \in Pids, PopType
  <2>2. Shorter(Q, up)
    BY ONLY <1>1, q \in Pids, ShorterPop
  <2>3. up[q] \in Seq(Reply) /\ up[q] # <<>>
    BY <1>1
  <2>4. 1 \in DOMAIN up[q] /\ up[q][1] = m
    BY <2>3
  <2> QED
    BY <2>1, <2>2, <2>4
<1>3. /\ D \in [Pids -> Nat] /\ D[q] = D[p] + 1
      /\ \A r \in Pids : q \in Line[r] => p \in Line[r]
  BY <1>1 DEF Lines
<1>4. InOrder(Q, acked, D, Line)
  BY <1>1, <1>2, OrderShorter
<1>5. Fresh(m, acked) /\ OnLine(m, p, Line)
  <2>1. Fresh(m, acked) /\ OnLine(m, q, Line)
    BY <1>2 DEF InOrder
  <2> QED
    BY <2>1, <1>3 DEF OnLine
<1>6. \A w \in Pids : \A n \in DOMAIN Q[w] : Q[w][n] \in Reply
  BY <1>2
<1> HIDE DEF m, Q
<1>7. ASSUME NEW w \in Pids, NEW n \in DOMAIN Q[w]
      PROVE  /\ Older(Q[w][n], m) \/ D[p] < D[w]
             /\ Older(m, Q[w][n]) \/ D[w] < D[p] \/ w = p
  <2>1. PICK s \in Nat : n + s \in DOMAIN up[w] /\ Q[w][n] = up[w][n + s]
    BY <1>2 DEF Shorter
  <2>2. /\ D[p] \in Nat /\ D[q] \in Nat /\ D[w] \in Nat
        /\ n + s \in Nat /\ n + s >= 1
    BY <1>1, <1>3, <2>1
  <2>3. Older(Q[w][n], m) \/ D[p] < D[w]
    <3>1. Older(Q[w][n], m) \/ D[q] < D[w] \/ q = w
      BY <1>2, <2>1 DEF InOrder
    <3> QED
      BY <1>3, <2>2, <3>1
  <2>4. Older(m, Q[w][n]) \/ D[w] < D[q]
    <3>1. Older(m, Q[w][n]) \/ D[w] < D[q] \/ (w = q /\ n + s < 1)
      BY <1>2, <2>1 DEF InOrder
    <3> QED
      BY <2>2, <3>1
  <2>5. ASSUME ~ Older(m, Q[w][n])
        PROVE  D[w] < D[p] \/ w = p
    <3>1. IsRead(Q[w][n]) /\ IsWrite(m) /\ m.id = Q[w][n].id
      BY <2>5 DEF Older, SameKey
    <3>2. PICK r \in Pids : nodeId[r] = m.id /\ p \in Line[r]
      BY <1>5, <3>1 DEF OnLine
    <3>3. PICK t \in Pids : nodeId[t] = m.id /\ w \in Line[t]
      BY <1>4, <3>1 DEF OnLine, InOrder
    <3>4. m.id # NoId
      BY <1>2, MessageAssumption DEF Reply, NoId
    <3>5. r = t
      BY <3>2, <3>3, <3>4 DEF OneEach
    <3>6. D[w] = D[p] => w = p
      BY <3>2, <3>3, <3>5 DEF Lines
    <3> QED
      BY <1>3, <2>2, <2>4, <2>5, <3>6
  <2> QED
    BY <2>3, <2>5
<1>8. Fits(m, p, Q, acked, D, Line)
  BY <1>5, <1>7 DEF Fits
<1> QED
  BY <1>1, <1>2, <1>4, <1>8, OrderSend

\* What a process tells about its own node: that a write was done, what it
\* has stored under a key, or something that is about no key.
Tells(p, m) ==
  IsRead(m) \/ IsWrite(m) =>
    /\ nodeId[p] = m.id
    /\ IsRead(m) => dictionary[p][m.val] <= Seen(m)

\* Such an answer is behind everything older that is about the node.
LEMMA TellsFits ==
  ASSUME Inv, OneEach, AckedInv, NEW D, NEW Line, Lines(D, Line),
         InOrder(up, acked, D, Line), NEW p \in Pids, NEW m \in Reply, Tells(p, m)
  PROVE  Fits(m, p, up, acked, D, Line)
<1>1. CASE ~ IsRead(m) /\ ~ IsWrite(m)
  BY <1>1 DEF Fits, Fresh, OnLine, Older
<1>2. CASE IsRead(m) \/ IsWrite(m)
  <2>1. /\ nodeId[p] = m.id /\ m.id \in Ids /\ nodeId[p] # NoId /\ m.val \in Keys
        /\ Seen(m) \in Nat
    BY <1>2, MessageAssumption DEF Tells, Reply, NoId, IsRead, IsWrite, Seen, NoWrite
  <2>2. OnLine(m, p, Line) /\ p \in Line[p]
    BY <2>1 DEF OnLine, Lines
  <2>3. \A r \in Pids : nodeId[r] = m.id => r = p
    BY <2>1 DEF OneEach
  <2>4. dictionary[p][m.val] \in Int
    BY <2>1 DEF Inv, NodeTypeOK, Absent
  <2>5. Fresh(m, acked)
    <3>1. SUFFICES ASSUME IsRead(m)
                   PROVE  acked[m.id][m.val] <= Seen(m)
      BY DEF Fresh
    <3>2. acked[m.id][m.val] \in Nat
      BY <2>1 DEF Inv, ControlInv, ControlTypeOK
    <3>3. CASE acked[m.id][m.val] = NoWrite
      BY <2>1, <3>3 DEF NoWrite
    <3>4. CASE acked[m.id][m.val] # NoWrite
      <4>1. acked[m.id][m.val] <= dictionary[p][m.val]
        BY <2>1, <2>3, <3>4 DEF AckedInv
      <4>2. dictionary[p][m.val] <= Seen(m)
        BY <1>2, <3>1 DEF Tells
      <4> QED
        BY <2>1, <2>4, <3>2, <4>1, <4>2
    <3> QED
      BY <3>3, <3>4
  <2>6. ASSUME NEW q \in Pids, NEW n \in DOMAIN up[q]
        PROVE  /\ Older(up[q][n], m)
               /\ Older(m, up[q][n]) \/ D[q] < D[p] \/ q = p
    <3>1. up[q][n] \in Done
      BY DEF AckedInv
    <3>2. Older(up[q][n], m)
      <4>1. SUFFICES ASSUME IsRead(m), IsWrite(up[q][n]), SameKey(m, up[q][n])
                     PROVE  up[q][n].add_data <= Seen(m)
        BY DEF Older
      <4>2. PICK r \in Pids : StoredBy(r, up[q][n])
        BY <3>1, <4>1 DEF Done, IsWrite
      <4>3. up[q][n].add_data <= dictionary[p][m.val] /\ up[q][n].add_data \in Nat
        BY <2>3, <3>1, <4>1, <4>2 DEF StoredBy, SameKey, Done, Reply, IsWrite
      <4>4. dictionary[p][m.val] <= Seen(m)
        BY <4>1 DEF Tells
      <4> QED
        BY <2>1, <2>4, <4>3, <4>4
    <3>3. ASSUME ~ Older(m, up[q][n])
          PROVE  D[q] < D[p] \/ q = p
      <4>1. IsRead(up[q][n]) /\ m.id = up[q][n].id
        BY <3>3 DEF Older, SameKey
      <4>2. q \in Line[p]
        BY <2>3, <4>1 DEF InOrder, OnLine
      <4>3. D[q] <= D[p] /\ (D[q] = D[p] => q = p) /\ D[q] \in Nat /\ D[p] \in Nat
        BY <2>2, <4>2 DEF Lines
      <4> QED
        BY <4>3
    <3> QED
      BY <3>2, <3>3
  <2> QED
    BY <2>2, <2>5, <2>6 DEF Fits
<1> QED
  BY <1>1, <1>2
\* The keys in requests are cut already, so a find looks up the key it names.
Named == {m \in Request : m.val \in Keys => Stored[m.val] = m.val}

\* What a step of a computing process does to what goes up.
LEMMA NodeUp ==
  ASSUME Inv, down \in [Pids -> Seq(Named)], NodeStep
  PROVE  \/ \E p \in Pids : \E m \in Reply : Tells(p, m) /\ up' = Send(p, m, up)
         \/ \E p, q \in Pids : NodeForward(p, q)
         \/ \E p \in Pids : Closes(p, up[p])
         \/ UNCHANGED up
<1> DEFINE Goal == \/ \E p \in Pids : \E m \in Reply : Tells(p, m) /\ up' = Send(p, m, up)
                   \/ \E p, q \in Pids : NodeForward(p, q)
                   \/ \E p \in Pids : Closes(p, up[p])
                   \/ UNCHANGED up
<1>1. ASSUME NEW p \in Pids, NodeCreate(p)
      PROVE  Goal
  <2>1. Incoming(p).add_data \in Ids
    BY <1>1, IncomingFacts DEF NodeCreate, Receives, Inv, Request
  <2>2. CASE ForkChild(p, Incoming(p).add_data)
    <3> DEFINE m == Msg("Create", Incoming(p).add_data, FreshPid)
    <3>1. FreshPid \in Nat
      BY <2>2, FreshPidType, LinkAssumption DEF ForkChild, ForkAndBind
    <3>2. m \in Reply /\ Tells(p, m)
      BY <2>1, <3>1 DEF Msg, Reply, Tells, IsRead, IsWrite
    <3>3. up' = Send(p, m, up)
      BY <2>2 DEF ForkChild
    <3> HIDE DEF m
    <3> QED
      BY <3>2, <3>3
  <2>3. CASE BindFails(p, Incoming(p).add_data, up[p]) \/ ForkFails(p, up[p])
    BY <2>3, ThrowCloses DEF Inv, LinkInv
  <2> QED
    BY <1>1, <2>2, <2>3 DEF NodeCreate, PassOn
<1>2. ASSUME NEW p \in Pids, NodePing(p)
      PROVE  Goal
  <2> DEFINE m == Incoming(p)
  <2>1. /\ status[p] = "running" /\ down[p] # <<>> /\ m.command = "Ping"
        /\ m \in Request /\ nodeId[p] \in Ids
    BY <1>2, IncomingFacts DEF NodePing, Receives, Inv
  <2>2. ForMe(p) => m \in Reply /\ Tells(p, m)
    BY <2>1, EchoHonest DEF ForMe, HonestReplies, Tells, IsRead, IsWrite
  <2>3. \/ ForMe(p) /\ up' = Send(p, m, up)
        \/ UNCHANGED up
    BY <1>2 DEF NodePing, SendReply, PassOn
  <2> HIDE DEF m
  <2> QED
    BY <2>2, <2>3
<1>3. ASSUME NEW p \in Pids, NodeExecAdd(p)
      PROVE  Goal
  <2> DEFINE m == Incoming(p)
  <2>1. /\ status[p] = "running" /\ down[p] # <<>> /\ m.command = "ExecAdd"
        /\ m \in Request /\ nodeId[p] \in Ids
    BY <1>3, IncomingFacts DEF NodeExecAdd, Receives, Inv
  <2>2. ForMe(p) => m \in Reply /\ Tells(p, m)
    BY <2>1, EchoHonest DEF ForMe, HonestReplies, Tells, IsRead
  <2>3. \/ ForMe(p) /\ up' = Send(p, m, up)
        \/ UNCHANGED up
    BY <1>3 DEF NodeExecAdd, SendReply, PassOn
  <2> HIDE DEF m
  <2> QED
    BY <2>2, <2>3
<1>4. ASSUME NEW p \in Pids, NodeExecFind(p)
      PROVE  Goal
  <2> DEFINE k == Incoming(p).val
             m == FindReply(p, k)
  <2>1. /\ k \in Keys /\ nodeId[p] \in Ids
        /\ status[p] = "running" /\ down[p] # <<>>
    BY <1>4, IncomingFacts DEF NodeExecFind, Receives, Inv, Request
  <2>2. Incoming(p) \in Named
    BY <2>1, PopType DEF Incoming
  <2>3. Stored[k] = k /\ dictionary[p][k] \in Nat \cup {Absent}
    BY <2>1, <2>2 DEF Named, Inv, NodeTypeOK
  <2>4. m \in Reply /\ Tells(p, m)
    <3>1. CASE dictionary[p][k] # Absent
      <4>1. m = [command |-> "ExecFnd", id |-> nodeId[p],
                 add_data |-> dictionary[p][k], val |-> k]
        BY <2>3, <3>1 DEF FindReply, MsgVal
      <4>2. m \in Reply /\ m.id = nodeId[p] /\ Seen(m) = dictionary[p][k] /\ m.val = k
        BY <2>1, <2>3, <3>1, <4>1 DEF Reply, Seen
      <4>3. dictionary[p][m.val] <= Seen(m)
        BY <2>3, <3>1, <4>2 DEF Absent
      <4> QED
        BY <4>2, <4>3 DEF Tells
    <3>2. CASE dictionary[p][k] = Absent
      <4>1. m = [command |-> "ExecErr", id |-> nodeId[p], add_data |-> -1, val |-> k]
        BY <2>3, <3>2 DEF FindReply, MsgVal
      <4>2. m \in Reply /\ m.id = nodeId[p] /\ Seen(m) = 0 /\ m.val = k
        BY <2>1, <4>1 DEF Reply, Seen, NoWrite
      <4> QED
        BY <3>2, <4>2 DEF Tells, Absent
    <3> QED
      BY <3>1, <3>2
  <2>5. up' = Send(p, m, up) \/ UNCHANGED up
    BY <1>4 DEF NodeExecFind, SendReply, PassOn
  <2> HIDE DEF m
  <2> QED
    BY <2>4, <2>5
<1>5. ASSUME NEW p \in Pids, NodeHeartBeat(p)
      PROVE  Goal
  BY <1>5 DEF NodeHeartBeat, PassOn
<1>6. ASSUME NEW p \in Pids, NodeBeat(p)
      PROVE  Goal
  <2> DEFINE m == Msg("HeartBeat", nodeId[p], -1)
  <2>1. nodeId[p] \in Ids
    BY <1>6 DEF NodeBeat, Inv, LinkInv, LinkTypeOK, BornHaveIds
  <2>2. m \in Reply /\ Tells(p, m)
    BY <2>1 DEF Msg, Reply, Tells, IsRead, IsWrite
  <2>3. up' = Send(p, m, up)
    BY <1>6 DEF NodeBeat
  <2> HIDE DEF m
  <2> QED
    BY <2>2, <2>3
<1> HIDE DEF Goal
<1>7. ASSUME NEW p \in Pids, NEW q \in Pids, NodeForward(p, q)
      PROVE  Goal
  BY <1>7 DEF Goal
<1>8. Goal
  BY <1>1, <1>2, <1>3, <1>4, <1>5, <1>6, <1>7 DEF NodeStep
<1> QED
  BY <1>8 DEF Goal
-----------------------------------------------------------------------------
\* What is left of the queues of an actor that ends was there before.
LEMMA CloseShorter ==
  ASSUME Inv, Inv', NEW a \in Actors, NEW kept, Closes(a, kept),
         \/ kept = <<>>
         \/ a \in Pids /\ (kept = up[a] \/ \E k \in 0 .. Len(up[a]) :
                                             kept = SubSeq(up[a], 1, k))
  PROVE  Shorter(up', up)
<1>1. up \in [Pids -> Seq(Reply)] /\ up' \in [Pids -> Seq(Reply)]
  BY DEF Inv, LinkInv, LinkTypeOK
<1>2. PICK Q : Q = up'
  OBVIOUS
<1>3. ASSUME NEW p \in Pids
      PROVE  \/ Q[p] \in {up[p], <<>>}
             \/ \E i \in 0 .. Len(up[p]), j \in 0 .. Len(up[p]) :
                  Q[p] = SubSeq(up[p], i + 1, j)
  <2>1. Q[p] \in {kept, up[p], <<>>} /\ (Q[p] = kept => p = a \/ Q[p] \in {up[p], <<>>})
    BY <1>2 DEF Closes, CloseSockets
  <2>2. ASSUME p = a, NEW k \in 0 .. Len(up[a]), Q[p] = SubSeq(up[a], 1, k)
        PROVE  \E i \in 0 .. Len(up[p]), j \in 0 .. Len(up[p]) :
                 Q[p] = SubSeq(up[p], i + 1, j)
    <3>1. 0 \in 0 .. Len(up[p]) /\ k \in 0 .. Len(up[p]) /\ Q[p] = SubSeq(up[p], 0 + 1, k)
      BY <1>1, <2>2
    <3> QED
      BY <3>1
  <2> QED
    BY <2>1, <2>2
<1>4. Shorter(Q, up)
  BY <1>1, <1>2, <1>3, ShorterCut
<1> QED
  BY <1>2, <1>4

\* The answer to a write arrives: every answer to a find that is still under
\* way was sent after the write.
LEMMA AddInOrder ==
  ASSUME Inv, Inv', NEW D, NEW Line, Lines(D, Line), InOrder(up, acked, D, Line),
         NEW q \in Pids, AddAnswered(q)
  PROVE  InOrder(up', acked', D, Line)
<1> DEFINE m == Answer(q)
<1>1. PICK Q : Q = up'
  OBVIOUS
<1>2. /\ up \in [Pids -> Seq(Reply)] /\ up[q] # <<>> /\ q \in ChildProcs(Control)
      /\ Q = Pop(q, up) /\ m = Head(up[q]) /\ m.command = "ExecAdd"
  BY <1>1 DEF AddAnswered, ControlReceives, Readable, Answer, Inv, LinkInv, LinkTypeOK
<1>3. Q \in [Pids -> Seq(Reply)] /\ Shorter(Q, up)
  BY ONLY <1>2, q \in Pids, PopType, ShorterPop
<1>4. /\ up[q] \in Seq(Reply) /\ m \in Reply /\ m.id \in Ids /\ m.val \in Keys
      /\ 1 \in DOMAIN up[q] /\ up[q][1] = m /\ D[q] = 1 /\ D \in [Pids -> Nat]
  <2>1. up[q] \in Seq(Reply) /\ D[q] = 1 /\ D \in [Pids -> Nat]
    BY <1>2 DEF Lines
  <2>2. 1 \in DOMAIN up[q] /\ up[q][1] = m /\ m \in Reply
    BY <1>2, <2>1
  <2> QED
    BY <1>2, <2>1, <2>2 DEF Reply
<1>5. InOrder(Q, acked, D, Line)
  BY <1>2, <1>3, OrderShorter
<1>6. ASSUME NEW i \in Ids, NEW k \in Keys
      PROVE  \/ acked'[i][k] = acked[i][k]
             \/ i = m.id /\ k = m.val /\ acked'[i][k] = m.add_data
  <2>1. /\ acked \in [Ids -> [Keys -> Nat]]
        /\ acked' = [acked EXCEPT ![m.id][m.val] =
                       IF @ < m.add_data THEN m.add_data ELSE @]
    BY DEF AddAnswered, Inv, ControlInv, ControlTypeOK
  <2> HIDE DEF m
  <2> QED
    BY <1>4, <1>6, <2>1
<1> HIDE DEF m
<1>7. ASSUME NEW p \in Pids, NEW n \in DOMAIN Q[p]
      PROVE  Fresh(Q[p][n], acked')
  <2>1. SUFFICES ASSUME IsRead(Q[p][n])
                 PROVE  acked'[Q[p][n].id][Q[p][n].val] <= Seen(Q[p][n])
    BY DEF Fresh
  <2>2. Q[p][n].id \in Ids /\ Q[p][n].val \in Keys
    BY <1>3, <2>1 DEF Reply, IsRead
  <2>3. acked[Q[p][n].id][Q[p][n].val] <= Seen(Q[p][n])
    BY <1>5, <2>1 DEF InOrder, Fresh
  <2>4. PICK s \in Nat : n + s \in DOMAIN up[p] /\ Q[p][n] = up[p][n + s]
    BY <1>3 DEF Shorter
  <2>5. Older(m, Q[p][n]) \/ D[p] < D[q] \/ (p = q /\ n + s < 1)
    BY <1>4, <2>4 DEF InOrder
  <2>6. D[p] > 0
    <3>1. PICK r \in Pids : p \in Line[r]
      BY <1>5, <2>1 DEF InOrder, OnLine
    <3> QED
      BY <3>1 DEF Lines
  <2>7. n + s \in 1 .. Len(up[p])
    BY <1>2, <2>4
  <2>8. Older(m, Q[p][n])
    BY <1>4, <2>5, <2>6, <2>7
  <2> QED
    BY <1>2, <1>6, <2>1, <2>2, <2>3, <2>8 DEF Older, IsWrite, SameKey
<1>8. InOrder(Q, acked', D, Line)
  BY <1>5, <1>7 DEF InOrder
<1> QED
  BY <1>1, <1>8

\* Whatever happens, what goes up stays in order.
LEMMA UpInOrder ==
  ASSUME Inv, Inv', OneEach, AckedInv, NEW D, NEW Line, Lines(D, Line),
         InOrder(up, acked, D, Line), down \in [Pids -> Seq(Named)], [Next]_vars
  PROVE  InOrder(up', acked', D, Line)
<1>1. up \in [Pids -> Seq(Reply)] /\ up' \in [Pids -> Seq(Reply)]
  BY DEF Inv, LinkInv, LinkTypeOK
<1>2. ASSUME Shorter(up', up), UNCHANGED acked
      PROVE  InOrder(up', acked', D, Line)
  <2>1. PICK Q : Q = up'
    OBVIOUS
  <2>2. InOrder(Q, acked, D, Line)
    BY <1>1, <1>2, <2>1, OrderShorter
  <2> QED
    BY <1>2, <2>1, <2>2
<1>3. ASSUME UNCHANGED up
      PROVE  Shorter(up', up)
  BY <1>1, <1>3, ShorterSame
<1>4. CASE NodeStep /\ UNCHANGED <<ctlVars, kills>>
  <2>1. UNCHANGED acked
    BY <1>4 DEF ctlVars
  <2>2. ASSUME NEW p \in Pids, NEW m \in Reply, Tells(p, m), up' = Send(p, m, up)
        PROVE  InOrder(up', acked, D, Line)
    BY <1>1, <2>2, TellsFits, OrderSend
  <2>3. ASSUME NEW p \in Pids, NEW q \in Pids, NodeForward(p, q)
        PROVE  InOrder(up', acked, D, Line)
    BY <2>3, ForwardInOrder
  <2>4. ASSUME NEW p \in Pids, Closes(p, up[p])
        PROVE  Shorter(up', up)
    <3>1. p \in Actors
      BY DEF Actors
    <3> QED
      BY <2>4, <3>1, CloseShorter
  <2> QED
    BY <1>2, <1>3, <1>4, <2>1, <2>2, <2>3, <2>4, NodeUp
<1>5. CASE UserCommand
  <2>1. Control \in Actors
    BY DEF Actors
  <2>2. UNCHANGED acked /\ (UNCHANGED up \/ Closes(Control, <<>>))
    BY <1>5, ThrowCloses
    DEF UserCommand, CreateCommand, CreateCommandAtRoot, ExecAddCommand,
        ExecFindCommand, PingCommand, HeartbeatCommand, SendRequest,
        BroadcastMessage, SendToChildren, Inv, LinkInv
  <2>3. Closes(Control, <<>>) => Shorter(up', up)
    BY <2>1, CloseShorter
  <2> QED
    BY <1>2, <1>3, <2>2, <2>3
<1>6. CASE Kills
  <2>1. PICK a \in Actors : Kill(a)
    BY <1>6 DEF Kills
  <2>2. PICK k \in 0 .. Len(SentUp(a)) : Closes(a, SubSeq(SentUp(a), 1, k))
    BY <2>1, KillCloses DEF Inv, LinkInv
  <2>3. CASE SentUp(a) = <<>>
    <3>1. SubSeq(SentUp(a), 1, k) = <<>>
      BY <2>3
    <3> QED
      BY <1>2, <1>6, <2>2, <3>1, CloseShorter DEF Kills, ctlVars
  <2>4. CASE a \in Pids /\ SentUp(a) = up[a]
    BY <1>2, <1>6, <2>2, <2>4, CloseShorter DEF Kills, ctlVars
  <2> QED
    BY <2>3, <2>4 DEF SentUp, Actors
<1>7. CASE Connects
  <2>1. PICK p \in Pids : Connect(p)
    BY <1>7 DEF Connects
  <2>2. PICK k \in 0 .. Len(up[p]) :
          up' = [up EXCEPT ![p] = SubSeq(@, k + 1, Len(@))]
    BY <2>1 DEF Connect
  <2>3. PICK Q : Q = up'
    OBVIOUS
  <2>4. Len(up[p]) \in 0 .. Len(up[p])
    BY <1>1
  <2>5. \A q \in Pids : Q[q] = IF q = p THEN SubSeq(up[p], k + 1, Len(up[p])) ELSE up[q]
    BY <1>1, <2>2, <2>3
  <2>6. Shorter(Q, up)
    BY <1>1, <2>3, <2>4, <2>5, ShorterCut
  <2> QED
    BY <1>2, <1>7, <2>3, <2>6 DEF Connects, ctlVars
<1>8. CASE ControlStep
  <2>1. CASE \E q \in Pids : AddAnswered(q)
    BY <2>1, AddInOrder
  <2>2. CASE UNCHANGED acked
    <3>1. \/ UNCHANGED up
          \/ \E q \in Pids : Readable(q) /\ up' = Pop(q, up)
      BY <1>8 DEF ControlStep, CreateAnswered, PingAnswered, AddAnswered,
                  FindAnswered, BeatReceived, ControlReceives, CheckPending,
                  CheckBeats, linkVars
    <3> QED
      BY <1>1, <1>2, <1>3, <2>2, <3>1, ShorterPop DEF Readable
  <2> QED
    BY <1>8, <2>1, <2>2 DEF ControlStep, CreateAnswered, PingAnswered,
         FindAnswered, BeatReceived, CheckPending, CheckBeats
<1>9. CASE ControlRestart \/ Tick \/ UNCHANGED vars
  BY <1>2, <1>3, <1>9 DEF ControlRestart, Tick, vars, linkVars, ctlVars
<1> QED
  BY <1>4, <1>5, <1>6, <1>7, <1>8, <1>9 DEF Next
-----------------------------------------------------------------------------
\* Whatever happens, a process is born below another one, or nobody moves.
LEMMA LinesStep ==
  ASSUME Inv, Careful, AskedOnce, NEW D, NEW Line, Lines(D, Line), [Next]_vars
  PROVE  \E E, New : Lines(E, New)' /\ LinesStay(D, Line, E, New)
<1>1. PICK R, P, N : OnceInv(R, P, N)
  BY DEF AskedOnce
<1>2. ASSUME UNCHANGED nodeId, PortsGivenBack
      PROVE  \E E, New : Lines(E, New)' /\ LinesStay(D, Line, E, New)
  <2>1. Lines(D, Line)' /\ LinesStay(D, Line, D, Line)
    BY <1>2, LinesKept DEF LinesStay
  <2> QED
    BY <2>1
<1>3. LinkInv /\ LinkTypeOK
  BY DEF Inv, LinkInv
<1>4. CASE UNCHANGED <<nodeId, owner>>
  BY <1>2, <1>4 DEF PortsGivenBack
<1>5. CASE NodeStep
  <2>1. ASSUME NEW p \in Pids, Creates(p)
        PROVE  \E E, New : Lines(E, New)' /\ LinesStay(D, Line, E, New)
    <3> DEFINE i == Incoming(p).add_data
    <3>1. i \in Ids /\ ~ Used(i)
      BY <1>1, <2>1, CreatesNew
    <3>2. p \in Actors /\ nodeId[p] # NoId
      BY <2>1, IncomingFacts, MessageAssumption DEF Creates, Receives, Inv, NoId
    <3>3. Births(p, i) \/ LosesOnly
      BY <1>3, <2>1, <3>1, CreatesShape
    <3> HIDE DEF i
    <3> QED
      BY <1>2, <1>3, <3>1, <3>2, <3>3, LinesGrow DEF LosesOnly
  <2> QED
    BY <1>4, <1>5, <2>1, NodeShape DEF Inv, Moves
<1>6. CASE UserCommand
  <2>1. ASSUME NEW c \in Ids, NEW parent \in NodeIds, CreateCommand(c, parent)
        PROVE  \E E, New : Lines(E, New)' /\ LinesStay(D, Line, E, New)
    <3>1. ~ Used(c)
      BY <1>1, <2>1, UnaskedUnused DEF CreateCommand
    <3>2. Control \in Actors /\ Control \notin Pids
      BY LinkAssumption DEF Actors, Control
    <3>3. UNCHANGED <<nodeId, owner>> \/ Births(Control, c) \/ LosesOnly
      BY <1>3, <2>1, RootShape
      DEF CreateCommand, BroadcastMessage, SendToChildren
    <3> QED
      BY <1>2, <1>3, <1>4, <3>1, <3>2, <3>3, LinesGrow DEF LosesOnly
  <2>2. CASE ~ \E c \in Ids, parent \in NodeIds : CreateCommand(c, parent)
    BY <1>4, <1>6, <2>2, OtherCommandSends DEF OtherRequest, SendToChildren
  <2> QED
    BY <2>1, <2>2
<1>7. CASE Others
  BY <1>2, <1>7, OthersShrink DEF LosesOnly
<1> QED
  BY <1>5, <1>6, <1>7 DEF Next, Others

OnLines(Q, id, Line) ==
  \A p \in Pids : \A n \in DOMAIN Q[p] : IsRead(Q[p][n]) \/ IsWrite(Q[p][n]) =>
    \E r \in Pids : id[r] = Q[p][n].id /\ p \in Line[r]

Ahead(Q, D) ==
  \A f, w \in Pids : \A k \in DOMAIN Q[f], n \in DOMAIN Q[w] :
    Older(Q[w][n], Q[f][k]) \/ D[f] < D[w] \/ (f = w /\ k < n)

\* What is in order stays so when another process is born.
LEMMA OrderStays ==
  ASSUME Inv, Inv', IdsKept, NEW D, NEW Line, Lines(D, Line), NEW E, NEW New,
         LinesStay(D, Line, E, New), NEW Q \in [Pids -> Seq(Reply)], NEW ack,
         InOrder(Q, ack, D, Line), NEW id, id = nodeId'
  PROVE  OnLines(Q, id, New) /\ Ahead(Q, E)
<1>1. ASSUME NEW p \in Pids, NEW n \in DOMAIN Q[p], IsRead(Q[p][n]) \/ IsWrite(Q[p][n])
      PROVE  /\ \E r \in Pids : id[r] = Q[p][n].id /\ p \in New[r]
             /\ E[p] = D[p]
  <2>1. PICK r \in Pids : nodeId[r] = Q[p][n].id /\ p \in Line[r]
    BY <1>1 DEF InOrder, OnLine
  <2>2. Q[p][n].id \in Ids
    BY <1>1 DEF Reply, IsRead, IsWrite
  <2>3. nodeId[r] # NoId
    BY <2>1, <2>2, MessageAssumption DEF NoId
  <2>4. id[r] = Q[p][n].id /\ p \in New[r]
    BY <2>1, <2>3 DEF IdsKept, LinesStay
  <2>5. nodeId[p] # NoId
    BY <2>1 DEF Lines
  <2> QED
    BY <2>4, <2>5 DEF LinesStay
<1>2. ASSUME NEW f \in Pids, NEW w \in Pids, NEW k \in DOMAIN Q[f], NEW n \in DOMAIN Q[w]
      PROVE  Older(Q[w][n], Q[f][k]) \/ E[f] < E[w] \/ (f = w /\ k < n)
  <2>1. Older(Q[w][n], Q[f][k]) \/ D[f] < D[w] \/ (f = w /\ k < n)
    BY DEF InOrder
  <2>2. CASE IsRead(Q[f][k]) /\ IsWrite(Q[w][n])
    BY <1>1, <2>1, <2>2
  <2>3. CASE ~ (IsRead(Q[f][k]) /\ IsWrite(Q[w][n]))
    BY <2>3 DEF Older
  <2> QED
    BY <2>2, <2>3
<1> QED
  BY <1>1, <1>2 DEF OnLines, Ahead

\* A key is cut before it is sent.
LEMMA NamedStep ==
  ASSUME Inv, down \in [Pids -> Seq(Named)], [Next]_vars
  PROVE  down' \in [Pids -> Seq(Named)]
<1>1. CASE UserCommand
  <2>1. \A c \in Ids, parent \in NodeIds \ {Root} : Msg("Create", parent, c) \in Named
    BY MessageAssumption DEF Msg, Named, Request
  <2>2. ASSUME NEW i \in NodeIds, NEW k \in Keys
        PROVE  /\ MsgVal("ExecAdd", i, requests + 1, k) \in Named
               /\ MsgVal("ExecFnd", i, -1, k) \in Named
    <3>1. requests + 1 \in Nat /\ Stored[k] \in Keys /\ Stored[Stored[k]] = Stored[k]
      BY MessageAssumption DEF Inv, ControlInv, ControlTypeOK
    <3> QED
      BY <3>1 DEF MsgVal, Named, Request
  <2>3. \A i \in NodeIds : Msg("Ping", i, 0) \in Named
    BY MessageAssumption DEF Msg, Named, Request
  <2>4. \A time \in Periods : Msg("HeartBeat", Root, time) \in Named
    BY MessageAssumption DEF Msg, Named, Request
  <2> QED
    BY <1>1, <2>1, <2>2, <2>3, <2>4, UserCommandDown DEF Inv, LinkInv
<1> QED
  BY <1>1, NodeStepDown, OtherDown DEF Next, Inv, LinkInv

ReadInv(D, Line) ==
  /\ Lines(D, Line)
  /\ InOrder(up, acked, D, Line)
  /\ down \in [Pids -> Seq(Named)]

CarefulReadInv == Careful => \E D, Line : ReadInv(D, Line)

\* At the start nothing is under way.
LEMMA CarefulReadInit == Init => CarefulReadInv
<1> SUFFICES ASSUME Init
             PROVE  ReadInv([p \in Pids |-> 0], [p \in Pids |-> {}])
  BY DEF CarefulReadInv
<1>1. /\ \A p \in Pids : nodeId[p] = NoId /\ up[p] = <<>>
      /\ down \in [Pids -> Seq(Named)]
  BY EmptySeq DEF Init, LinkInit
<1>2. \A a \in Pids \cup {Control} : ChildProcs(a) = {}
  BY <1>1, MessageAssumption DEF ChildProcs, Children, NoId
<1> QED
  BY <1>1, <1>2 DEF ReadInv, Lines, InOrder

LEMMA CarefulReadStep ==
  ASSUME Inv, Inv', CarefulInv, CarefulWriteInv, CarefulReadInv, [Next]_vars
  PROVE  CarefulReadInv'
<1> SUFFICES ASSUME Careful
             PROVE  \E D, Line : ReadInv(D, Line)'
  BY DEF CarefulReadInv
<1>1. /\ AskedOnce /\ AckedInv /\ IdsKept
      /\ \E D, Line : ReadInv(D, Line)
  BY NextKeepsIds DEF CarefulInv, CarefulWriteInv, CarefulReadInv
<1>2. OneEach
  BY <1>1 DEF AskedOnce, OnceInv
<1>3. PICK D, Line : ReadInv(D, Line)
  BY <1>1
<1>4. PICK E, New : Lines(E, New)' /\ LinesStay(D, Line, E, New)
  BY <1>1, <1>3, LinesStep DEF ReadInv
<1>5. InOrder(up', acked', D, Line)
  BY <1>1, <1>2, <1>3, UpInOrder DEF ReadInv
<1>6. PICK Q : Q = up'
  OBVIOUS
<1>7. PICK ack : ack = acked'
  OBVIOUS
<1>8. PICK id : id = nodeId'
  OBVIOUS
<1>9. Q \in [Pids -> Seq(Reply)] /\ InOrder(Q, ack, D, Line)
  BY <1>5, <1>6, <1>7 DEF Inv, LinkInv, LinkTypeOK
<1>10. OnLines(Q, id, New) /\ Ahead(Q, E)
  <2>1. Lines(D, Line)
    BY <1>3 DEF ReadInv
  <2> QED
    BY ONLY Inv, Inv', <1>1, <1>4, <1>8, <1>9, <2>1, OrderStays
<1>11. \A p \in Pids : \A n \in DOMAIN Q[p] : Fresh(Q[p][n], ack)
  BY <1>9 DEF InOrder
<1>12. InOrder(up, acked, E, New)'
  BY <1>6, <1>7, <1>8, <1>10, <1>11 DEF InOrder, OnLine, OnLines, Ahead
<1>13. down' \in [Pids -> Seq(Named)]
  BY <1>3, NamedStep DEF ReadInv
<1> QED
  BY <1>4, <1>12, <1>13 DEF ReadInv

LEMMA SpecCarefulReadInv == Spec => []CarefulReadInv
<1>1. Spec => []Inv /\ []CarefulInv /\ []CarefulWriteInv
  BY SpecInv, SpecCarefulInv, SpecCarefulWriteInv
<1>2. Inv /\ Inv' /\ CarefulInv /\ CarefulWriteInv /\ CarefulReadInv /\ [Next]_vars
        => CarefulReadInv'
  BY CarefulReadStep
<1> QED
  BY <1>1, <1>2, CarefulReadInit, PTL DEF Spec

(***************************************************************************)
(* If the user never asks twice for a node, no answer to a find is older   *)
(* than a write of the same key that was acknowledged before it, whatever  *)
(* is lost or killed: the answer was sent after the write, or it arrives   *)
(* before the acknowledgement does (nodes.cpp:112-125, control.cpp:26-39). *)
(***************************************************************************)
THEOREM ReadsNeverOlder == Spec => ReadsSeeAckedWrites
<1>1. ASSUME Inv, CarefulReadInv, Careful, NEW q \in Pids, FindAnswered(q)
      PROVE  NotOlder(Answer(q))
  <2>1. PICK D, Line : InOrder(up, acked, D, Line)
    BY <1>1 DEF CarefulReadInv, ReadInv
  <2>2. /\ up[q] \in Seq(Reply) /\ up[q] # <<>>
        /\ Answer(q).command \in {"ExecFnd", "ExecErr"}
    BY <1>1 DEF FindAnswered, ControlReceives, Readable, Inv, LinkInv, LinkTypeOK
  <2>3. 1 \in DOMAIN up[q] /\ up[q][1] = Answer(q)
    BY <2>2 DEF Answer
  <2>4. Fresh(Answer(q), acked)
    BY <2>1, <2>3 DEF InOrder
  <2> QED
    BY <2>2, <2>4 DEF Fresh, IsRead, Seen, NotOlder
<1>2. Inv /\ CarefulReadInv /\ [Next]_vars
        => [Careful => \A q \in Pids : FindAnswered(q) => NotOlder(Answer(q))]_vars
  BY <1>1
<1>3. Spec => []Inv /\ []CarefulReadInv
  BY SpecInv, SpecCarefulReadInv
<1> QED
  BY <1>2, <1>3, PTL DEF Spec, ReadsSeeAckedWrites

-----------------------------------------------------------------------------
(***************************************************************************)
(* Answers and the requests that wait for them.  An answer is matched with *)
(* a pending request of its kind, and so is every request that may still   *)
(* be answered: one on its way to the process of its node.  Way[i] holds   *)
(* the processes on the way to node i.  No pending request is matched      *)
(* twice.                                                                  *)
(***************************************************************************)
Kind(m) == <<m.command, IF m.command = "Create" THEN m.add_data ELSE m.id>>
AnswerKind(m) == <<IF m.command = "ExecErr" THEN "ExecFnd" ELSE m.command, m.id>>

Counts(m) == m.command # "HeartBeat"
Open(m, p, Way) == Counts(m) /\ p \in Way[m.id]

Waits(P, x, kind) == x \in DOMAIN P /\ Kind(P[x].msg) = kind

\* u[p][n] is what the n-th answer of p is matched with, d[p][n] what the
\* n-th request to p is.
Matching == [Pids -> [Nat -> Nat]]

UpWaits(Q, P, u) ==
  \A p \in Pids : \A n \in DOMAIN Q[p] :
    Counts(Q[p][n]) => Waits(P, u[p][n], AnswerKind(Q[p][n]))

DownWaits(S, P, Way, d) ==
  \A p \in Pids : \A n \in DOMAIN S[p] :
    Open(S[p][n], p, Way) => Waits(P, d[p][n], Kind(S[p][n]))

UpOnce(Q, u) ==
  \A p, q \in Pids : \A n \in DOMAIN Q[p], k \in DOMAIN Q[q] :
    Counts(Q[p][n]) /\ Counts(Q[q][k]) /\ u[p][n] = u[q][k] => p = q /\ n = k

DownOnce(S, Way, d) ==
  \A p, q \in Pids : \A n \in DOMAIN S[p], k \in DOMAIN S[q] :
    Open(S[p][n], p, Way) /\ Open(S[q][k], q, Way) /\ d[p][n] = d[q][k]
      => p = q /\ n = k

Apart(Q, S, Way, u, d) ==
  \A p, q \in Pids : \A n \in DOMAIN Q[p], k \in DOMAIN S[q] :
    Counts(Q[p][n]) /\ Open(S[q][k], q, Way) => u[p][n] # d[q][k]

Match(Q, S, P, Way, u, d) ==
  /\ u \in Matching /\ d \in Matching
  /\ UpWaits(Q, P, u) /\ DownWaits(S, P, Way, d)
  /\ UpOnce(Q, u) /\ DownOnce(S, Way, d)
  /\ Apart(Q, S, Way, u, d)

UpFree(x, Q, u) ==
  \A p \in Pids : \A n \in DOMAIN Q[p] : Counts(Q[p][n]) => u[p][n] # x

DownFree(x, S, Way, d) ==
  \A p \in Pids : \A n \in DOMAIN S[p] : Open(S[p][n], p, Way) => d[p][n] # x

Matched(Q, S, P, Way) == \E u, d : Match(Q, S, P, Way, u, d)

\* There is a pending request of this kind that is matched with nothing.
Spare(Q, S, P, Way, kind) ==
  \E u, d : \E x \in Nat :
    /\ Match(Q, S, P, Way, u, d)
    /\ Waits(P, x, kind) /\ UpFree(x, Q, u) /\ DownFree(x, S, Way, d)

\* Each of these queues is the first part of the other.
Begins(V, S) ==
  \A p \in Pids : \A n \in DOMAIN V[p] : n \in DOMAIN S[p] /\ V[p][n] = S[p][n]

LEMMA CloseBegins ==
  ASSUME LinkTypeOK, NEW a, NEW kept, Closes(a, kept)
  PROVE  Begins(down', down)
<1>1. PICK sent : CloseSockets(a, kept, sent) /\ FirstParts(sent)
  BY DEF Closes
<1> SUFFICES ASSUME NEW p \in Pids, NEW n \in DOMAIN down'[p]
             PROVE  n \in DOMAIN down[p] /\ down'[p][n] = down[p][n]
  BY DEF Begins
<1>2. down[p] \in Seq(Request)
  BY DEF LinkTypeOK
<1>3. PICK m \in 0 .. Len(down[p]) : sent[p] = SubSeq(down[p], 1, m)
  BY <1>1 DEF FirstParts
<1>4. down'[p] = IF p = a THEN <<>> ELSE sent[p]
  BY <1>1 DEF CloseSockets
<1>5. p # a
  <2>1. DOMAIN <<>> = {}
    OBVIOUS
  <2> QED
    BY <1>4, <2>1
<1> QED
  BY <1>2, <1>3, <1>4, <1>5

\* What is left of the queues is matched as it was.
LEMMA MatchedShorter ==
  ASSUME NEW P, NEW Way, NEW Q \in [Pids -> Seq(Reply)], NEW S \in [Pids -> Seq(Request)],
         Matched(Q, S, P, Way),
         NEW R \in [Pids -> Seq(Reply)], Shorter(R, Q),
         NEW V \in [Pids -> Seq(Request)], Begins(V, S)
  PROVE  Matched(R, V, P, Way)
<1>1. PICK u, d : Match(Q, S, P, Way, u, d)
  BY DEF Matched
<1>2. PICK s \in [Pids -> Nat] : \A p \in Pids : \A n \in DOMAIN R[p] :
        n + s[p] \in DOMAIN Q[p] /\ R[p][n] = Q[p][n + s[p]]
  <2>1. \A p \in Pids : \E i \in Nat : \A n \in DOMAIN R[p] :
          n + i \in DOMAIN Q[p] /\ R[p][n] = Q[p][n + i]
    BY DEF Shorter
  <2> DEFINE f == [p \in Pids |-> CHOOSE i \in Nat : \A n \in DOMAIN R[p] :
          n + i \in DOMAIN Q[p] /\ R[p][n] = Q[p][n + i]]
  <2>3. f \in [Pids -> Nat] /\ \A p \in Pids : \A n \in DOMAIN R[p] :
          n + f[p] \in DOMAIN Q[p] /\ R[p][n] = Q[p][n + f[p]]
    BY <2>1
  <2> QED
    BY <2>3
<1>3. PICK v : v = [p \in Pids |-> [n \in Nat |-> u[p][n + s[p]]]]
  OBVIOUS
<1>4. /\ \A p \in Pids : \A n \in DOMAIN R[p] : n \in Nat
      /\ \A p \in Pids : s[p] \in Nat
      /\ u \in Matching /\ d \in Matching
  BY <1>1 DEF Match
<1>5. /\ v \in Matching
      /\ \A p \in Pids : \A n \in Nat : v[p][n] = u[p][n + s[p]]
  <2>1. \A p \in Pids : \A n \in Nat : u[p][n + s[p]] \in Nat
    <3>1. \A p \in Pids : \A n \in Nat : n + s[p] \in Nat
      BY <1>4
    <3>2. \A p \in Pids : u[p] \in [Nat -> Nat]
      BY <1>4 DEF Matching
    <3> QED
      BY <3>1, <3>2
  <2>2. \A p \in Pids : v[p] = [n \in Nat |-> u[p][n + s[p]]]
    BY <1>3
  <2>3. ASSUME NEW p \in Pids
        PROVE  v[p] \in [Nat -> Nat]
    <3>1. \A n \in Nat : u[p][n + s[p]] \in Nat
      BY <2>1
    <3>2. [n \in Nat |-> u[p][n + s[p]]] \in [Nat -> Nat]
      BY <3>1
    <3>3. v[p] = [n \in Nat |-> u[p][n + s[p]]]
      BY <2>2
    <3> QED
      BY <3>2, <3>3, Zenon
  <2>4. v = [p \in Pids |-> v[p]]
    BY <1>3
  <2>5. v \in Matching
    BY <2>3, <2>4 DEF Matching
  <2>6. ASSUME NEW p \in Pids, NEW n \in Nat
        PROVE  v[p][n] = u[p][n + s[p]]
    BY <2>2
  <2> QED
    BY <2>5, <2>6
<1>6. \A p \in Pids : \A n \in DOMAIN V[p] : n \in DOMAIN S[p] /\ V[p][n] = S[p][n]
  BY DEF Begins
<1>7. \A p \in Pids : \A n \in DOMAIN R[p] : \E i \in DOMAIN Q[p] :
        R[p][n] = Q[p][i] /\ v[p][n] = u[p][i] /\ i = n + s[p]
  BY <1>2, <1>4, <1>5
<1>8. UpWaits(R, P, v)
  <2>1. UpWaits(Q, P, u)
    BY <1>1 DEF Match
  <2> QED
    BY <2>1, <1>7 DEF UpWaits
<1>9. DownWaits(V, P, Way, d)
  <2>1. DownWaits(S, P, Way, d)
    BY <1>1 DEF Match
  <2> QED
    BY <2>1, <1>6 DEF DownWaits
<1>10. UpOnce(R, v)
  <2>1. UpOnce(Q, u)
    BY <1>1 DEF Match
  <2>2. ASSUME NEW p \in Pids, NEW q \in Pids, NEW n \in DOMAIN R[p], NEW k \in DOMAIN R[q],
               Counts(R[p][n]), Counts(R[q][k]), v[p][n] = v[q][k]
        PROVE  p = q /\ n = k
    <3>1. PICK i \in DOMAIN Q[p] : R[p][n] = Q[p][i] /\ v[p][n] = u[p][i] /\ i = n + s[p]
      BY <1>7
    <3>2. PICK j \in DOMAIN Q[q] : R[q][k] = Q[q][j] /\ v[q][k] = u[q][j] /\ j = k + s[q]
      BY <1>7
    <3>3. p = q /\ i = j
      BY <2>1, <2>2, <3>1, <3>2 DEF UpOnce
    <3> QED
      BY <3>1, <3>2, <3>3, <1>4
  <2> QED
    BY <2>2 DEF UpOnce
<1>11. DownOnce(V, Way, d)
  <2>1. DownOnce(S, Way, d)
    BY <1>1 DEF Match
  <2> QED
    BY <2>1, <1>6 DEF DownOnce
<1>12. Apart(R, V, Way, v, d)
  <2>1. Apart(Q, S, Way, u, d)
    BY <1>1 DEF Match
  <2> QED
    BY <2>1, <1>6, <1>7 DEF Apart
<1>13. Match(R, V, P, Way, v, d)
  BY <1>4, <1>5, <1>8, <1>9, <1>10, <1>11, <1>12 DEF Match
<1> QED
  BY <1>13 DEF Matched

\* R is Q without the oldest message of q, and v says of its places what u
\* says of those of Q.
Follows(R, v, Q, u, q) ==
  \A p \in Pids : \A n \in DOMAIN R[p] : \E i \in DOMAIN Q[p] :
    /\ R[p][n] = Q[p][i] /\ v[p][n] = u[p][i]
    /\ n = IF p = q THEN i - 1 ELSE i
    /\ p = q => i # 1

\* The oldest message of q is the first; the places of the others move up.
LEMMA PopPlaces ==
  ASSUME NEW M, NEW Q \in [Pids -> Seq(M)], NEW q \in Pids, Q[q] # <<>>,
         NEW u \in Matching
  PROVE  /\ 1 \in DOMAIN Q[q] /\ Head(Q[q]) = Q[q][1]
         /\ \E v \in Matching : Follows(Pop(q, Q), v, Q, u, q)
<1>1. Pop(q, Q)[q] = Tail(Q[q]) /\ \A p \in Pids : p # q => Pop(q, Q)[p] = Q[p]
  BY DEF Pop
<1>2. Len(Tail(Q[q])) = Len(Q[q]) - 1 /\ Len(Q[q]) > 0 /\ Len(Q[q]) \in Nat
  OBVIOUS
<1>3. 1 \in DOMAIN Q[q] /\ Head(Q[q]) = Q[q][1]
  BY <1>2
<1>4. \A n \in DOMAIN Pop(q, Q)[q] :
        n \in Nat /\ n > 0 /\ n + 1 \in DOMAIN Q[q] /\ Pop(q, Q)[q][n] = Q[q][n + 1]
  BY <1>1, <1>2
<1>5. PICK v : v = [u EXCEPT ![q] = [n \in Nat |-> u[q][n + 1]]]
  OBVIOUS
<1>6. /\ v \in Matching
      /\ \A p \in Pids : p # q => v[p] = u[p]
      /\ \A n \in Nat : v[q][n] = u[q][n + 1]
  <2>1. \A n \in Nat : u[q][n + 1] \in Nat
    BY DEF Matching
  <2>2. PICK w : w = [n \in Nat |-> u[q][n + 1]]
    OBVIOUS
  <2>3. w \in [Nat -> Nat] /\ \A n \in Nat : w[n] = u[q][n + 1]
    BY <2>1, <2>2
  <2>4. v = [u EXCEPT ![q] = w]
    BY <1>5, <2>2
  <2> QED
    BY <2>3, <2>4 DEF Matching
<1>7. ASSUME NEW p \in Pids, NEW n \in DOMAIN Pop(q, Q)[p]
      PROVE  \E i \in DOMAIN Q[p] :
                /\ Pop(q, Q)[p][n] = Q[p][i] /\ v[p][n] = u[p][i]
                /\ n = IF p = q THEN i - 1 ELSE i
                /\ p = q => i # 1
  <2>1. CASE p = q
    <3>1. n + 1 \in DOMAIN Q[p] /\ n + 1 # 1 /\ n = n + 1 - 1
      BY <1>4, <2>1
    <3>2. n \in Nat
      BY <1>4, <2>1
    <3>3. Pop(q, Q)[q][n] = Q[q][n + 1] /\ v[q][n] = u[q][n + 1]
      <4>1. Pop(q, Q)[q][n] = Q[q][n + 1]
        BY <1>4, <2>1
      <4>2. v[q][n] = u[q][n + 1]
        BY <1>6, <3>2
      <4> QED
        BY <4>1, <4>2
    <3>4. Pop(q, Q)[p][n] = Q[p][n + 1] /\ v[p][n] = u[p][n + 1]
      BY <2>1, <3>3, Zenon
    <3>5. PICK i : i = n + 1
      OBVIOUS
    <3>6. n = i - 1 /\ i # 1
      BY <3>1, <3>2, <3>5
    <3>7. i \in DOMAIN Q[p] /\ Pop(q, Q)[p][n] = Q[p][i] /\ v[p][n] = u[p][i]
      BY <3>1, <3>4, <3>5, Zenon
    <3> QED
      BY <2>1, <3>6, <3>7
  <2>2. CASE p # q
    BY <1>1, <1>6, <2>2
  <2> QED
    BY <2>1, <2>2
<1> QED
  BY <1>3, <1>6, <1>7 DEF Follows

\* The oldest answer of q is taken: what it was matched with is free.
LEMMA PopUp ==
  ASSUME NEW P, NEW Way, NEW Q \in [Pids -> Seq(Reply)], NEW S,
         Matched(Q, S, P, Way), NEW q \in Pids, Q[q] # <<>>, Counts(Head(Q[q]))
  PROVE  Spare(Pop(q, Q), S, P, Way, AnswerKind(Head(Q[q])))
<1>1. PICK u, d : Match(Q, S, P, Way, u, d)
  BY DEF Matched
<1>2. PICK R : R = Pop(q, Q)
  OBVIOUS
<1>3. u \in Matching /\ d \in Matching
  BY <1>1 DEF Match
<1>4. 1 \in DOMAIN Q[q] /\ Head(Q[q]) = Q[q][1]
  BY <1>3, PopPlaces
<1>5. PICK v \in Matching : \A p \in Pids : \A n \in DOMAIN R[p] :
              \E i \in DOMAIN Q[p] :
                /\ R[p][n] = Q[p][i] /\ v[p][n] = u[p][i]
                /\ n = IF p = q THEN i - 1 ELSE i
                /\ p = q => i # 1
  <2>1. \E v \in Matching : Follows(Pop(q, Q), v, Q, u, q)
    BY <1>3, PopPlaces
  <2>2. PICK v \in Matching : Follows(R, v, Q, u, q)
    BY <1>2, <2>1, Zenon
  <2> QED
    BY <2>2 DEF Follows
<1>6. PICK x : x = u[q][1]
  OBVIOUS
<1>7. Waits(P, x, AnswerKind(Head(Q[q]))) /\ UpWaits(R, P, v)
  <2>1. UpWaits(Q, P, u)
    BY <1>1 DEF Match
  <2>2. Waits(P, x, AnswerKind(Head(Q[q])))
    BY <2>1, <1>4, <1>6 DEF UpWaits
  <2>3. UpWaits(R, P, v)
    BY <2>1, <1>5 DEF UpWaits
  <2> QED
    BY <2>2, <2>3
<1>8. x \in Nat
  BY <1>3, <1>6 DEF Matching
<1>9. UpOnce(R, v) /\ UpFree(x, R, v)
  <2>1. UpOnce(Q, u)
    BY <1>1 DEF Match
  <2>2. ASSUME NEW p \in Pids, NEW r \in Pids, NEW n \in DOMAIN R[p], NEW k \in DOMAIN R[r],
               Counts(R[p][n]), Counts(R[r][k]), v[p][n] = v[r][k]
        PROVE  p = r /\ n = k
    <3>1. PICK i \in DOMAIN Q[p] : /\ R[p][n] = Q[p][i] /\ v[p][n] = u[p][i]
                                   /\ n = IF p = q THEN i - 1 ELSE i
      BY <1>5
    <3>2. PICK j \in DOMAIN Q[r] : /\ R[r][k] = Q[r][j] /\ v[r][k] = u[r][j]
                                   /\ k = IF r = q THEN j - 1 ELSE j
      BY <1>5
    <3>3. Counts(Q[p][i]) /\ Counts(Q[r][j]) /\ u[p][i] = u[r][j]
      BY <2>2, <3>1, <3>2
    <3>4. p = r /\ i = j
      BY <2>1, <3>1, <3>2, <3>3 DEF UpOnce
    <3> QED
      BY <3>1, <3>2, <3>4
  <2>3. ASSUME NEW p \in Pids, NEW n \in DOMAIN R[p], Counts(R[p][n]), v[p][n] = x
        PROVE  FALSE
    <3>1. PICK i \in DOMAIN Q[p] : /\ R[p][n] = Q[p][i] /\ v[p][n] = u[p][i]
                                   /\ p = q => i # 1
      BY <1>5
    <3>2. Counts(Q[p][i]) /\ Counts(Q[q][1]) /\ u[p][i] = u[q][1]
      BY <2>3, <3>1, <1>4, <1>6
    <3>3. p = q /\ i = 1
      BY <2>1, <3>1, <3>2, <1>4 DEF UpOnce
    <3> QED
      BY <3>1, <3>3
  <2> QED
    BY <2>2, <2>3 DEF UpOnce, UpFree
<1>10. Apart(R, S, Way, v, d) /\ DownFree(x, S, Way, d)
  <2>1. Apart(Q, S, Way, u, d)
    BY <1>1 DEF Match
  <2>2. Apart(R, S, Way, v, d)
    BY <2>1, <1>5 DEF Apart
  <2>3. DownFree(x, S, Way, d)
    BY <2>1, <1>4, <1>6 DEF Apart, DownFree
  <2> QED
    BY <2>2, <2>3
<1>11. Match(R, S, P, Way, v, d)
  BY <1>1, <1>7, <1>9, <1>10 DEF Match
<1> QED
  BY <1>2, <1>7, <1>8, <1>9, <1>10, <1>11 DEF Spare

\* The oldest request to q is taken: so it is, if it was on its way.
LEMMA PopDown ==
  ASSUME NEW P, NEW Way, NEW Q, NEW S \in [Pids -> Seq(Request)],
         Matched(Q, S, P, Way), NEW q \in Pids, S[q] # <<>>
  PROVE  /\ Matched(Q, Pop(q, S), P, Way)
         /\ Open(Head(S[q]), q, Way) => Spare(Q, Pop(q, S), P, Way, Kind(Head(S[q])))
<1>1. PICK u, d : Match(Q, S, P, Way, u, d)
  BY DEF Matched
<1>2. PICK R : R = Pop(q, S)
  OBVIOUS
<1>3. u \in Matching /\ d \in Matching
  BY <1>1 DEF Match
<1>4. 1 \in DOMAIN S[q] /\ Head(S[q]) = S[q][1]
  BY <1>3, PopPlaces
<1>5. PICK v \in Matching : \A p \in Pids : \A n \in DOMAIN R[p] :
              \E i \in DOMAIN S[p] :
                /\ R[p][n] = S[p][i] /\ v[p][n] = d[p][i]
                /\ n = IF p = q THEN i - 1 ELSE i
                /\ p = q => i # 1
  <2>1. \E v \in Matching : Follows(Pop(q, S), v, S, d, q)
    BY <1>3, PopPlaces
  <2>2. PICK v \in Matching : Follows(R, v, S, d, q)
    BY <1>2, <2>1, Zenon
  <2> QED
    BY <2>2 DEF Follows
<1>6. PICK x : x = d[q][1]
  OBVIOUS
<1>7. (Open(Head(S[q]), q, Way) => Waits(P, x, Kind(Head(S[q])))) /\ DownWaits(R, P, Way, v)
  <2>1. DownWaits(S, P, Way, d)
    BY <1>1 DEF Match
  <2>2. Open(Head(S[q]), q, Way) => Waits(P, x, Kind(Head(S[q])))
    BY <2>1, <1>4, <1>6 DEF DownWaits
  <2>3. DownWaits(R, P, Way, v)
    BY <2>1, <1>5 DEF DownWaits
  <2> QED
    BY <2>2, <2>3
<1>8. x \in Nat
  BY <1>3, <1>6 DEF Matching
<1>9. DownOnce(R, Way, v) /\ (Open(Head(S[q]), q, Way) => DownFree(x, R, Way, v))
  <2>1. DownOnce(S, Way, d)
    BY <1>1 DEF Match
  <2>2. ASSUME NEW p \in Pids, NEW r \in Pids, NEW n \in DOMAIN R[p], NEW k \in DOMAIN R[r],
               Open(R[p][n], p, Way), Open(R[r][k], r, Way), v[p][n] = v[r][k]
        PROVE  p = r /\ n = k
    <3>1. PICK i \in DOMAIN S[p] : /\ R[p][n] = S[p][i] /\ v[p][n] = d[p][i]
                                   /\ n = IF p = q THEN i - 1 ELSE i
      BY <1>5
    <3>2. PICK j \in DOMAIN S[r] : /\ R[r][k] = S[r][j] /\ v[r][k] = d[r][j]
                                   /\ k = IF r = q THEN j - 1 ELSE j
      BY <1>5
    <3>3. Open(S[p][i], p, Way) /\ Open(S[r][j], r, Way) /\ d[p][i] = d[r][j]
      BY <2>2, <3>1, <3>2
    <3>4. p = r /\ i = j
      BY <2>1, <3>1, <3>2, <3>3 DEF DownOnce
    <3> QED
      BY <3>1, <3>2, <3>4
  <2>3. ASSUME Open(Head(S[q]), q, Way),
               NEW p \in Pids, NEW n \in DOMAIN R[p], Open(R[p][n], p, Way), v[p][n] = x
        PROVE  FALSE
    <3>1. PICK i \in DOMAIN S[p] : /\ R[p][n] = S[p][i] /\ v[p][n] = d[p][i]
                                   /\ p = q => i # 1
      BY <1>5
    <3>2. Open(S[p][i], p, Way) /\ Open(S[q][1], q, Way) /\ d[p][i] = d[q][1]
      BY <2>3, <3>1, <1>4, <1>6
    <3>3. p = q /\ i = 1
      BY <2>1, <3>1, <3>2, <1>4 DEF DownOnce
    <3> QED
      BY <3>1, <3>3
  <2> QED
    BY <2>2, <2>3 DEF DownOnce, DownFree
<1>10. Apart(Q, R, Way, u, v) /\ (Open(Head(S[q]), q, Way) => UpFree(x, Q, u))
  <2>1. Apart(Q, S, Way, u, d)
    BY <1>1 DEF Match
  <2>2. Apart(Q, R, Way, u, v)
    BY <2>1, <1>5 DEF Apart
  <2>3. Open(Head(S[q]), q, Way) => UpFree(x, Q, u)
    BY <2>1, <1>4, <1>6 DEF Apart, UpFree
  <2> QED
    BY <2>2, <2>3
<1>11. Match(Q, R, P, Way, u, v)
  BY <1>1, <1>7, <1>9, <1>10 DEF Match
<1> QED
  BY <1>2, <1>7, <1>8, <1>9, <1>10, <1>11 DEF Spare, Matched

\* m is new at the end of some queues of T.
Fed(R, v, Q, u, T, m, x) ==
  \A p \in Pids : \A n \in DOMAIN R[p] :
    \/ n \in DOMAIN Q[p] /\ R[p][n] = Q[p][n] /\ v[p][n] = u[p][n]
    \/ p \in T /\ n = Len(Q[p]) + 1 /\ R[p][n] = m /\ v[p][n] = x

\* A message that is added matches x, the others what they matched.
LEMMA FedPlaces ==
  ASSUME NEW M, NEW Q \in [Pids -> Seq(M)], NEW T, NEW m \in M,
         NEW u \in Matching, NEW x \in Nat,
         NEW R, \A p \in Pids : R[p] = Q[p] \/ (p \in T /\ R[p] = Append(Q[p], m))
  PROVE  \E v \in Matching : Fed(R, v, Q, u, T, m, x)
<1>1. PICK v : v = [p \in Pids |-> [n \in Nat |-> IF n \in DOMAIN Q[p] THEN u[p][n] ELSE x]]
  OBVIOUS
<1>2. \A p \in Pids : v[p] = [n \in Nat |-> IF n \in DOMAIN Q[p] THEN u[p][n] ELSE x]
  BY <1>1
<1>3. \A p \in Pids : \A n \in Nat : u[p][n] \in Nat
  BY DEF Matching
<1>4. \A p \in Pids : v[p] \in [Nat -> Nat]
  <2>1. ASSUME NEW p \in Pids PROVE v[p] \in [Nat -> Nat]
    <3>1. \A n \in Nat : (IF n \in DOMAIN Q[p] THEN u[p][n] ELSE x) \in Nat
      BY <1>3
    <3> QED
      BY <1>2, <3>1
  <2> QED
    BY <2>1
<1>5. v \in Matching
  <2>1. v = [p \in Pids |-> v[p]]
    BY <1>1
  <2> QED
    BY <1>4, <2>1 DEF Matching
<1>6. ASSUME NEW p \in Pids, NEW n \in DOMAIN R[p]
      PROVE  \/ n \in DOMAIN Q[p] /\ R[p][n] = Q[p][n] /\ v[p][n] = u[p][n]
             \/ p \in T /\ n = Len(Q[p]) + 1 /\ R[p][n] = m /\ v[p][n] = x
  <2>1. Q[p] \in Seq(M) /\ DOMAIN Q[p] = 1 .. Len(Q[p]) /\ Len(Q[p]) \in Nat
    OBVIOUS
  <2>2. \/ n \in DOMAIN Q[p] /\ R[p][n] = Q[p][n] /\ n \in Nat
        \/ p \in T /\ n = Len(Q[p]) + 1 /\ n \notin DOMAIN Q[p] /\ R[p][n] = m /\ n \in Nat
    <3>1. CASE R[p] = Q[p]
      BY <2>1, <3>1
    <3>2. CASE p \in T /\ R[p] = Append(Q[p], m)
      BY <2>1, <3>2
    <3> QED
      BY <3>1, <3>2
  <2>3. n \in Nat => v[p][n] = IF n \in DOMAIN Q[p] THEN u[p][n] ELSE x
    BY <1>2
  <2> QED
    BY <2>2, <2>3
<1> QED
  BY <1>5, <1>6 DEF Fed

\* p sends up what does not count, or the answer to a request that is matched
\* with nothing.
LEMMA FeedUp ==
  ASSUME NEW P, NEW Way, NEW Q \in [Pids -> Seq(Reply)], NEW S,
         NEW p \in Pids, NEW m \in Reply,
         \/ Matched(Q, S, P, Way) /\ ~ Counts(m)
         \/ Spare(Q, S, P, Way, AnswerKind(m))
  PROVE  Matched(Send(p, m, Q), S, P, Way)
<1>1. PICK u, d : \E x \in Nat :
        /\ Match(Q, S, P, Way, u, d)
        /\ Counts(m) => /\ Waits(P, x, AnswerKind(m))
                        /\ UpFree(x, Q, u) /\ DownFree(x, S, Way, d)
  BY DEF Matched, Spare
<1>2. PICK x \in Nat :
        /\ Match(Q, S, P, Way, u, d)
        /\ Counts(m) => /\ Waits(P, x, AnswerKind(m))
                        /\ UpFree(x, Q, u) /\ DownFree(x, S, Way, d)
  BY <1>1
<1>3. PICK R : R = Send(p, m, Q)
  OBVIOUS
<1>4. u \in Matching /\ d \in Matching
  BY <1>2 DEF Match
<1>5. PICK v \in Matching : Fed(R, v, Q, u, {p}, m, x)
  <2>1. \A r \in Pids : R[r] = Q[r] \/ (r \in {p} /\ R[r] = Append(Q[r], m))
    BY <1>3 DEF Send
  <2> QED
    BY <1>4, <2>1, FedPlaces
<1>6. UpWaits(R, P, v)
  <2>1. UpWaits(Q, P, u)
    BY <1>2 DEF Match
  <2> QED
    BY <2>1, <1>2, <1>5 DEF UpWaits, Fed
<1>7. UpOnce(R, v)
  <2>1. UpOnce(Q, u)
    BY <1>2 DEF Match
  <2>2. SUFFICES ASSUME NEW a \in Pids, NEW b \in Pids, NEW n \in DOMAIN R[a],
                        NEW k \in DOMAIN R[b], Counts(R[a][n]), Counts(R[b][k]),
                        v[a][n] = v[b][k]
                 PROVE  a = b /\ n = k
    BY DEF UpOnce
  <2>3. /\ \/ n \in DOMAIN Q[a] /\ R[a][n] = Q[a][n] /\ v[a][n] = u[a][n]
           \/ a = p /\ n = Len(Q[p]) + 1 /\ R[a][n] = m /\ v[a][n] = x
        /\ \/ k \in DOMAIN Q[b] /\ R[b][k] = Q[b][k] /\ v[b][k] = u[b][k]
           \/ b = p /\ k = Len(Q[p]) + 1 /\ R[b][k] = m /\ v[b][k] = x
    BY <1>5 DEF Fed
  <2>4. Counts(m) => \A r \in Pids : \A i \in DOMAIN Q[r] : Counts(Q[r][i]) => u[r][i] # x
    BY <1>2 DEF UpFree
  <2>5. CASE n \in DOMAIN Q[a] /\ R[a][n] = Q[a][n] /\ v[a][n] = u[a][n]
    BY <2>1, <2>2, <2>3, <2>4, <2>5 DEF UpOnce
  <2>6. CASE a = p /\ n = Len(Q[p]) + 1 /\ R[a][n] = m /\ v[a][n] = x
    BY <2>2, <2>3, <2>4, <2>6
  <2> QED
    BY <2>3, <2>5, <2>6
<1>8. Apart(R, S, Way, v, d)
  <2>1. Apart(Q, S, Way, u, d)
    BY <1>2 DEF Match
  <2>2. Counts(m) => DownFree(x, S, Way, d)
    BY <1>2
  <2>3. SUFFICES ASSUME NEW a \in Pids, NEW b \in Pids, NEW n \in DOMAIN R[a],
                        NEW k \in DOMAIN S[b], Counts(R[a][n]), Open(S[b][k], b, Way)
                 PROVE  v[a][n] # d[b][k]
    BY DEF Apart
  <2>4. \/ n \in DOMAIN Q[a] /\ R[a][n] = Q[a][n] /\ v[a][n] = u[a][n]
        \/ R[a][n] = m /\ v[a][n] = x
    BY <1>5 DEF Fed
  <2> QED
    BY <2>1, <2>2, <2>3, <2>4 DEF Apart, DownFree
<1>9. Match(R, S, P, Way, v, d)
  BY <1>2, <1>6, <1>7, <1>8 DEF Match
<1> QED
  BY <1>3, <1>9 DEF Matched

\* A request is sent down to some processes, of which at most one is on the
\* way to its node.
LEMMA FeedDown ==
  ASSUME NEW P, NEW Way, NEW Q, NEW S \in [Pids -> Seq(Request)],
         NEW T \in SUBSET Pids, NEW m \in Request,
         \/ Matched(Q, S, P, Way) /\ \A q \in T : ~ Open(m, q, Way)
         \/ /\ Spare(Q, S, P, Way, Kind(m))
            /\ \A a, b \in T : Open(m, a, Way) /\ Open(m, b, Way) => a = b
  PROVE  Matched(Q, Broadcast(T, m, S), P, Way)
<1>1. \A a, b \in T : Open(m, a, Way) /\ Open(m, b, Way) => a = b
  OBVIOUS
<1>2. PICK u, d : \E x \in Nat :
        /\ Match(Q, S, P, Way, u, d)
        /\ \A q \in T : Open(m, q, Way) =>
             Waits(P, x, Kind(m)) /\ UpFree(x, Q, u) /\ DownFree(x, S, Way, d)
  BY DEF Matched, Spare
<1>3. PICK x \in Nat :
        /\ Match(Q, S, P, Way, u, d)
        /\ \A q \in T : Open(m, q, Way) =>
             Waits(P, x, Kind(m)) /\ UpFree(x, Q, u) /\ DownFree(x, S, Way, d)
  BY <1>2
<1>4. PICK R : R = Broadcast(T, m, S)
  OBVIOUS
<1>5. u \in Matching /\ d \in Matching
  BY <1>3 DEF Match
<1>6. PICK v \in Matching : Fed(R, v, S, d, T, m, x)
  <2>1. \A r \in Pids : R[r] = S[r] \/ (r \in T /\ R[r] = Append(S[r], m))
    BY <1>4 DEF Broadcast
  <2> QED
    BY <1>5, <2>1, FedPlaces
<1>7. DownWaits(R, P, Way, v)
  <2>1. DownWaits(S, P, Way, d)
    BY <1>3 DEF Match
  <2> QED
    BY <2>1, <1>3, <1>6 DEF DownWaits, Fed
<1>8. DownOnce(R, Way, v)
  <2>1. DownOnce(S, Way, d)
    BY <1>3 DEF Match
  <2>2. SUFFICES ASSUME NEW a \in Pids, NEW b \in Pids, NEW n \in DOMAIN R[a],
                        NEW k \in DOMAIN R[b], Open(R[a][n], a, Way), Open(R[b][k], b, Way),
                        v[a][n] = v[b][k]
                 PROVE  a = b /\ n = k
    BY DEF DownOnce
  <2>3. /\ \/ n \in DOMAIN S[a] /\ R[a][n] = S[a][n] /\ v[a][n] = d[a][n]
           \/ a \in T /\ n = Len(S[a]) + 1 /\ R[a][n] = m /\ v[a][n] = x
        /\ \/ k \in DOMAIN S[b] /\ R[b][k] = S[b][k] /\ v[b][k] = d[b][k]
           \/ b \in T /\ k = Len(S[b]) + 1 /\ R[b][k] = m /\ v[b][k] = x
    BY <1>6 DEF Fed
  <2>4. \A q \in T : Open(m, q, Way) =>
          \A r \in Pids : \A i \in DOMAIN S[r] : Open(S[r][i], r, Way) => d[r][i] # x
    BY <1>3 DEF DownFree
  <2>5. CASE n \in DOMAIN S[a] /\ R[a][n] = S[a][n] /\ v[a][n] = d[a][n]
    BY <2>1, <2>2, <2>3, <2>4, <2>5 DEF DownOnce
  <2>6. CASE a \in T /\ n = Len(S[a]) + 1 /\ R[a][n] = m /\ v[a][n] = x
    BY <1>1, <2>2, <2>3, <2>4, <2>6
  <2> QED
    BY <2>3, <2>5, <2>6
<1>9. Apart(Q, R, Way, u, v)
  <2>1. Apart(Q, S, Way, u, d)
    BY <1>3 DEF Match
  <2>2. \A q \in T : Open(m, q, Way) => UpFree(x, Q, u)
    BY <1>3
  <2>3. SUFFICES ASSUME NEW a \in Pids, NEW b \in Pids, NEW n \in DOMAIN Q[a],
                        NEW k \in DOMAIN R[b], Counts(Q[a][n]), Open(R[b][k], b, Way)
                 PROVE  u[a][n] # v[b][k]
    BY DEF Apart
  <2>4. \/ k \in DOMAIN S[b] /\ R[b][k] = S[b][k] /\ v[b][k] = d[b][k]
        \/ b \in T /\ R[b][k] = m /\ v[b][k] = x
    BY <1>6 DEF Fed
  <2> QED
    BY <2>1, <2>2, <2>3, <2>4 DEF Apart, UpFree
<1>10. Match(Q, R, P, Way, u, v)
  BY <1>3, <1>7, <1>8, <1>9 DEF Match
<1> QED
  BY <1>4, <1>10 DEF Matched

\* A request that is remembered is matched with nothing yet.
LEMMA RememberSpare ==
  ASSUME NEW P \in Seq(Pending), NEW Way, NEW Q, NEW S, Matched(Q, S, P, Way), NEW w \in Pending
  PROVE  Spare(Q, S, Append(P, w), Way, Kind(w.msg))
<1>1. PICK u, d : Match(Q, S, P, Way, u, d)
  BY DEF Matched
<1>2. PICK x : x = Len(P) + 1
  OBVIOUS
<1>3. PICK R : R = Append(P, w)
  OBVIOUS
<1>4. x \in Nat /\ x \notin DOMAIN P /\ x \in DOMAIN R /\ R[x] = w
  BY <1>2, <1>3
<1>5. \A n \in DOMAIN P : n \in DOMAIN R /\ R[n] = P[n]
  BY <1>3
<1>6. \A n : \A kind : Waits(P, n, kind) => Waits(R, n, kind) /\ n # x
  BY <1>4, <1>5 DEF Waits
<1>7. UpWaits(Q, R, u) /\ UpFree(x, Q, u)
  <2>1. UpWaits(Q, P, u)
    BY <1>1 DEF Match
  <2> QED
    BY <2>1, <1>6 DEF UpWaits, UpFree
<1>8. DownWaits(S, R, Way, d) /\ DownFree(x, S, Way, d)
  <2>1. DownWaits(S, P, Way, d)
    BY <1>1 DEF Match
  <2> QED
    BY <2>1, <1>6 DEF DownWaits, DownFree
<1>9. Match(Q, S, R, Way, u, d)
  BY <1>1, <1>7, <1>8 DEF Match
<1>10. Waits(R, x, Kind(w.msg))
  BY <1>4 DEF Waits
<1> QED
  BY <1>3, <1>4, <1>7, <1>8, <1>9, <1>10 DEF Spare

\* A sequence without its n-th element.
LEMMA RemoveAtPlaces ==
  ASSUME NEW S, NEW s \in Seq(S), NEW n \in 1 .. Len(s)
  PROVE  /\ DOMAIN RemoveAt(s, n) = 1 .. Len(s) - 1
         /\ \A i \in 1 .. Len(s) - 1 :
              RemoveAt(s, n)[i] = IF i < n THEN s[i] ELSE s[i + 1]
<1>1. Len(s) \in Nat /\ n \in Nat /\ n > 0 /\ n <= Len(s)
  OBVIOUS
<1>2. PICK a, b : a = SubSeq(s, 1, n - 1) /\ b = SubSeq(s, n + 1, Len(s))
  OBVIOUS
<1>3. n - 1 \in 0 .. Len(s) /\ n \in 0 .. Len(s)
  BY <1>1
<1>4. a \in Seq(S) /\ b \in Seq(S)
  BY <1>2, <1>3, CutType
<1>5. Len(a) = n - 1 /\ \A i \in 1 .. n - 1 : a[i] = s[i]
  BY <1>1, <1>2
<1>6. Len(b) = Len(s) - n /\ \A i \in 1 .. Len(s) - n : b[i] = s[n + i]
  BY <1>1, <1>2
<1>7. RemoveAt(s, n) = a \o b
  BY <1>2 DEF RemoveAt
<1>8. /\ Len(a \o b) = Len(a) + Len(b) /\ a \o b \in Seq(S)
      /\ \A i \in 1 .. Len(a) + Len(b) :
           (a \o b)[i] = IF i <= Len(a) THEN a[i] ELSE b[i - Len(a)]
  BY <1>4, ConcatProperties
<1>9. Len(a) + Len(b) = Len(s) - 1
  BY <1>1, <1>5, <1>6
<1>10. DOMAIN (a \o b) = 1 .. Len(s) - 1
  BY <1>8, <1>9
<1>11. ASSUME NEW i \in 1 .. Len(s) - 1
       PROVE  (a \o b)[i] = IF i < n THEN s[i] ELSE s[i + 1]
  <2>1. i \in Nat /\ i > 0 /\ i <= Len(s) - 1
    BY <1>1
  <2>2. (a \o b)[i] = IF i <= Len(a) THEN a[i] ELSE b[i - Len(a)]
    BY <1>8, <1>9
  <2>3. CASE i < n
    <3>1. i <= Len(a) /\ i \in 1 .. n - 1
      BY <1>1, <1>5, <2>1, <2>3
    <3> QED
      BY <1>5, <2>2, <2>3, <3>1
  <2>4. CASE ~ (i < n)
    <3>1. PICK j : j = i - Len(a)
      OBVIOUS
    <3>2. ~ (i <= Len(a)) /\ j \in 1 .. Len(s) - n /\ n + j = i + 1
      BY <1>1, <1>5, <2>1, <2>4, <3>1
    <3>3. b[j] = s[i + 1]
      BY <1>6, <3>2
    <3> QED
      BY <2>2, <2>4, <3>1, <3>2, <3>3
  <2> QED
    BY <2>3, <2>4
<1> QED
  BY <1>7, <1>10, <1>11

\* When the n-th pending request is erased, what was matched with it is
\* matched with the x-th, and the places behind n move up.
Moved(y, n, x) ==
  LET z == IF y = n THEN x ELSE y
  IN  IF z > n THEN z - 1 ELSE z

\* No two places are moved to the same one, and what was waited for still is.
LEMMA MovedOnce ==
  ASSUME NEW P \in Seq(Pending), NEW n \in DOMAIN P, NEW x \in DOMAIN P,
         Kind(P[n].msg) = Kind(P[x].msg)
  PROVE  /\ \A y \in Nat : Moved(y, n, x) \in Nat
         /\ \A y, kind : Waits(P, y, kind) /\ y # x =>
              Waits(RemoveAt(P, n), Moved(y, n, x), kind)
         /\ \A y, z \in DOMAIN P : y # x /\ z # x /\ Moved(y, n, x) = Moved(z, n, x)
              => y = z
<1>1. n \in Nat /\ n > 0 /\ n <= Len(P) /\ x \in Nat /\ x > 0 /\ x <= Len(P) /\ Len(P) \in Nat
  OBVIOUS
<1>2. PICK R : R = RemoveAt(P, n)
  OBVIOUS
<1>3. /\ DOMAIN R = 1 .. Len(P) - 1
      /\ \A i \in 1 .. Len(P) - 1 : R[i] = IF i < n THEN P[i] ELSE P[i + 1]
  BY <1>1, <1>2, RemoveAtPlaces
<1>4. \A y \in Nat : Moved(y, n, x) \in Nat
  BY <1>1 DEF Moved
<1>5. ASSUME NEW y, NEW kind, Waits(P, y, kind), y # x
      PROVE  Waits(R, Moved(y, n, x), kind)
  <2>1. y \in DOMAIN P /\ Kind(P[y].msg) = kind /\ y \in Nat /\ y > 0 /\ y <= Len(P)
    BY <1>5 DEF Waits
  <2>2. PICK z : z = IF y = n THEN x ELSE y
    OBVIOUS
  <2>3. z \in Nat /\ z > 0 /\ z <= Len(P) /\ z # n /\ Kind(P[z].msg) = kind
    BY <1>1, <1>5, <2>1, <2>2
  <2>4. PICK i : i = IF z > n THEN z - 1 ELSE z
    OBVIOUS
  <2>5. i \in 1 .. Len(P) - 1 /\ (IF i < n THEN i ELSE i + 1) = z
    BY <1>1, <2>3, <2>4
  <2>6. i \in DOMAIN R /\ R[i] = P[z]
    BY <1>3, <2>5
  <2>7. Moved(y, n, x) = i
    BY <2>2, <2>4 DEF Moved
  <2> QED
    BY <2>3, <2>6, <2>7 DEF Waits
<1>6. ASSUME NEW y \in DOMAIN P, NEW z \in DOMAIN P, y # x, z # x,
             Moved(y, n, x) = Moved(z, n, x)
      PROVE  y = z
  <2>1. y \in Nat /\ z \in Nat
    OBVIOUS
  <2> QED
    BY <1>1, <1>6, <2>1 DEF Moved
<1> QED
  BY <1>2, <1>4, <1>5, <1>6

\* Erasing a request of a kind that is left over takes it from nobody.
LEMMA EraseSpare ==
  ASSUME NEW P \in Seq(Pending), NEW Way, NEW Q \in [Pids -> Seq(Reply)],
         NEW S \in [Pids -> Seq(Request)],
         NEW n \in DOMAIN P, Spare(Q, S, P, Way, Kind(P[n].msg))
  PROVE  Matched(Q, S, RemoveAt(P, n), Way)
<1>1. PICK u, d : \E x \in Nat :
        /\ Match(Q, S, P, Way, u, d)
        /\ Waits(P, x, Kind(P[n].msg)) /\ UpFree(x, Q, u) /\ DownFree(x, S, Way, d)
  BY DEF Spare
<1>2. PICK x \in Nat :
        /\ Match(Q, S, P, Way, u, d)
        /\ Waits(P, x, Kind(P[n].msg)) /\ UpFree(x, Q, u) /\ DownFree(x, S, Way, d)
  BY <1>1
<1>3. x \in DOMAIN P /\ Kind(P[n].msg) = Kind(P[x].msg)
  BY <1>2 DEF Waits
<1>4. PICK R : R = RemoveAt(P, n)
  OBVIOUS
<1>5. /\ \A y \in Nat : Moved(y, n, x) \in Nat
      /\ \A y, kind : Waits(P, y, kind) /\ y # x => Waits(R, Moved(y, n, x), kind)
      /\ \A y, z \in DOMAIN P : y # x /\ z # x /\ Moved(y, n, x) = Moved(z, n, x) => y = z
  BY <1>3, <1>4, MovedOnce
<1>6. \A y \in Nat : Moved(y, n, x) \in Nat
  BY <1>5
<1>7. \A y, kind : Waits(P, y, kind) /\ y # x => Waits(R, Moved(y, n, x), kind)
  BY <1>5
<1>8. \A y, z \in DOMAIN P : y # x /\ z # x /\ Moved(y, n, x) = Moved(z, n, x) => y = z
  BY <1>5
<1>9. u \in Matching /\ d \in Matching
  BY <1>2 DEF Match
<1>10. PICK v : v = [p \in Pids |-> [k \in Nat |-> Moved(u[p][k], n, x)]]
  OBVIOUS
<1>11. PICK e : e = [p \in Pids |-> [k \in Nat |-> Moved(d[p][k], n, x)]]
  OBVIOUS
<1>12. v \in Matching /\ \A p \in Pids : \A k \in Nat : v[p][k] = Moved(u[p][k], n, x)
  <2>1. ASSUME NEW p \in Pids, NEW k \in Nat
        PROVE  Moved(u[p][k], n, x) \in Nat
    <3>1. u[p][k] \in Nat
      BY <1>9 DEF Matching
    <3> QED
      BY <3>1, <1>6
  <2>2. \A p \in Pids : v[p] = [k \in Nat |-> Moved(u[p][k], n, x)]
    BY <1>10
  <2>3. ASSUME NEW p \in Pids PROVE v[p] \in [Nat -> Nat]
    BY <2>1, <2>2
  <2>4. v = [p \in Pids |-> v[p]]
    BY <1>10
  <2>5. v \in Matching
    BY <2>3, <2>4 DEF Matching
  <2> QED
    BY <2>2, <2>5
<1>13. e \in Matching /\ \A p \in Pids : \A k \in Nat : e[p][k] = Moved(d[p][k], n, x)
  <2>1. ASSUME NEW p \in Pids, NEW k \in Nat
        PROVE  Moved(d[p][k], n, x) \in Nat
    <3>1. d[p][k] \in Nat
      BY <1>9 DEF Matching
    <3> QED
      BY <3>1, <1>6
  <2>2. \A p \in Pids : e[p] = [k \in Nat |-> Moved(d[p][k], n, x)]
    BY <1>11
  <2>3. ASSUME NEW p \in Pids PROVE e[p] \in [Nat -> Nat]
    BY <2>1, <2>2
  <2>4. e = [p \in Pids |-> e[p]]
    BY <1>11
  <2>5. e \in Matching
    BY <2>3, <2>4 DEF Matching
  <2> QED
    BY <2>2, <2>5
<1>14. \A p \in Pids : \A k \in DOMAIN Q[p] : Counts(Q[p][k]) =>
         /\ u[p][k] \in DOMAIN P /\ u[p][k] # x /\ v[p][k] = Moved(u[p][k], n, x)
         /\ Waits(P, u[p][k], AnswerKind(Q[p][k]))
  <2>1. \A p \in Pids : \A k \in DOMAIN Q[p] : k \in Nat
    OBVIOUS
  <2>2. UpWaits(Q, P, u)
    BY <1>2 DEF Match
  <2> QED
    BY <2>1, <2>2, <1>2, <1>12 DEF UpWaits, UpFree, Waits
<1>15. \A p \in Pids : \A k \in DOMAIN S[p] : Open(S[p][k], p, Way) =>
         /\ d[p][k] \in DOMAIN P /\ d[p][k] # x /\ e[p][k] = Moved(d[p][k], n, x)
         /\ Waits(P, d[p][k], Kind(S[p][k]))
  <2>1. \A p \in Pids : \A k \in DOMAIN S[p] : k \in Nat
    OBVIOUS
  <2>2. DownWaits(S, P, Way, d)
    BY <1>2 DEF Match
  <2> QED
    BY <2>1, <2>2, <1>2, <1>13 DEF DownWaits, DownFree, Waits
<1>16. UpWaits(Q, R, v) /\ DownWaits(S, R, Way, e)
  <2>1. ASSUME NEW p \in Pids, NEW k \in DOMAIN Q[p], Counts(Q[p][k])
        PROVE  Waits(R, v[p][k], AnswerKind(Q[p][k]))
    <3>1. Waits(R, Moved(u[p][k], n, x), AnswerKind(Q[p][k]))
      BY <2>1, <1>7, <1>14
    <3> QED
      BY <2>1, <3>1, <1>14
  <2>2. ASSUME NEW p \in Pids, NEW k \in DOMAIN S[p], Open(S[p][k], p, Way)
        PROVE  Waits(R, e[p][k], Kind(S[p][k]))
    <3>1. Waits(R, Moved(d[p][k], n, x), Kind(S[p][k]))
      BY <2>2, <1>7, <1>15
    <3> QED
      BY <2>2, <3>1, <1>15
  <2> QED
    BY <2>1, <2>2 DEF UpWaits, DownWaits
<1>17. UpOnce(Q, v)
  <2>1. UpOnce(Q, u)
    BY <1>2 DEF Match
  <2>2. ASSUME NEW p \in Pids, NEW q \in Pids, NEW j \in DOMAIN Q[p], NEW k \in DOMAIN Q[q],
               Counts(Q[p][j]), Counts(Q[q][k]), v[p][j] = v[q][k]
        PROVE  p = q /\ j = k
    <3>1. u[p][j] = u[q][k]
      BY <2>2, <1>8, <1>14
    <3> QED
      BY <2>1, <2>2, <3>1 DEF UpOnce
  <2> QED
    BY <2>2 DEF UpOnce
<1>18. DownOnce(S, Way, e)
  <2>1. DownOnce(S, Way, d)
    BY <1>2 DEF Match
  <2>2. ASSUME NEW p \in Pids, NEW q \in Pids, NEW j \in DOMAIN S[p], NEW k \in DOMAIN S[q],
               Open(S[p][j], p, Way), Open(S[q][k], q, Way), e[p][j] = e[q][k]
        PROVE  p = q /\ j = k
    <3>1. d[p][j] = d[q][k]
      BY <2>2, <1>8, <1>15
    <3> QED
      BY <2>1, <2>2, <3>1 DEF DownOnce
  <2> QED
    BY <2>2 DEF DownOnce
<1>19. Apart(Q, S, Way, v, e)
  <2>1. Apart(Q, S, Way, u, d)
    BY <1>2 DEF Match
  <2>2. ASSUME NEW p \in Pids, NEW q \in Pids, NEW j \in DOMAIN Q[p], NEW k \in DOMAIN S[q],
               Counts(Q[p][j]), Open(S[q][k], q, Way), v[p][j] = e[q][k]
        PROVE  FALSE
    <3>1. u[p][j] = d[q][k]
      BY <2>2, <1>8, <1>14, <1>15
    <3> QED
      BY <2>1, <2>2, <3>1 DEF Apart
  <2> QED
    BY <2>2 DEF Apart
<1>20. Match(Q, S, R, Way, v, e)
  BY <1>12, <1>13, <1>16, <1>17, <1>18, <1>19 DEF Match
<1> QED
  BY <1>4, <1>20 DEF Matched

\* Where no request gets on the way, nothing new is to be matched.
LEMMA SameWay ==
  ASSUME NEW P, NEW Way, NEW New, NEW Q, NEW S, Matched(Q, S, P, Way),
         \A p \in Pids : \A n \in DOMAIN S[p] :
            Open(S[p][n], p, New) => Open(S[p][n], p, Way)
  PROVE  Matched(Q, S, P, New)
<1>1. PICK u, d : Match(Q, S, P, Way, u, d)
  BY DEF Matched
<1>2. DownWaits(S, P, New, d)
  <2>1. DownWaits(S, P, Way, d)
    BY <1>1 DEF Match
  <2> QED
    BY <2>1 DEF DownWaits
<1>3. DownOnce(S, New, d)
  <2>1. DownOnce(S, Way, d)
    BY <1>1 DEF Match
  <2> QED
    BY <2>1 DEF DownOnce
<1>4. Apart(Q, S, New, u, d)
  <2>1. Apart(Q, S, Way, u, d)
    BY <1>1 DEF Match
  <2> QED
    BY <2>1 DEF Apart
<1>5. Match(Q, S, P, New, u, d)
  BY <1>1, <1>2, <1>3, <1>4 DEF Match
<1> QED
  BY <1>5 DEF Matched

\* What is matched once is no more than what it is matched with.
LEMMA MatchedFewer ==
  ASSUME NEW Way, NEW S, up \in [Pids -> Seq(Reply)], pending_messages_ \in Seq(Pending),
         Matched(up, S, pending_messages_, Way),
         NEW c \in {"Create", "Ping", "ExecAdd", "ExecFnd"}, NEW i \in Ids
  PROVE  Cardinality(Answers(c, i)) <=
           Cardinality({n \in DOMAIN pending_messages_ :
                          WaitsFor(pending_messages_[n].msg, c, i)})
<1>1. PICK u, d : Match(up, S, pending_messages_, Way, u, d)
  BY DEF Matched
<1>2. PICK A : A = Answers(c, i)
  OBVIOUS
<1>3. PICK W : W = {n \in DOMAIN pending_messages_ : WaitsFor(pending_messages_[n].msg, c, i)}
  OBVIOUS
<1>4. \A a \in A : \E p \in Pids : \E n \in DOMAIN up[p] :
        a = <<p, n>> /\ AnswersTo(up[p][n], c, i)
  BY <1>2 DEF Answers
<1>5. PICK f : f = [a \in A |-> u[a[1]][a[2]]]
  OBVIOUS
<1>6. ASSUME NEW a \in A
      PROVE  \E p \in Pids : \E n \in DOMAIN up[p] :
               a = <<p, n>> /\ Counts(up[p][n]) /\ f[a] = u[p][n] /\ f[a] \in W
  <2>1. PICK p \in Pids : \E n \in DOMAIN up[p] : a = <<p, n>> /\ AnswersTo(up[p][n], c, i)
    BY <1>4
  <2>2. PICK n \in DOMAIN up[p] : a = <<p, n>> /\ AnswersTo(up[p][n], c, i)
    BY <2>1
  <2>3. Counts(up[p][n]) /\ AnswerKind(up[p][n]) = <<c, i>>
    BY <2>2 DEF AnswersTo, Counts, AnswerKind
  <2>4. f[a] = u[p][n]
    BY <1>5, <2>2
  <2>5. Waits(pending_messages_, f[a], <<c, i>>)
    <3>1. UpWaits(up, pending_messages_, u)
      BY <1>1 DEF Match
    <3> QED
      BY <3>1, <2>3, <2>4 DEF UpWaits
  <2>6. f[a] \in W
    BY <1>3, <2>5 DEF Waits, Kind, WaitsFor
  <2> QED
    BY <2>2, <2>3, <2>4, <2>6
<1>7. f \in Injection(A, W)
  <2>1. f \in [A -> W]
    BY <1>5, <1>6
  <2>2. ASSUME NEW a \in A, NEW b \in A, f[a] = f[b]
        PROVE  a = b
    <3>1. PICK p \in Pids : \E n \in DOMAIN up[p] :
            a = <<p, n>> /\ Counts(up[p][n]) /\ f[a] = u[p][n]
      BY <1>6
    <3>2. PICK n \in DOMAIN up[p] : a = <<p, n>> /\ Counts(up[p][n]) /\ f[a] = u[p][n]
      BY <3>1
    <3>3. PICK q \in Pids : \E k \in DOMAIN up[q] :
            b = <<q, k>> /\ Counts(up[q][k]) /\ f[b] = u[q][k]
      BY <1>6
    <3>4. PICK k \in DOMAIN up[q] : b = <<q, k>> /\ Counts(up[q][k]) /\ f[b] = u[q][k]
      BY <3>3
    <3>5. UpOnce(up, u)
      BY <1>1 DEF Match
    <3>6. p = q /\ n = k
      BY <2>2, <3>2, <3>4, <3>5 DEF UpOnce
    <3> QED
      BY <3>2, <3>4, <3>6
  <2> QED
    BY <2>1, <2>2 DEF Injection, IsInjective
<1>8. IsFiniteSet(W)
  <2>1. Len(pending_messages_) \in Nat /\ DOMAIN pending_messages_ = 1 .. Len(pending_messages_)
    OBVIOUS
  <2>2. IsFiniteSet(1 .. Len(pending_messages_))
    BY <2>1, FS_Interval
  <2>3. W \in SUBSET (1 .. Len(pending_messages_))
    BY <1>3, <2>1
  <2> QED
    BY <2>2, <2>3, FS_Subset
<1>9. Cardinality(A) <= Cardinality(W)
  BY <1>7, <1>8, FS_Injection
<1> QED
  BY <1>2, <1>3, <1>9

-----------------------------------------------------------------------------
\* The processes on the way to each node.
WayTo(id, Line) ==
  [i \in NodeIds |-> {p \in Pids : \E r \in Pids : id[r] = i /\ p \in Line[r]}]

\* A request on its way to a node is one copy: every process passes it on to
\* one process on the way at most, and got it from one.
OneWay(Way) ==
  /\ Way \in [NodeIds -> SUBSET Pids]
  /\ \A i \in NodeIds : \A p \in Pids : \A a, b \in ChildProcs(p) :
       a \in Way[i] /\ b \in Way[i] => a = b
  /\ \A i \in NodeIds : \A a, b \in ChildProcs(Control) :
       a \in Way[i] /\ b \in Way[i] => a = b
  /\ \A i \in NodeIds : \A p \in Pids : \A a \in ChildProcs(p) :
       a \in Way[i] => p \in Way[i]
  /\ \A p \in Pids : nodeId[p] \in Ids => p \in Way[nodeId[p]]

\* The lines of processes give every request one way to its node.
LEMMA WayIsOne ==
  ASSUME LinkInv, OneEach, NEW D, NEW Line, Lines(D, Line)
  PROVE  OneWay(WayTo(nodeId, Line))
<1>1. PICK Way : Way = WayTo(nodeId, Line)
  OBVIOUS
<1>2. /\ Way \in [NodeIds -> SUBSET Pids]
      /\ \A i \in NodeIds : \A p \in Pids :
           p \in Way[i] <=> \E r \in Pids : nodeId[r] = i /\ p \in Line[r]
  BY <1>1 DEF WayTo
<1>3. (\A i \in NodeIds : i # NoId) /\ Ids \subseteq NodeIds
  BY MessageAssumption DEF NodeIds, NoId, Root
<1>4. \A i \in NodeIds : \A r, s \in Pids : nodeId[r] = i /\ nodeId[s] = i => r = s
  BY <1>3 DEF OneEach
<1>5. \A p \in Pids : ChildProcs(p) \subseteq Pids /\ ChildProcs(Control) \subseteq Pids
  BY DEF ChildProcs
<1>6. \A i \in NodeIds : \A a, b \in Pids : a \in Way[i] /\ b \in Way[i] =>
        \E r \in Pids : a \in Line[r] /\ b \in Line[r]
  BY <1>2, <1>4
<1>7. \A i \in NodeIds : \A p \in Pids : \A a, b \in ChildProcs(p) :
        a \in Way[i] /\ b \in Way[i] => a = b
  <2>1. \A p \in Pids : \A a, b \in ChildProcs(p) : D[a] = D[b]
    BY DEF Lines
  <2>2. \A r \in Pids : \A a, b \in Line[r] : D[a] = D[b] => a = b
    BY DEF Lines
  <2> QED
    BY <1>5, <1>6, <2>1, <2>2
<1>8. \A i \in NodeIds : \A a, b \in ChildProcs(Control) :
        a \in Way[i] /\ b \in Way[i] => a = b
  <2>1. \A a, b \in ChildProcs(Control) : D[a] = D[b]
    BY DEF Lines
  <2>2. \A r \in Pids : \A a, b \in Line[r] : D[a] = D[b] => a = b
    BY DEF Lines
  <2>3. \A a, b \in ChildProcs(Control) : a \in Pids /\ b \in Pids
    BY DEF ChildProcs
  <2> QED
    BY <1>6, <2>1, <2>2, <2>3
<1>9. \A i \in NodeIds : \A p \in Pids : \A a \in ChildProcs(p) :
        a \in Way[i] => p \in Way[i]
  <2>1. \A p \in Pids : \A q \in ChildProcs(p) : \A r \in Pids : q \in Line[r] => p \in Line[r]
    BY DEF Lines
  <2> QED
    BY <1>2, <1>5, <2>1
<1>10. \A p \in Pids : nodeId[p] \in Ids => p \in Way[nodeId[p]]
  <2>1. \A r \in Pids : nodeId[r] # NoId => r \in Line[r]
    BY DEF Lines
  <2>2. NoId \notin Ids
    BY MessageAssumption DEF NoId
  <2>3. \A p \in Pids : nodeId[p] \in Ids => p \in Line[p] /\ nodeId[p] \in NodeIds
    BY <1>3, <2>1, <2>2
  <2> QED
    BY <1>2, <2>3
<1> QED
  BY <1>1, <1>2, <1>7, <1>8, <1>9, <1>10 DEF OneWay

-----------------------------------------------------------------------------
(***************************************************************************)
(* The steps of the computing processes.                                   *)
(***************************************************************************)
AllMatched(Way) == Matched(up, down, pending_messages_, Way)

\* A process answers a request to its node.
LEMMA ReplyMatched ==
  ASSUME LinkInv, NEW Way, OneWay(Way), AllMatched(Way),
         NEW p \in Pids, status[p] = "running", down[p] # <<>>, ForMe(p),
         NEW m \in Reply, Counts(Incoming(p)), Kind(Incoming(p)) = AnswerKind(m),
         down' = Pop(p, down), up' = Send(p, m, up), UNCHANGED pending_messages_
  PROVE  AllMatched(Way)'
<1>1. up \in [Pids -> Seq(Reply)] /\ down \in [Pids -> Seq(Request)]
  BY DEF LinkInv, LinkTypeOK
<1>2. nodeId[p] \in Ids
  BY IncomingFacts
<1>3. Open(Incoming(p), p, Way)
  BY <1>2 DEF OneWay, Open, ForMe
<1>4. Matched(up, down, pending_messages_, Way)
  BY DEF AllMatched
<1>5. Spare(up, Pop(p, down), pending_messages_, Way, Kind(Incoming(p)))
  BY <1>1, <1>3, <1>4, PopDown DEF Incoming
<1>6. Spare(up, Pop(p, down), pending_messages_, Way, AnswerKind(m))
  BY <1>5
<1>7. Matched(Send(p, m, up), Pop(p, down), pending_messages_, Way)
  BY <1>1, <1>6, FeedUp
<1> QED
  BY <1>7 DEF AllMatched

\* A process passes a request on.
LEMMA PassOnMatched ==
  ASSUME LinkInv, NEW Way, OneWay(Way), AllMatched(Way),
         NEW p \in Pids, status[p] = "running", down[p] # <<>>, PassOn(p),
         UNCHANGED pending_messages_
  PROVE  AllMatched(Way)'
<1>1. up \in [Pids -> Seq(Reply)] /\ down \in [Pids -> Seq(Request)]
  BY DEF LinkInv, LinkTypeOK
<1>2. Incoming(p) \in Request /\ Incoming(p).id \in NodeIds
  <2>1. Incoming(p) \in Request
    BY IncomingFacts
  <2> QED
    BY <2>1 DEF Request, NodeIds
<1>3. PICK T : IsBroadcast(p, T) /\ down' = Broadcast(T, Incoming(p), Pop(p, down))
  BY DEF PassOn
<1>4. T \in SUBSET ChildProcs(p)
  BY <1>3, CopiesToChildren
<1>5. T \in SUBSET Pids
  BY <1>4 DEF ChildProcs
<1>6. Pop(p, down) \in [Pids -> Seq(Request)]
  BY <1>1, PopType
<1>7. Matched(up, down, pending_messages_, Way)
  BY DEF AllMatched
<1>8. Matched(up, Pop(p, down), pending_messages_, Way)
  BY <1>1, <1>7, PopDown
<1>9. CASE Open(Incoming(p), p, Way)
  <2>1. Spare(up, Pop(p, down), pending_messages_, Way, Kind(Incoming(p)))
    BY <1>1, <1>7, <1>9, PopDown DEF Incoming
  <2>2. \A a, b \in T : Open(Incoming(p), a, Way) /\ Open(Incoming(p), b, Way) => a = b
    BY <1>2, <1>4 DEF OneWay, Open
  <2>3. Matched(up, Broadcast(T, Incoming(p), Pop(p, down)), pending_messages_, Way)
    BY <1>2, <1>5, <1>6, <2>1, <2>2, FeedDown
  <2> QED
    BY <1>3, <2>3 DEF AllMatched, PassOn
<1>10. CASE ~ Open(Incoming(p), p, Way)
  <2>1. \A q \in T : ~ Open(Incoming(p), q, Way)
    BY <1>2, <1>4, <1>10 DEF OneWay, Open
  <2>2. Matched(up, Broadcast(T, Incoming(p), Pop(p, down)), pending_messages_, Way)
    BY <1>2, <1>5, <1>6, <1>8, <2>1, FeedDown
  <2> QED
    BY <1>3, <2>2 DEF AllMatched, PassOn
<1> QED
  BY <1>9, <1>10

\* An answer is one process further.
LEMMA ForwardMatched ==
  ASSUME LinkInv, NEW Way, AllMatched(Way), NEW p \in Pids, NEW q \in Pids,
         NodeForward(p, q), UNCHANGED pending_messages_
  PROVE  AllMatched(Way)'
<1>1. up \in [Pids -> Seq(Reply)] /\ down \in [Pids -> Seq(Request)] /\ up[q] # <<>>
  BY DEF LinkInv, LinkTypeOK, NodeForward, Readable
<1>2. Head(up[q]) \in Reply /\ Pop(q, up) \in [Pids -> Seq(Reply)]
  BY <1>1, PopType
<1>3. Matched(up, down, pending_messages_, Way)
  BY DEF AllMatched
<1>4. CASE Counts(Head(up[q]))
  <2>1. Spare(Pop(q, up), down, pending_messages_, Way, AnswerKind(Head(up[q])))
    BY <1>1, <1>3, <1>4, PopUp
  <2>2. Matched(Send(p, Head(up[q]), Pop(q, up)), down, pending_messages_, Way)
    BY <1>2, <2>1, FeedUp
  <2> QED
    BY <2>2 DEF AllMatched, NodeForward
<1>5. CASE ~ Counts(Head(up[q]))
  <2>1. Shorter(Pop(q, up), up)
    BY <1>1, ShorterPop
  <2>2. Matched(Pop(q, up), down, pending_messages_, Way)
    BY <1>1, <1>2, <1>3, <2>1, MatchedShorter DEF Begins
  <2>3. Matched(Send(p, Head(up[q]), Pop(q, up)), down, pending_messages_, Way)
    BY <1>2, <1>5, <2>2, FeedUp
  <2> QED
    BY <2>3 DEF AllMatched, NodeForward
<1> QED
  BY <1>4, <1>5

\* An actor that ends takes some of it with it.
LEMMA CloseMatched ==
  ASSUME Inv, Inv', NEW Way, AllMatched(Way), UNCHANGED pending_messages_,
         NEW a \in Actors, NEW kept, Closes(a, kept),
         \/ kept = <<>>
         \/ a \in Pids /\ (kept = up[a] \/ \E k \in 0 .. Len(up[a]) :
                                             kept = SubSeq(up[a], 1, k))
  PROVE  AllMatched(Way)'
<1>1. /\ up \in [Pids -> Seq(Reply)] /\ down \in [Pids -> Seq(Request)]
      /\ up' \in [Pids -> Seq(Reply)] /\ down' \in [Pids -> Seq(Request)]
  BY DEF Inv, LinkInv, LinkTypeOK
<1>2. Shorter(up', up)
  BY CloseShorter
<1>3. Begins(down', down)
  BY CloseBegins DEF Inv, LinkInv
<1>4. Matched(up', down', pending_messages_, Way)
  BY <1>1, <1>2, <1>3, MatchedShorter DEF AllMatched
<1> QED
  BY <1>4 DEF AllMatched

\* Whatever a computing process does, all stays matched.
LEMMA NodeStepMatched ==
  ASSUME Inv, Inv', NEW Way, OneWay(Way), AllMatched(Way), NodeStep,
         UNCHANGED pending_messages_
  PROVE  AllMatched(Way)'
<1>1. LinkInv /\ up \in [Pids -> Seq(Reply)] /\ down \in [Pids -> Seq(Request)]
  BY DEF Inv, LinkInv, LinkTypeOK
<1>2. ASSUME NEW p \in Pids, status[p] = "running", down[p] # <<>>, ForMe(p), NEW m \in Reply,
             Counts(Incoming(p)), Kind(Incoming(p)) = AnswerKind(m), SendReply(p, m)
      PROVE  AllMatched(Way)'
  <2>1. down' = Pop(p, down) /\ up' = Send(p, m, up)
    BY <1>2 DEF SendReply
  <2> QED
    BY <1>1, <1>2, <2>1, ReplyMatched
<1>3. ASSUME NEW p \in Pids, NodeCreate(p)
      PROVE  AllMatched(Way)'
  <2> DEFINE c == Incoming(p).add_data
  <2>1. /\ status[p] = "running" /\ down[p] # <<>> /\ Incoming(p).command = "Create"
        /\ Incoming(p) \in Request /\ nodeId[p] \in Ids /\ c \in Ids /\ p \in Actors
    BY <1>1, <1>3, IncomingFacts DEF NodeCreate, Receives, Request
  <2>2. CASE PassOn(p)
    BY <1>1, <2>1, <2>2, PassOnMatched
  <2>3. CASE ForMe(p) /\ ForkChild(p, c)
    <3>1. PICK m : m = Msg("Create", c, FreshPid)
      OBVIOUS
    <3>2. FreshPid \in Nat
      BY <2>3, FreshPidType, LinkAssumption DEF ForkChild, ForkAndBind
    <3>3. m \in Reply /\ m.command = "Create" /\ m.id = c
      BY <2>1, <3>1, <3>2 DEF Msg, Reply
    <3>4. Counts(Incoming(p)) /\ Kind(Incoming(p)) = AnswerKind(m)
      BY <2>1, <3>3 DEF Counts, Kind, AnswerKind
    <3>5. down' = Pop(p, down) /\ up' = Send(p, m, up)
      BY <2>3, <3>1 DEF ForkChild
    <3> HIDE DEF c
    <3> QED
      BY <1>1, <2>1, <2>3, <3>3, <3>4, <3>5, ReplyMatched
  <2>4. CASE BindFails(p, c, up[p]) \/ ForkFails(p, up[p])
    <3>1. Closes(p, up[p])
      BY <1>1, <2>4, ThrowCloses DEF LinkInv
    <3> QED
      BY <2>1, <3>1, CloseMatched
  <2> QED
    BY <1>3, <2>2, <2>3, <2>4 DEF NodeCreate
<1>4. ASSUME NEW p \in Pids, NodePing(p)
      PROVE  AllMatched(Way)'
  <2>1. PICK m : m = Incoming(p)
    OBVIOUS
  <2>2. /\ status[p] = "running" /\ down[p] # <<>> /\ m.command = "Ping"
        /\ m \in Request /\ nodeId[p] \in Ids
    BY <1>1, <1>4, <2>1, IncomingFacts DEF NodePing, Receives
  <2>3. CASE PassOn(p)
    BY <1>1, <2>2, <2>3, PassOnMatched
  <2>4. CASE ForMe(p) /\ SendReply(p, m)
    <3>1. m \in Reply /\ Counts(m) /\ Kind(m) = AnswerKind(m)
      BY <2>1, <2>2, <2>4, EchoHonest DEF ForMe, HonestReplies, Counts, Kind, AnswerKind
    <3> QED
      BY <1>2, <2>1, <2>2, <2>4, <3>1
  <2> QED
    BY <1>4, <2>1, <2>3, <2>4 DEF NodePing
<1>5. ASSUME NEW p \in Pids, NodeHeartBeat(p)
      PROVE  AllMatched(Way)'
  BY <1>1, <1>5, PassOnMatched DEF NodeHeartBeat, Receives
<1>6. ASSUME NEW p \in Pids, NodeExecAdd(p)
      PROVE  AllMatched(Way)'
  <2>1. PICK m : m = Incoming(p)
    OBVIOUS
  <2>2. /\ status[p] = "running" /\ down[p] # <<>> /\ m.command = "ExecAdd"
        /\ m \in Request /\ nodeId[p] \in Ids
    BY <1>1, <1>6, <2>1, IncomingFacts DEF NodeExecAdd, Receives
  <2>3. CASE PassOn(p)
    BY <1>1, <2>2, <2>3, PassOnMatched
  <2>4. CASE ForMe(p) /\ SendReply(p, m)
    <3>1. m \in Reply /\ Counts(m) /\ Kind(m) = AnswerKind(m)
      BY <2>1, <2>2, <2>4, EchoHonest DEF ForMe, HonestReplies, Counts, Kind, AnswerKind
    <3> QED
      BY <1>2, <2>1, <2>2, <2>4, <3>1
  <2> QED
    BY <1>6, <2>1, <2>3, <2>4 DEF NodeExecAdd
<1>7. ASSUME NEW p \in Pids, NodeExecFind(p)
      PROVE  AllMatched(Way)'
  <2>1. /\ status[p] = "running" /\ down[p] # <<>> /\ Incoming(p).command = "ExecFnd"
        /\ Incoming(p) \in Request /\ nodeId[p] \in Ids /\ Incoming(p).val \in Keys
    BY <1>1, <1>7, IncomingFacts DEF NodeExecFind, Receives, Request
  <2>2. CASE PassOn(p)
    BY <1>1, <2>1, <2>2, PassOnMatched
  <2>3. CASE ForMe(p) /\ SendReply(p, FindReply(p, Incoming(p).val))
    <3>1. PICK k : k = Incoming(p).val
      OBVIOUS
    <3>2. PICK m : m = FindReply(p, k)
      OBVIOUS
    <3>3. dictionary[p][k] \in Nat \cup {Absent} /\ Stored[k] \in Keys
      BY <2>1, <3>1, MessageAssumption DEF Inv, NodeTypeOK
    <3>4. m \in Reply /\ m.id = nodeId[p] /\ m.command \in {"ExecFnd", "ExecErr"}
      BY <2>1, <3>2, <3>3 DEF FindReply, MsgVal, Reply
    <3>5. Counts(Incoming(p)) /\ Kind(Incoming(p)) = AnswerKind(m)
      BY <2>1, <2>3, <3>4 DEF ForMe, Counts, Kind, AnswerKind
    <3> QED
      BY <1>2, <2>1, <2>3, <3>1, <3>2, <3>4, <3>5
  <2> QED
    BY <1>7, <2>2, <2>3 DEF NodeExecFind
<1>8. ASSUME NEW p \in Pids, NodeBeat(p)
      PROVE  AllMatched(Way)'
  <2>1. PICK m : m = Msg("HeartBeat", nodeId[p], -1)
    OBVIOUS
  <2>2. nodeId[p] \in Ids
    BY <1>1, <1>8 DEF NodeBeat, LinkInv, LinkTypeOK, BornHaveIds
  <2>3. m \in Reply /\ ~ Counts(m)
    BY <2>1, <2>2 DEF Msg, Reply, Counts
  <2>4. Matched(Send(p, m, up), down, pending_messages_, Way)
    BY <1>1, <2>3, FeedUp DEF AllMatched
  <2>5. up' = Send(p, m, up) /\ down' = down
    BY <1>8, <2>1 DEF NodeBeat
  <2> QED
    BY <2>4, <2>5 DEF AllMatched
<1> QED
  BY <1>1, <1>3, <1>4, <1>5, <1>6, <1>7, <1>8, ForwardMatched DEF NodeStep

-----------------------------------------------------------------------------
(***************************************************************************)
(* The steps of the control process.  As long as no time passes, no        *)
(* request is too old.  A node is waited for by one Create at most, and    *)
(* not any more when it is known, so the answer to a Create erases that    *)
(* one, and none for a child of the new node.                              *)
(***************************************************************************)
Young == \A n \in DOMAIN pending_messages_ : pending_messages_[n].age = 0

WaitsForNode(n) == pending_messages_[n].msg.command = "Create"

NewNode(n) == pending_messages_[n].msg.add_data

CreatesOnce ==
  /\ \A n \in DOMAIN pending_messages_ : WaitsForNode(n) => NewNode(n) \in asked \ node_ids_
  /\ \A n, k \in DOMAIN pending_messages_ :
       WaitsForNode(n) /\ WaitsForNode(k) /\ NewNode(n) = NewNode(k) => n = k

\* An answer erases a request of its kind.
LEMMA ErasesKind ==
  ASSUME Inv, CreatesOnce, NEW c, NEW i, RemovePending(c, i),
         NEW x \in DOMAIN pending_messages_, Kind(pending_messages_[x].msg) = <<c, i>>
  PROVE  \E n \in DOMAIN pending_messages_ :
           /\ Kind(pending_messages_[n].msg) = <<c, i>>
           /\ pending_messages_' = RemoveAt(pending_messages_, n)
<1>1. \A n \in DOMAIN pending_messages_ : pending_messages_[n].msg.id \in node_ids_
  <2>1. pending_messages_ \in Seq(KnownPending)
    BY DEF Inv, ControlInv, KnownPending
  <2>2. \A n \in DOMAIN pending_messages_ : pending_messages_[n] \in KnownPending
    BY <2>1
  <2> QED
    BY <2>2 DEF KnownPending, OwnRequests
<1>2. \A n \in DOMAIN pending_messages_ : Kind(pending_messages_[n].msg) =
        <<pending_messages_[n].msg.command,
          IF WaitsForNode(n) THEN NewNode(n) ELSE pending_messages_[n].msg.id>>
  BY DEF Kind, WaitsForNode, NewNode
<1>3. Matches(pending_messages_[x].msg, c, i)
  BY <1>2 DEF Matches, WaitsForNode, NewNode
<1>4. PICK n \in DOMAIN pending_messages_ :
        Matches(pending_messages_[n].msg, c, i) /\ pending_messages_' = RemoveAt(pending_messages_, n)
  BY <1>3 DEF RemovePending
<1>5. Kind(pending_messages_[n].msg) = <<c, i>>
  <2>1. CASE c = "Create"
    <3>1. NewNode(x) = i /\ WaitsForNode(x)
      BY <1>2, <2>1 DEF WaitsForNode
    <3>2. i \notin node_ids_
      BY <3>1 DEF CreatesOnce
    <3>3. WaitsForNode(n) /\ NewNode(n) = i
      BY <1>1, <1>4, <2>1, <3>2 DEF Matches, WaitsForNode, NewNode
    <3> QED
      BY <1>2, <2>1, <3>3 DEF WaitsForNode
  <2>2. CASE c # "Create"
    BY <1>2, <1>4, <2>2 DEF Matches, WaitsForNode
  <2> QED
    BY <2>1, <2>2
<1> QED
  BY <1>4, <1>5

\* An answer that arrives had a request that waited for it, and takes one of
\* that kind away.
LEMMA AnswerMatched ==
  ASSUME Inv, CreatesOnce, NEW Way, AllMatched(Way), NEW q \in Pids, up[q] # <<>>,
         Counts(Answer(q)), NEW c, NEW i, AnswerKind(Answer(q)) = <<c, i>>,
         up' = Pop(q, up), UNCHANGED down, RemovePending(c, i)
  PROVE  /\ AllMatched(Way)'
         /\ \E n \in DOMAIN pending_messages_ :
              /\ Kind(pending_messages_[n].msg) = <<c, i>>
              /\ pending_messages_' = RemoveAt(pending_messages_, n)
<1>1. /\ up \in [Pids -> Seq(Reply)] /\ down \in [Pids -> Seq(Request)]
      /\ pending_messages_ \in Seq(Pending)
  BY DEF Inv, LinkInv, LinkTypeOK, ControlInv, ControlTypeOK
<1>2. Matched(up, down, pending_messages_, Way)
  BY DEF AllMatched
<1>3. Spare(Pop(q, up), down, pending_messages_, Way, <<c, i>>)
  <2>1. Spare(Pop(q, up), down, pending_messages_, Way, AnswerKind(Head(up[q])))
    BY <1>1, <1>2, PopUp DEF Answer
  <2> QED
    BY <2>1 DEF Answer
<1>4. PICK x \in DOMAIN pending_messages_ : Kind(pending_messages_[x].msg) = <<c, i>>
  BY <1>3 DEF Spare, Waits
<1>5. PICK n \in DOMAIN pending_messages_ :
        /\ Kind(pending_messages_[n].msg) = <<c, i>>
        /\ pending_messages_' = RemoveAt(pending_messages_, n)
  BY <1>4, ErasesKind
<1>6. Pop(q, up) \in [Pids -> Seq(Reply)]
  BY <1>1, PopType
<1>7. Spare(Pop(q, up), down, pending_messages_, Way, Kind(pending_messages_[n].msg))
  BY <1>3, <1>5
<1>8. Matched(Pop(q, up), down, RemoveAt(pending_messages_, n), Way)
  BY <1>1, <1>6, <1>7, EraseSpare
<1>9. AllMatched(Way)'
  BY <1>5, <1>8 DEF AllMatched
<1> QED
  BY <1>5, <1>9

\* What is left of the pending requests is as it was.
LEMMA CreatesStay ==
  ASSUME Inv, Young, CreatesOnce, NEW n \in DOMAIN pending_messages_,
         pending_messages_' = RemoveAt(pending_messages_, n),
         UNCHANGED asked, NEW i, node_ids_' = node_ids_ \cup {i},
         i \in node_ids_ \/ (WaitsForNode(n) /\ NewNode(n) = i)
  PROVE  Young' /\ CreatesOnce'
<1>1. pending_messages_ \in Seq(Pending) /\ n \in 1 .. Len(pending_messages_)
  BY DEF Inv, ControlInv, ControlTypeOK
<1>2. Len(pending_messages_) \in Nat
  BY <1>1
<1>3. \A k \in DOMAIN pending_messages_' : \E j \in DOMAIN pending_messages_ :
        /\ pending_messages_'[k] = pending_messages_[j] /\ j # n
        /\ j = IF k < n THEN k ELSE k + 1
  <2>1. /\ DOMAIN pending_messages_' = 1 .. Len(pending_messages_) - 1
        /\ \A k \in 1 .. Len(pending_messages_) - 1 :
             pending_messages_'[k] = IF k < n THEN pending_messages_[k] ELSE pending_messages_[k + 1]
    BY <1>1, RemoveAtPlaces
  <2>2. ASSUME NEW k \in DOMAIN pending_messages_'
        PROVE  \E j \in DOMAIN pending_messages_ :
                 /\ pending_messages_'[k] = pending_messages_[j] /\ j # n
                 /\ j = IF k < n THEN k ELSE k + 1
    <3>1. k \in Nat /\ k > 0 /\ k <= Len(pending_messages_) - 1 /\ n \in Nat
      BY <1>1, <1>2, <2>1
    <3>2. PICK j : j = IF k < n THEN k ELSE k + 1
      OBVIOUS
    <3>3. j \in 1 .. Len(pending_messages_) /\ j # n
      BY <1>2, <3>1, <3>2
    <3>4. pending_messages_'[k] = pending_messages_[j]
      BY <2>1, <3>2
    <3> QED
      BY <1>1, <3>2, <3>3, <3>4
  <2> QED
    BY <2>2
<1>4. \A k \in DOMAIN pending_messages_' : k \in Nat
  <2>1. DOMAIN pending_messages_' = 1 .. Len(pending_messages_) - 1
    BY <1>1, RemoveAtPlaces
  <2> QED
    BY <1>2, <2>1
<1>5. Young'
  BY <1>3 DEF Young
<1>6. ASSUME NEW k \in DOMAIN pending_messages_', WaitsForNode(k)'
      PROVE  NewNode(k)' \in asked' \ node_ids_'
  <2>1. PICK j \in DOMAIN pending_messages_ : pending_messages_'[k] = pending_messages_[j] /\ j # n
    BY <1>3
  <2>2. WaitsForNode(j) /\ NewNode(j) = NewNode(k)'
    BY <1>6, <2>1 DEF WaitsForNode, NewNode
  <2>3. NewNode(j) \in asked \ node_ids_ /\ NewNode(j) # i
    BY <2>1, <2>2 DEF CreatesOnce
  <2> QED
    BY <2>2, <2>3
<1>7. ASSUME NEW k \in DOMAIN pending_messages_', NEW m \in DOMAIN pending_messages_',
             WaitsForNode(k)', WaitsForNode(m)', NewNode(k)' = NewNode(m)'
      PROVE  k = m
  <2>1. PICK j \in DOMAIN pending_messages_ :
          pending_messages_'[k] = pending_messages_[j] /\ j = IF k < n THEN k ELSE k + 1
    BY <1>3
  <2>2. PICK l \in DOMAIN pending_messages_ :
          pending_messages_'[m] = pending_messages_[l] /\ l = IF m < n THEN m ELSE m + 1
    BY <1>3
  <2>3. j = l
    BY <1>7, <2>1, <2>2 DEF WaitsForNode, NewNode, CreatesOnce
  <2>4. k \in Nat /\ m \in Nat /\ n \in Nat
    BY <1>1, <1>4
  <2> QED
    BY <2>1, <2>2, <2>3, <2>4
<1> QED
  BY <1>5, <1>6, <1>7 DEF CreatesOnce

\* A request that is remembered and sent to the children.
LEMMA BroadcastMatched ==
  ASSUME Inv, NEW Way, OneWay(Way), AllMatched(Way), NEW m \in Request,
         BroadcastMessage(m)
  PROVE  AllMatched(Way)'
<1>1. /\ down \in [Pids -> Seq(Request)] /\ pending_messages_ \in Seq(Pending)
  BY DEF Inv, LinkInv, LinkTypeOK, ControlInv, ControlTypeOK
<1>2. PICK w : w = [msg |-> m, age |-> 0]
  OBVIOUS
<1>3. w \in Pending /\ w.msg = m /\ pending_messages_' = Append(pending_messages_, w)
  BY <1>2 DEF Pending, BroadcastMessage
<1>4. Matched(up, down, pending_messages_, Way)
  BY DEF AllMatched
<1>5. Spare(up, down, Append(pending_messages_, w), Way, Kind(m))
  BY <1>1, <1>3, <1>4, RememberSpare
<1>6. PICK T : IsBroadcast(Control, T) /\ down' = Broadcast(T, m, down)
  BY DEF BroadcastMessage, SendToChildren
<1>7. T \in SUBSET ChildProcs(Control)
  BY <1>6, CopiesToChildren
<1>8. T \in SUBSET Pids
  BY <1>7 DEF ChildProcs
<1>9. m.id \in NodeIds
  BY DEF Request, NodeIds
<1>10. \A a, b \in T : Open(m, a, Way) /\ Open(m, b, Way) => a = b
  BY <1>7, <1>9 DEF OneWay, Open
<1>11. Matched(up, Broadcast(T, m, down), Append(pending_messages_, w), Way)
  BY <1>1, <1>5, <1>8, <1>10, FeedDown
<1>12. UNCHANGED up
  BY DEF BroadcastMessage, SendToChildren
<1> QED
  BY <1>3, <1>6, <1>11, <1>12 DEF AllMatched

\* A heartbeat command is not answered.
LEMMA HeartbeatMatched ==
  ASSUME Inv, NEW Way, AllMatched(Way), NEW time \in Periods, HeartbeatCommand(time)
  PROVE  AllMatched(Way)'
<1>1. down \in [Pids -> Seq(Request)]
  BY DEF Inv, LinkInv, LinkTypeOK
<1>2. PICK m : m = Msg("HeartBeat", Root, time)
  OBVIOUS
<1>3. m \in Request /\ ~ Counts(m)
  BY <1>2 DEF Msg, Request, Counts
<1>4. PICK T : IsBroadcast(Control, T) /\ down' = Broadcast(T, m, down)
  BY <1>2 DEF HeartbeatCommand, SendToChildren
<1>5. T \in SUBSET Pids
  BY <1>4, CopiesToChildren DEF ChildProcs
<1>6. \A a \in T : ~ Open(m, a, Way)
  BY <1>3 DEF Open
<1>7. Matched(up, Broadcast(T, m, down), pending_messages_, Way)
  BY <1>1, <1>3, <1>5, <1>6, FeedDown DEF AllMatched
<1>8. UNCHANGED <<up, pending_messages_>>
  BY DEF HeartbeatCommand, SendToChildren
<1> QED
  BY <1>4, <1>7, <1>8 DEF AllMatched

\* One more pending request, for no node or for one that was not asked for.
LEMMA CreatesMore ==
  ASSUME Inv, Young, CreatesOnce, NEW m \in Request, UNCHANGED node_ids_,
         pending_messages_' = Append(pending_messages_, [msg |-> m, age |-> 0]),
         \/ m.command # "Create" /\ UNCHANGED asked
         \/ /\ m.add_data \notin asked /\ m.add_data \notin node_ids_
            /\ asked' = asked \cup {m.add_data}
  PROVE  Young' /\ CreatesOnce'
<1>1. pending_messages_ \in Seq(Pending)
  BY DEF Inv, ControlInv, ControlTypeOK
<1>2. PICK w : w = [msg |-> m, age |-> 0]
  OBVIOUS
<1>3. PICK x : x = Len(pending_messages_) + 1
  OBVIOUS
<1>4. \A k \in DOMAIN pending_messages_' :
        \/ k \in DOMAIN pending_messages_ /\ pending_messages_'[k] = pending_messages_[k]
        \/ k = x /\ pending_messages_'[k] = w
  <2>1. pending_messages_' = Append(pending_messages_, w)
    BY <1>2
  <2> QED
    BY <1>1, <1>3, <2>1
<1>5. x \notin DOMAIN pending_messages_
  BY <1>1, <1>3
<1>6. Young'
  BY <1>2, <1>4 DEF Young
<1>7. \A k \in DOMAIN pending_messages_' :
        \/ /\ k \in DOMAIN pending_messages_
           /\ (WaitsForNode(k)' => WaitsForNode(k)) /\ NewNode(k)' = NewNode(k)
        \/ /\ k = x
           /\ (WaitsForNode(k)' => m.command = "Create") /\ NewNode(k)' = m.add_data
  BY <1>2, <1>4 DEF WaitsForNode, NewNode
<1>8. \A k \in DOMAIN pending_messages_ : WaitsForNode(k) => NewNode(k) \in asked \ node_ids_
  BY DEF CreatesOnce
<1>9. /\ asked \subseteq asked'
      /\ m.command = "Create" =>
           m.add_data \notin asked /\ m.add_data \in asked' /\ m.add_data \notin node_ids_
  OBVIOUS
<1>10. ASSUME NEW k \in DOMAIN pending_messages_', WaitsForNode(k)'
      PROVE  NewNode(k)' \in asked' \ node_ids_'
  BY <1>7, <1>8, <1>9, <1>10
<1>11. ASSUME NEW k \in DOMAIN pending_messages_', NEW j \in DOMAIN pending_messages_',
              WaitsForNode(k)', WaitsForNode(j)', NewNode(k)' = NewNode(j)'
       PROVE  k = j
  <2>1. CASE k = x /\ j = x
    BY <2>1
  <2>2. CASE k = x /\ j # x
    <3>1. m.command = "Create" /\ NewNode(k)' = m.add_data
      BY <1>7, <1>11, <2>2, <1>5
    <3>2. NewNode(j)' \in asked
      BY <1>7, <1>8, <1>11, <2>2
    <3> QED
      BY <1>9, <1>11, <3>1, <3>2
  <2>3. CASE k # x /\ j = x
    <3>1. m.command = "Create" /\ NewNode(j)' = m.add_data
      BY <1>7, <1>11, <2>3, <1>5
    <3>2. NewNode(k)' \in asked
      BY <1>7, <1>8, <1>11, <2>3
    <3> QED
      BY <1>9, <1>11, <3>1, <3>2
  <2>4. CASE k # x /\ j # x
    BY <1>7, <1>11, <2>4 DEF CreatesOnce
  <2> QED
    BY <2>1, <2>2, <2>3, <2>4
<1> QED
  BY <1>6, <1>10, <1>11 DEF CreatesOnce

-----------------------------------------------------------------------------
\* As long as the first control process is at work and no time passes, every
\* answer and every request on its way is matched.
FirstRun == Careful /\ ~ ClockRuns /\ restarts = 0

WaitInv(Way) ==
  /\ AllMatched(Way)
  /\ Young
  /\ CreatesOnce
  /\ everKnown = node_ids_

\* The control process erases a request only when its answer was taken.
LEMMA ControlStepWaits ==
  ASSUME Inv, NEW Way, WaitInv(Way), ControlStep
  PROVE  WaitInv(Way)'
<1>1. /\ up \in [Pids -> Seq(Reply)] /\ down \in [Pids -> Seq(Request)]
  BY DEF Inv, LinkInv, LinkTypeOK
<1>2. ASSUME NEW q \in Pids, NEW c, ControlReceives(q, c)
      PROVE  /\ up[q] # <<>> /\ up' = Pop(q, up) /\ UNCHANGED down
             /\ Answer(q).command = c /\ Answer(q).id \in Ids /\ Answer(q) \in Reply
  <2>1. up[q] # <<>> /\ up' = Pop(q, up) /\ UNCHANGED down /\ Answer(q).command = c
    BY <1>2 DEF ControlReceives, Readable
  <2>2. Answer(q) \in Reply
    BY <1>1, <2>1, PopType DEF Answer
  <2> QED
    BY <2>1, <2>2 DEF Reply
<1>3. ASSUME NEW q \in Pids, NEW c, NEW i, AnswerKind(Answer(q)) = <<c, i>>, Counts(Answer(q)),
             up[q] # <<>>, up' = Pop(q, up), UNCHANGED down, RemovePending(c, i),
             UNCHANGED asked,
             \/ UNCHANGED node_ids_
             \/ c = "Create" /\ node_ids_' = node_ids_ \cup {i}
      PROVE  AllMatched(Way)' /\ Young' /\ CreatesOnce'
  <2>1. Young /\ CreatesOnce /\ AllMatched(Way)
    BY DEF WaitInv
  <2>2. PICK n \in DOMAIN pending_messages_ :
          /\ Kind(pending_messages_[n].msg) = <<c, i>>
          /\ pending_messages_' = RemoveAt(pending_messages_, n)
    BY <1>3, <2>1, AnswerMatched
  <2>3. AllMatched(Way)'
    BY <1>3, <2>1, AnswerMatched
  <2>4. Root \in node_ids_
    BY DEF Inv, ControlInv
  <2>5. CASE UNCHANGED node_ids_
    <3>1. node_ids_' = node_ids_ \cup {Root}
      BY <2>4, <2>5
    <3> QED
      BY <1>3, <2>1, <2>2, <2>3, <2>4, <3>1, CreatesStay
  <2>6. CASE c = "Create" /\ node_ids_' = node_ids_ \cup {i}
    <3>1. WaitsForNode(n) /\ NewNode(n) = i
      BY <2>2, <2>6 DEF Kind, WaitsForNode, NewNode
    <3> QED
      BY <1>3, <2>1, <2>2, <2>3, <2>6, <3>1, CreatesStay
  <2> QED
    BY <1>3, <2>5, <2>6
<1>4. ASSUME NEW q \in Pids, CreateAnswered(q)
      PROVE  WaitInv(Way)'
  <2>1. PICK i : i = Answer(q).id
    OBVIOUS
  <2>2. ControlReceives(q, "Create") /\ RemovePending("Create", i)
        /\ node_ids_' = node_ids_ \cup {i} /\ everKnown' = everKnown \cup {i} /\ UNCHANGED asked
    BY <1>4, <2>1 DEF CreateAnswered
  <2>3. AnswerKind(Answer(q)) = <<"Create", i>> /\ Counts(Answer(q))
    BY <1>2, <2>1, <2>2 DEF AnswerKind, Counts
  <2>4. AllMatched(Way)' /\ Young' /\ CreatesOnce'
    BY <1>2, <1>3, <2>2, <2>3
  <2> QED
    BY <2>2, <2>4 DEF WaitInv
<1>5. ASSUME NEW q \in Pids, PingAnswered(q)
      PROVE  WaitInv(Way)'
  <2>1. PICK i : i = Answer(q).id
    OBVIOUS
  <2>2. ControlReceives(q, "Ping") /\ RemovePending("Ping", i)
        /\ UNCHANGED <<node_ids_, everKnown, asked>>
    BY <1>5, <2>1 DEF PingAnswered
  <2>3. AnswerKind(Answer(q)) = <<"Ping", i>> /\ Counts(Answer(q))
    BY <1>2, <2>1, <2>2 DEF AnswerKind, Counts
  <2>4. AllMatched(Way)' /\ Young' /\ CreatesOnce'
    BY <1>2, <1>3, <2>2, <2>3
  <2> QED
    BY <2>2, <2>4 DEF WaitInv
<1>6. ASSUME NEW q \in Pids, AddAnswered(q)
      PROVE  WaitInv(Way)'
  <2>1. PICK i : i = Answer(q).id
    OBVIOUS
  <2>2. ControlReceives(q, "ExecAdd") /\ RemovePending("ExecAdd", i)
        /\ UNCHANGED <<node_ids_, everKnown, asked>>
    BY <1>6, <2>1 DEF AddAnswered
  <2>3. AnswerKind(Answer(q)) = <<"ExecAdd", i>> /\ Counts(Answer(q))
    BY <1>2, <2>1, <2>2 DEF AnswerKind, Counts
  <2>4. AllMatched(Way)' /\ Young' /\ CreatesOnce'
    BY <1>2, <1>3, <2>2, <2>3
  <2> QED
    BY <2>2, <2>4 DEF WaitInv
<1>7. ASSUME NEW q \in Pids, FindAnswered(q)
      PROVE  WaitInv(Way)'
  <2>1. PICK i : i = Answer(q).id
    OBVIOUS
  <2>2. PICK c \in {"ExecFnd", "ExecErr"} : ControlReceives(q, c)
    BY <1>7 DEF FindAnswered
  <2>3. RemovePending("ExecFnd", i) /\ UNCHANGED <<node_ids_, everKnown, asked>>
    BY <1>7, <2>1 DEF FindAnswered
  <2>4. AnswerKind(Answer(q)) = <<"ExecFnd", i>> /\ Counts(Answer(q))
    BY <1>2, <2>1, <2>2 DEF AnswerKind, Counts
  <2>5. AllMatched(Way)' /\ Young' /\ CreatesOnce'
    BY <1>2, <1>3, <2>2, <2>3, <2>4
  <2> QED
    BY <2>3, <2>5 DEF WaitInv
<1>8. ASSUME NEW q \in Pids, BeatReceived(q)
      PROVE  WaitInv(Way)'
  <2>1. ControlReceives(q, "HeartBeat")
        /\ UNCHANGED <<node_ids_, everKnown, asked, pending_messages_>>
    BY <1>8 DEF BeatReceived
  <2>2. up[q] # <<>> /\ up' = Pop(q, up) /\ UNCHANGED down
    BY <1>2, <2>1
  <2>3. Pop(q, up) \in [Pids -> Seq(Reply)] /\ Shorter(Pop(q, up), up)
    BY <1>1, <2>2, PopType, ShorterPop
  <2>4. Matched(Pop(q, up), down, pending_messages_, Way)
    BY <1>1, <2>3, MatchedShorter DEF WaitInv, AllMatched, Begins
  <2>5. AllMatched(Way)'
    BY <2>1, <2>2, <2>4 DEF AllMatched
  <2> QED
    BY <2>1, <2>5 DEF WaitInv, Young, CreatesOnce, WaitsForNode, NewNode
<1>9. ~ CheckPending
  <2>1. SUFFICES ASSUME NEW n \in DOMAIN pending_messages_,
                        \A k \in DOMAIN pending_messages_ : Expired(k) <=> k <= n
                 PROVE  FALSE
    BY DEF CheckPending
  <2>2. Expired(n)
    <3>1. pending_messages_ \in Seq(Pending)
      BY DEF Inv, ControlInv, ControlTypeOK
    <3>2. n \in Nat
      BY <3>1
    <3>3. n <= n
      BY <3>2
    <3> QED
      BY <2>1, <3>3
  <2>3. pending_messages_[n].age = 0
    BY DEF WaitInv, Young
  <2> QED
    BY <2>2, <2>3, ControlAssumption DEF Expired
<1>10. CheckBeats => WaitInv(Way)'
  BY DEF CheckBeats, linkVars, WaitInv, AllMatched, Young, CreatesOnce, WaitsForNode, NewNode
<1> QED
  BY <1>4, <1>5, <1>6, <1>7, <1>8, <1>9, <1>10 DEF ControlStep

\* A command adds a request that is matched with nothing before it is sent.
LEMMA UserCommandWaits ==
  ASSUME Inv, Inv', Careful, NEW Way, OneWay(Way), WaitInv(Way), UserCommand
  PROVE  WaitInv(Way)'
<1>1. AllMatched(Way) /\ Young /\ CreatesOnce /\ everKnown = node_ids_
  BY DEF WaitInv
<1>2. ASSUME NEW m \in Request, BroadcastMessage(m), UNCHANGED <<node_ids_, everKnown>>,
             \/ m.command # "Create" /\ UNCHANGED asked
             \/ /\ m.add_data \notin asked /\ m.add_data \notin node_ids_
                /\ asked' = asked \cup {m.add_data}
      PROVE  WaitInv(Way)'
  <2>1. AllMatched(Way)'
    BY <1>1, <1>2, BroadcastMatched
  <2>2. pending_messages_' = Append(pending_messages_, [msg |-> m, age |-> 0])
    BY <1>2 DEF BroadcastMessage
  <2>3. Young' /\ CreatesOnce'
    BY <1>1, <1>2, <2>2, CreatesMore
  <2> QED
    BY <1>1, <1>2, <2>1, <2>3 DEF WaitInv
<1>3. ASSUME NEW m \in Request, NEW i, SendRequest(i, m), m.command # "Create"
      PROVE  WaitInv(Way)'
  BY <1>2, <1>3 DEF SendRequest
<1>4. ASSUME NEW c \in Ids, NEW parent \in NodeIds, CreateCommand(c, parent)
      PROVE  WaitInv(Way)'
  <2>1. /\ c \notin asked /\ c \notin node_ids_
        /\ asked' = asked \cup {c}
    BY <1>4 DEF CreateCommand
  <2>2. CASE CreateCommandAtRoot(c)
    <3>1. /\ UNCHANGED pending_messages_
          /\ \/ UNCHANGED <<node_ids_, everKnown>>
             \/ node_ids_' = node_ids_ \cup {c} /\ everKnown' = everKnown \cup {c}
          /\ \/ UNCHANGED <<down, up>>
             \/ Closes(Control, <<>>)
      BY <1>1, <2>2, ThrowCloses DEF CreateCommandAtRoot, Inv, LinkInv
    <3>2. AllMatched(Way)'
      <4>1. CASE UNCHANGED <<down, up>>
        BY <1>1, <3>1, <4>1 DEF AllMatched
      <4>2. CASE Closes(Control, <<>>)
        <5>1. Control \in Actors
          BY DEF Actors
        <5>2. PICK kept : kept = <<>>
          OBVIOUS
        <5> QED
          BY <1>1, <3>1, <4>2, <5>1, <5>2, CloseMatched
      <4> QED
        BY <3>1, <4>1, <4>2
    <3>3. Young'
      BY <1>1, <3>1 DEF Young
    <3>4. CreatesOnce'
      BY <1>1, <2>1, <3>1 DEF CreatesOnce, WaitsForNode, NewNode
    <3>5. everKnown' = node_ids_'
      BY <1>1, <3>1
    <3> QED
      BY <3>2, <3>3, <3>4, <3>5 DEF WaitInv
  <2>3. CASE BroadcastMessage(Msg("Create", parent, c)) /\ UNCHANGED <<node_ids_, everKnown>>
    <3>1. PICK m : m = Msg("Create", parent, c)
      OBVIOUS
    <3>2. m \in Request /\ m.add_data = c
      BY <3>1 DEF Msg, Request
    <3> QED
      BY <1>2, <2>1, <2>3, <3>1, <3>2
  <2> QED
    BY <1>4, <2>2, <2>3 DEF CreateCommand
<1>5. ASSUME NEW i \in NodeIds, NEW k \in Keys, ExecAddCommand(i, k)
      PROVE  WaitInv(Way)'
  <2>1. PICK m : m = MsgVal("ExecAdd", i, requests + 1, k)
    OBVIOUS
  <2>2. m \in Request /\ m.command # "Create"
    <3>1. requests + 1 \in Nat /\ Stored[k] \in Keys
      BY MessageAssumption DEF Inv, ControlInv, ControlTypeOK
    <3> QED
      BY <2>1, <3>1 DEF MsgVal, Request
  <2> QED
    BY <1>3, <1>5, <2>1, <2>2 DEF ExecAddCommand
<1>6. ASSUME NEW i \in NodeIds, NEW k \in Keys, ExecFindCommand(i, k)
      PROVE  WaitInv(Way)'
  <2>1. PICK m : m = MsgVal("ExecFnd", i, -1, k)
    OBVIOUS
  <2>2. m \in Request /\ m.command # "Create"
    <3>1. Stored[k] \in Keys
      BY MessageAssumption
    <3> QED
      BY <2>1, <3>1 DEF MsgVal, Request
  <2> QED
    BY <1>3, <1>6, <2>1, <2>2 DEF ExecFindCommand
<1>7. ASSUME NEW i \in NodeIds, PingCommand(i)
      PROVE  WaitInv(Way)'
  <2>1. PICK m : m = Msg("Ping", i, 0)
    OBVIOUS
  <2>2. m \in Request /\ m.command # "Create"
    BY <2>1 DEF Msg, Request
  <2> QED
    BY <1>3, <1>7, <2>1, <2>2 DEF PingCommand
<1>8. ASSUME NEW time \in Periods, HeartbeatCommand(time)
      PROVE  WaitInv(Way)'
  <2>1. UNCHANGED <<node_ids_, everKnown, asked, pending_messages_>>
    BY <1>8 DEF HeartbeatCommand
  <2>2. AllMatched(Way)'
    BY <1>1, <1>8, HeartbeatMatched
  <2> QED
    BY <1>1, <2>1, <2>2 DEF WaitInv, Young, CreatesOnce, WaitsForNode, NewNode
<1> QED
  BY <1>4, <1>5, <1>6, <1>7, <1>8 DEF UserCommand

\* A step that the control process has no part in.
LEMMA QuietWaits ==
  ASSUME NEW Way, WaitInv(Way), AllMatched(Way)', UNCHANGED ctlVars
  PROVE  WaitInv(Way)'
BY DEF WaitInv, ctlVars, Young, CreatesOnce, WaitsForNode, NewNode

\* Whatever happens, all stays matched along the ways as they were.
LEMMA WaitsStep ==
  ASSUME Inv, Inv', Careful, ~ ClockRuns, restarts' = 0,
         NEW Way, OneWay(Way), WaitInv(Way), [Next]_vars
  PROVE  WaitInv(Way)'
<1>1. AllMatched(Way)
  BY DEF WaitInv
<1>2. /\ up \in [Pids -> Seq(Reply)] /\ down \in [Pids -> Seq(Request)]
      /\ up' \in [Pids -> Seq(Reply)] /\ restarts \in Nat
  BY DEF Inv, LinkInv, LinkTypeOK, ControlInv, ControlTypeOK
<1>3. CASE NodeStep /\ UNCHANGED <<ctlVars, kills>>
  <2>1. UNCHANGED ctlVars /\ UNCHANGED pending_messages_
    BY <1>3 DEF ctlVars
  <2>2. AllMatched(Way)'
    BY <1>1, <1>3, <2>1, NodeStepMatched
  <2> QED
    BY <2>1, <2>2, QuietWaits
<1>4. CASE ControlStep
  BY <1>4, ControlStepWaits
<1>5. CASE UserCommand
  BY <1>5, UserCommandWaits
<1>6. CASE ControlRestart
  BY <1>2, <1>6 DEF ControlRestart
<1>7. CASE Connects
  <2>1. PICK p \in Pids : Connect(p) /\ UNCHANGED <<nodeVars, ctlVars, kills>>
    BY <1>7 DEF Connects
  <2>2. UNCHANGED ctlVars /\ UNCHANGED pending_messages_ /\ UNCHANGED down
    BY <2>1 DEF ctlVars, Connect
  <2>3. PICK k \in 0 .. Len(up[p]) : up' = [up EXCEPT ![p] = SubSeq(@, k + 1, Len(@))]
    BY <2>1 DEF Connect
  <2>4. \A q \in Pids : \/ up'[q] \in {up[q], <<>>}
                        \/ \E i \in 0 .. Len(up[q]), j \in 0 .. Len(up[q]) :
                             up'[q] = SubSeq(up[q], i + 1, j)
    <3>1. ASSUME NEW q \in Pids, q # p
          PROVE  up'[q] = up[q]
      BY <2>3, <3>1
    <3>2. Len(up[p]) \in 0 .. Len(up[p]) /\ up'[p] = SubSeq(up[p], k + 1, Len(up[p]))
      BY <1>2, <2>3
    <3> QED
      BY <3>1, <3>2
  <2>5. Shorter(up', up)
    BY <1>2, <2>4, ShorterCut
  <2>6. Matched(up', down, pending_messages_, Way)
    BY <1>1, <1>2, <2>5, MatchedShorter DEF AllMatched, Begins
  <2>7. AllMatched(Way)'
    BY <2>2, <2>6 DEF AllMatched
  <2> QED
    BY <2>2, <2>7, QuietWaits
<1>8. CASE Kills
  <2>1. UNCHANGED ctlVars /\ UNCHANGED pending_messages_
    BY <1>8 DEF Kills, ctlVars
  <2>2. PICK a \in Actors : Kill(a)
    BY <1>8 DEF Kills
  <2>3. PICK k \in 0 .. Len(SentUp(a)) : Closes(a, SubSeq(SentUp(a), 1, k))
    BY <1>1, <2>2, KillCloses DEF Inv, LinkInv
  <2>4. PICK kept : kept = SubSeq(SentUp(a), 1, k)
    OBVIOUS
  <2>5. \/ kept = <<>>
        \/ a \in Pids /\ \E j \in 0 .. Len(up[a]) : kept = SubSeq(up[a], 1, j)
    <3>1. CASE a # Control /\ connected[a]
      BY <2>3, <2>4, <3>1 DEF SentUp, Actors
    <3>2. CASE ~ (a # Control /\ connected[a])
      <4>1. SentUp(a) = <<>>
        BY <3>2 DEF SentUp
      <4>2. k = 0
        BY <2>3, <4>1
      <4> QED
        BY <2>4, <4>1, <4>2
    <3> QED
      BY <3>1, <3>2
  <2>6. AllMatched(Way)'
    BY <1>1, <2>1, <2>3, <2>4, <2>5, CloseMatched
  <2> QED
    BY <2>1, <2>6, QuietWaits
<1>9. CASE Tick
  BY <1>9 DEF Tick
<1>10. CASE UNCHANGED vars
  BY <1>1, <1>10, QuietWaits DEF vars, linkVars, ctlVars, AllMatched
<1> QED
  BY <1>3, <1>4, <1>5, <1>6, <1>7, <1>8, <1>9, <1>10 DEF Next

\* What the control process learns in a step is not what it sends in it.
LEMMA LearnsOrSends ==
  ASSUME restarts \in Nat, restarts' = 0, [Next]_vars
  PROVE  UNCHANGED everKnown \/ UNCHANGED down
<1>1. CASE NodeStep /\ UNCHANGED <<ctlVars, kills>>
  BY <1>1 DEF ctlVars
<1>2. CASE ControlStep
  BY <1>2 DEF ControlStep, CreateAnswered, PingAnswered, AddAnswered, FindAnswered,
       BeatReceived, ControlReceives, CheckPending, CheckBeats
<1>3. CASE UserCommand
  <2>1. ASSUME NEW c \in Ids, NEW parent \in NodeIds, CreateCommand(c, parent)
        PROVE  UNCHANGED everKnown \/ UNCHANGED down
    BY <2>1 DEF CreateCommand, CreateCommandAtRoot
  <2> QED
    BY <1>3, <2>1 DEF UserCommand, ExecAddCommand, ExecFindCommand, PingCommand,
         SendRequest, HeartbeatCommand
<1>4. CASE ControlRestart
  BY <1>4 DEF ControlRestart
<1>5. CASE Connects \/ Kills
  BY <1>5 DEF Connects, Kills, ctlVars
<1>6. CASE Tick
  BY <1>6 DEF Tick
<1>7. CASE UNCHANGED vars
  BY <1>7 DEF vars, ctlVars
<1> QED
  BY <1>1, <1>2, <1>3, <1>4, <1>5, <1>6, <1>7 DEF Next

\* A process is born on the way to a node for which no request is under way.
LEMMA WayStays ==
  ASSUME Inv, Inv', IdsKept, OneEach', everKnown = node_ids_, restarts' = 0, [Next]_vars,
         NEW D, NEW Line, NEW E, NEW New, LinesStay(D, Line, E, New),
         NEW Way, Way = WayTo(nodeId, Line), WaitInv(Way)',
         NEW Later, Later = WayTo(nodeId', New)
  PROVE  WaitInv(Later)'
<1>1. \A p \in Pids : \A n \in DOMAIN down'[p] :
        down'[p][n].id \in everKnown /\ down'[p][n].id \in NodeIds
  <2>1. restarts \in Nat
    BY DEF Inv, ControlInv, ControlTypeOK
  <2>2. PICK K : K = KnownRequests
    OBVIOUS
  <2>3. down' \in [Pids -> Seq(K)]
    <3>1. CASE UNCHANGED everKnown
      <4>1. KnownRequests' = KnownRequests
        BY <3>1 DEF KnownRequests
      <4>2. down' \in [Pids -> Seq(KnownRequests')]
        BY DEF Inv, LinkInv
      <4> QED
        BY <2>2, <4>1, <4>2
    <3>2. CASE UNCHANGED down
      BY <2>2, <3>2 DEF Inv, LinkInv
    <3> QED
      BY <2>1, <3>1, <3>2, LearnsOrSends
  <2>4. \A p \in Pids : \A n \in DOMAIN down'[p] : down'[p][n] \in K
    BY <2>3
  <2>5. \A m \in K : m.id \in everKnown /\ m.id \in NodeIds
    BY <2>2 DEF KnownRequests, Request, NodeIds
  <2> QED
    BY <2>4, <2>5
<1>2. ASSUME NEW p \in Pids, NEW i \in NodeIds, i \in everKnown, p \in Later[i]
      PROVE  p \in Way[i]
  <2>1. PICK r \in Pids : nodeId'[r] = i /\ p \in New[r]
    BY <1>2 DEF WayTo
  <2>2. nodeId' \in [Pids -> Ids \cup {NoId}] /\ i # NoId /\ i \in Ids
    <3>1. nodeId' \in [Pids -> Ids \cup {NoId}]
      BY DEF Inv, LinkInv, LinkTypeOK
    <3>2. i # NoId
      BY MessageAssumption DEF NodeIds, NoId, Root
    <3> QED
      BY <2>1, <3>1, <3>2
  <2>3. PICK s \in Pids : nodeId[s] = i
    <3>1. i # Root
      BY <2>2, MessageAssumption DEF Root
    <3> QED
      BY <1>2, <3>1 DEF Inv, ControlInv, KnownNodesForked
  <2>4. nodeId'[s] = i
    BY <2>2, <2>3 DEF IdsKept
  <2>5. s = r
    BY <2>1, <2>2, <2>4 DEF OneEach
  <2>6. nodeId[r] = i /\ New[r] = Line[r]
    BY <2>2, <2>3, <2>5 DEF LinesStay
  <2> QED
    BY <1>2, <2>1, <2>6 DEF WayTo
<1>3. PICK Q : Q = up'
  OBVIOUS
<1>4. PICK S : S = down'
  OBVIOUS
<1>5. PICK P : P = pending_messages_'
  OBVIOUS
<1>6. Matched(Q, S, P, Way)
  BY <1>3, <1>4, <1>5 DEF WaitInv, AllMatched
<1>7. \A p \in Pids : \A n \in DOMAIN S[p] : Open(S[p][n], p, Later) => Open(S[p][n], p, Way)
  BY <1>1, <1>2, <1>4 DEF Open
<1>8. Matched(Q, S, P, Later)
  BY <1>6, <1>7, SameWay
<1>9. AllMatched(Later)'
  BY <1>3, <1>4, <1>5, <1>8 DEF AllMatched
<1> QED
  BY <1>9 DEF WaitInv

FirstInv ==
  FirstRun => \E D, Line : /\ Lines(D, Line)
                           /\ \E Way : Way = WayTo(nodeId, Line) /\ WaitInv(Way)

\* At the start nothing waits.
LEMMA FirstInit == Init => FirstInv
<1> SUFFICES ASSUME Init
             PROVE  FirstInv
  OBVIOUS
<1>1. PICK D, Line : D = [p \in Pids |-> 0] /\ Line = [p \in Pids |-> {}]
  OBVIOUS
<1>2. \A p \in Pids : nodeId[p] = NoId /\ up[p] = <<>> /\ down[p] = <<>>
  BY DEF Init, LinkInit
<1>3. \A a \in Pids \cup {Control} : ChildProcs(a) = {}
  BY <1>2, MessageAssumption DEF ChildProcs, Children, NoId
<1>4. Lines(D, Line)
  BY <1>1, <1>2, <1>3 DEF Lines
<1>5. PICK Way : Way = WayTo(nodeId, Line)
  OBVIOUS
<1>6. PICK u : u = [p \in Pids |-> [n \in Nat |-> 0]]
  OBVIOUS
<1>7. u \in Matching
  BY <1>6 DEF Matching
<1>8. Match(up, down, pending_messages_, Way, u, u)
  BY <1>2, <1>7 DEF Match, UpWaits, DownWaits, UpOnce, DownOnce, Apart
<1>9. AllMatched(Way)
  BY <1>8 DEF AllMatched, Matched
<1>10. Young /\ CreatesOnce /\ everKnown = node_ids_
  BY DEF Init, ControlInit, Young, CreatesOnce
<1>11. WaitInv(Way)
  BY <1>9, <1>10 DEF WaitInv
<1> QED
  BY <1>4, <1>5, <1>11 DEF FirstInv

\* And along the ways as they are after the step.
LEMMA FirstStep ==
  ASSUME Inv, Inv', CarefulInv, CarefulInv', FirstInv, [Next]_vars
  PROVE  FirstInv'
<1> SUFFICES ASSUME Careful, ~ ClockRuns, restarts' = 0
             PROVE  \E D, Line : /\ Lines(D, Line)'
                                 /\ \E Way : Way = WayTo(nodeId, Line)' /\ WaitInv(Way)'
  BY DEF FirstInv, FirstRun
<1>1. restarts = 0
  <2>1. restarts \in Nat
    BY DEF Inv, ControlInv, ControlTypeOK
  <2>2. ~ ControlRestart
    BY <2>1 DEF ControlRestart
  <2>3. UNCHANGED restarts
    BY <2>2 DEF Next, NodeStep, ControlStep, UserCommand, Connects, Kills, Tick,
      vars, ctlVars, CreateAnswered, PingAnswered, AddAnswered, FindAnswered,
      BeatReceived, CheckPending, CheckBeats, CreateCommand, ExecAddCommand,
      ExecFindCommand, PingCommand, HeartbeatCommand, SendRequest
  <2> QED
    BY <2>3
<1>2. AskedOnce /\ IdsKept /\ OneEach /\ OneEach'
  BY NextKeepsIds DEF CarefulInv, AskedOnce, OnceInv
<1>3. PICK D, Line : Lines(D, Line) /\ \E Way : Way = WayTo(nodeId, Line) /\ WaitInv(Way)
  BY <1>1 DEF FirstInv, FirstRun
<1>4. PICK Way : Way = WayTo(nodeId, Line) /\ WaitInv(Way)
  BY <1>3
<1>5. OneWay(Way)
  BY <1>2, <1>3, <1>4, WayIsOne DEF Inv
<1>6. WaitInv(Way)'
  BY <1>4, <1>5, WaitsStep
<1>7. PICK E, New : Lines(E, New)' /\ LinesStay(D, Line, E, New)
  BY <1>2, <1>3, LinesStep
<1>8. PICK Later : Later = WayTo(nodeId', New)
  OBVIOUS
<1>9. everKnown = node_ids_
  BY <1>4 DEF WaitInv
<1>10. WaitInv(Later)'
  BY <1>2, <1>4, <1>6, <1>7, <1>8, <1>9, WayStays
<1>11. Later = WayTo(nodeId, New)'
  BY <1>8 DEF WayTo
<1> QED
  BY <1>7, <1>10, <1>11

\* At the first control process every answer is matched, in every behaviour.
LEMMA SpecFirstInv == Spec => []FirstInv
<1>1. Spec => []Inv /\ []CarefulInv
  BY SpecInv, SpecCarefulInv
<1>2. Inv /\ Inv' /\ CarefulInv /\ CarefulInv' /\ FirstInv /\ [Next]_vars => FirstInv'
  BY FirstStep
<1> QED
  BY <1>1, <1>2, FirstInit, PTL DEF Spec

(***************************************************************************)
(* If the user never asks twice for a node, no request is given up and the *)
(* control process is the first, then there are never more answers of a    *)
(* kind under way than requests of that kind that wait: no answer erases   *)
(* the record of another request, and none comes twice, whatever is lost   *)
(* or killed, however deep the tree is (control.cpp:75-84,                 *)
(* nodes.cpp:127-131).                                                     *)
(***************************************************************************)
THEOREM EveryAnswerAwaited == Spec => []AnswersAwaited
<1>1. Inv /\ FirstInv => AnswersAwaited
  <2>1. SUFFICES ASSUME Inv, FirstInv, FirstRun,
                        NEW c \in {"Create", "Ping", "ExecAdd", "ExecFnd"}, NEW i \in Ids
                 PROVE  Cardinality(Answers(c, i)) <=
                          Cardinality({n \in DOMAIN pending_messages_ :
                                         WaitsFor(pending_messages_[n].msg, c, i)})
    BY DEF AnswersAwaited, FirstRun
  <2>2. PICK Way : WaitInv(Way)
    BY <2>1 DEF FirstInv
  <2>3. up \in [Pids -> Seq(Reply)] /\ pending_messages_ \in Seq(Pending)
    BY <2>1 DEF Inv, LinkInv, LinkTypeOK, ControlInv, ControlTypeOK
  <2> QED
    BY <2>2, <2>3, MatchedFewer DEF WaitInv, AllMatched
<1>2. Spec => []Inv /\ []FirstInv
  BY SpecInv, SpecFirstInv
<1> QED
  BY <1>1, <1>2, PTL

=============================================================================
