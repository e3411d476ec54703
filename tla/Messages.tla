------------------------------ MODULE Messages ------------------------------
(***************************************************************************)
(* The messages of the distributed computing system of Lab5: class Message *)
(* and enum CommandType.  A message is sent as its raw bytes, so a record  *)
(* is its faithful image.  sent_time is never read by a receiver; the      *)
(* controller alone uses it, on the copies it keeps in pending_messages_,  *)
(* where module Controller models it as an age.                            *)
(***************************************************************************)
EXTENDS Integers, Sequences

CONSTANTS
  Ids,     \* identifiers a user gives to computing nodes
  Keys,    \* names a user stores values under
  NoKey,   \* the empty val buffer of a message built without a string
  Stored,  \* Stored[k]: what the 30-byte val buffer keeps of the name k
  Periods  \* heartbeat periods a user may ask for, in ticks; 0 stops beats

ASSUME MessageAssumption ==
  /\ Ids \subseteq Nat
  /\ NoKey \notin Keys
  /\ Stored \in [Keys -> Keys]
  /\ \A k \in Keys : Stored[Stored[k]] = Stored[k]
  /\ Periods \subseteq Nat

\* The identifier of the control node; also the default of Message::id.
Root == -1

NodeIds == Ids \cup {Root}

(***************************************************************************)
(* The use of each member of CommandType but None, which stands for        *)
(* "nothing was received".  A request travels down to node id:             *)
(***************************************************************************)
Request ==
  [command : {"Create"}, id : NodeIds, add_data : Ids, val : {NoKey}] \cup
  [command : {"Ping"}, id : NodeIds, add_data : {0}, val : {NoKey}] \cup
  [command : {"ExecAdd"}, id : NodeIds, add_data : Nat, val : Keys] \cup
  [command : {"ExecFnd"}, id : NodeIds, add_data : {-1}, val : Keys] \cup
  [command : {"HeartBeat"}, id : {Root}, add_data : Periods, val : {NoKey}]

\* ... and a reply travels up from node id, or from the parent of a new
\* node id, whose pid it then carries.
Reply ==
  [command : {"Create"}, id : Ids, add_data : Nat, val : {NoKey}] \cup
  [command : {"Ping"}, id : Ids, add_data : {0}, val : {NoKey}] \cup
  [command : {"ExecAdd", "ExecFnd"}, id : Ids, add_data : Nat, val : Keys] \cup
  [command : {"ExecErr"}, id : Ids, add_data : {-1}, val : Keys] \cup
  [command : {"HeartBeat"}, id : Ids, add_data : {-1}, val : {NoKey}]

\* The constructor without a string ...
Msg(cmd, id, data) ==
  [command |-> cmd, id |-> id, add_data |-> data, val |-> NoKey]

\* ... and the one that copies a string, cut to what fits into val.
MsgVal(cmd, id, data, key) ==
  [command |-> cmd, id |-> id, add_data |-> data, val |-> Stored[key]]
=============================================================================
