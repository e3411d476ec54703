-------------------------- MODULE SharedFilterProofs --------------------------
(***************************************************************************)
(* Proofs about Lab3, for any number of lines, of killed processes and of  *)
(* restarts: no child gets a torn line, the last line for the first memory *)
(* is written if nobody is killed, names follow the runs, and the program  *)
(* splits its input as LineSplitter promises.                              *)
(***************************************************************************)
EXTENDS SharedFilter, TLAPS

-----------------------------------------------------------------------------
(***************************************************************************)
(* The inductive invariant.  First, where the processes are.               *)
(***************************************************************************)
Feeding == {"feed", "wait", "store", "publish", "post"}
Working == {"fork1", "fork2", "finish2", "wait1", "wait2", "clean"} \cup Feeding

ParentPlace == {"start", "clean2"} \cup Working \cup Ended
ChildPlace  == {"unborn", "open", "loop", "loop2", "look", "wait", "copy",
                "clear", "post", "exited", "killed"}

Alive(c) == pc[c] \notin Ended \cup {"unborn"}

Places ==
  /\ pc[0] \in ParentPlace
  /\ \A c \in Child : pc[c] \in ChildPlace
  /\ \A p \in Process : pc[p] = "killed" => crashes > 0
  /\ pc[0] = "fork1" => ~ Alive(1) /\ ~ Alive(2)
  /\ pc[0] = "fork2" => ~ Alive(2)
  /\ pc[0] = "wait2" => pc[1] \in Ended
  /\ pc[0] \in {"clean", "clean2", "exited"} => pc[1] \in Ended /\ pc[2] \in Ended

(***************************************************************************)
(* The names are there as long as a run or a child of it is, and without a *)
(* kill they are gone when the run is over.                                *)
(***************************************************************************)
Names ==
  /\ pc[0] \in Working => named = Memory
  /\ \A c \in Child : Alive(c) => 1 \in named
  /\ pc[0] = "clean2" => 1 \notin named
  /\ pc[0] = "exited" => named = {}
  /\ pc[0] = "start" /\ crashes = 0 => named = {}
  /\ pc[0] = "refused" => crashes > 0

(***************************************************************************)
(* The semaphore: whoever is in a memory holds it, and only one is in the  *)
(* first memory.                                                           *)
(***************************************************************************)
ParentIn == pc[0] \in {"store", "publish", "post"}
ChildIn(c) == pc[c] \in {"copy", "clear", "post"}

Exclusion ==
  /\ ParentIn => sem[target] = 0
  /\ \A c \in Child : ChildIn(c) =>
       /\ sem[1] = 0
       /\ ParentIn => target # 1
       /\ \A d \in Child : ChildIn(d) => d = c

(***************************************************************************)
(* The first memory: text and length belong together when somebody other   *)
(* than the parent may look.                                               *)
(***************************************************************************)
Whole == size[1] # None => size[1] = data[1]

Contents ==
  /\ sem[1] = 1 => Whole
  /\ pc[0] \in {"wait", "store", "publish", "post"} => next > 1
  /\ pc[0] = "publish" => data[target] = next - 1
  /\ pc[0] = "post" => size[target] = data[target]
  /\ \A c \in Child : ChildIn(c) => Whole
  /\ \A c \in Child : pc[c] = "clear" =>
       buffer[c].text = size[1] /\ buffer[c].length = size[1]

(***************************************************************************)
(* Later lines come later: what is written came before what is in the      *)
(* memory, and that before what the parent has in its hands.               *)
(***************************************************************************)
Pending == pc[0] \in {"wait", "store", "publish"}

InOrder ==
  /\ \A c \in Child : \A n \in written[c] :
       /\ n < next
       /\ Pending => n < next - 1
       /\ size[1] # None => n < size[1]
  /\ size[1] < next
  /\ Pending => size[1] < next - 1

(***************************************************************************)
(* If nobody is killed, the last line drawn for the first memory is        *)
(* written, or in the memory, or in the parent's hands; a child leaves     *)
(* only a memory that is empty and stays so.                               *)
(***************************************************************************)
Last(n) == n \in drawn[1] /\ \A k \in drawn[1] : k <= n

NotLost ==
  /\ \A m \in Memory : \A n \in drawn[m] : n < next
  /\ Pending => next - 1 \in drawn[target]
  /\ pc[0] \in {"fork1", "fork2"} \cup Feeding => ~ done[1]
  /\ \A c \in Child : pc[c] = "loop2" => done[1]
  /\ crashes = 0 =>
       /\ \A n \in Line : Last(n) => \/ n \in written[1] \cup written[2]
                                     \/ size[1] = n
                                     \/ Pending /\ target = 1 /\ n = next - 1
       /\ pc[0] = "start" => size[1] = None
       /\ pc[0] \in {"fork2"} \cup Feeding => Alive(1)
       /\ pc[0] \in Feeding => Alive(2)
       /\ \A c \in Child : pc[c] = "exited" => size[1] = None

FilterInv ==
  /\ TypeOK /\ Places /\ Names /\ Exclusion /\ Contents /\ InOrder /\ NotLost

-----------------------------------------------------------------------------
LEMMA InitInv == Init => FilterInv
<1> SUFFICES ASSUME Init
             PROVE  FilterInv
  OBVIOUS
<1>1. TypeOK
  BY SharedAssumption DEF Init, TypeOK, Process, Child, Memory, MaybeLine, None
<1>2. Places /\ Names /\ Exclusion
  BY DEF Init, Places, Names, Exclusion, ParentPlace, ChildPlace, Working, Feeding,
         Alive, ParentIn, ChildIn, Ended, Process, Child, Memory
<1>3. Contents /\ InOrder /\ NotLost
  BY DEF Init, Contents, InOrder, NotLost, Whole, Pending, Last, Feeding, Alive, ChildIn,
         Process, Child, Memory, Ended, None
<1> QED
  BY <1>1, <1>2, <1>3 DEF FilterInv

-----------------------------------------------------------------------------
(***************************************************************************)
(* The types are kept; the semaphore stays 0 or 1, since a post is done by *)
(* the process that holds it.                                              *)
(***************************************************************************)
LEMMA TypeStep == FilterInv /\ Next => TypeOK'
<1> SUFFICES ASSUME FilterInv, Next
             PROVE  TypeOK'
  OBVIOUS
<1> USE DEF FilterInv, TypeOK, Process, Child, Memory, Line, MaybeLine, None,
            Exclusion, ParentIn, ChildIn, Contents, Ended
<1>1. CASE Prepare
  <2>1. CASE named = {} /\ Prepared
    BY SharedAssumption, <1>1, <2>1 DEF Prepare, Prepared, runs, Go
  <2>2. CASE named # {} /\ Go(0, "start", "refused")
              /\ UNCHANGED <<sem, data, size, done>>
    BY SharedAssumption, <1>1, <2>2 DEF Prepare, runs, Go
  <2> QED
    BY <1>1, <2>1, <2>2 DEF Prepare
<1>2. ASSUME NEW c \in Child, Fork(c)
      PROVE  TypeOK'
  BY SharedAssumption, <1>2 DEF Fork, runs, Go
<1>3. ASSUME NEW m \in Memory, ReadLine(m)
      PROVE  TypeOK'
  BY SharedAssumption, <1>3 DEF ReadLine, runs, Go
<1>4. CASE ParentWaits
  BY SharedAssumption, <1>4 DEF ParentWaits, runs, Go
<1>5. CASE Store
  BY SharedAssumption, <1>5 DEF Store, runs, Go
<1>6. CASE Publish
  BY SharedAssumption, <1>6 DEF Publish, runs, Go
<1>7. CASE ParentPosts
  BY SharedAssumption, <1>7 DEF ParentPosts, runs, Go
<1>8. ASSUME NEW m \in Memory, Finish(m)
      PROVE  TypeOK'
  BY SharedAssumption, <1>8 DEF Finish, runs, Go
<1>9. ASSUME NEW c \in Child, WaitFor(c)
      PROVE  TypeOK'
  BY SharedAssumption, <1>9 DEF WaitFor, runs, Go
<1>10. ASSUME NEW m \in Memory, CleanUp(m)
      PROVE  TypeOK'
  BY SharedAssumption, <1>10 DEF CleanUp, runs, Go
<1>11. ASSUME NEW c \in Child, Open(c)
      PROVE  TypeOK'
  BY SharedAssumption, <1>11 DEF Open, runs, Go, Mapped
<1>12. ASSUME NEW c \in Child, TestDone(c)
      PROVE  TypeOK'
  BY SharedAssumption, <1>12 DEF TestDone, runs, Go, Mapped
<1>13. ASSUME NEW c \in Child, TestSize(c)
      PROVE  TypeOK'
  BY SharedAssumption, <1>13 DEF TestSize, runs, Go, Mapped
<1>14. ASSUME NEW c \in Child, Look(c)
      PROVE  TypeOK'
  BY SharedAssumption, <1>14 DEF Look, runs, Go, Mapped
<1>15. ASSUME NEW c \in Child, ChildWaits(c)
      PROVE  TypeOK'
  BY SharedAssumption, <1>15 DEF ChildWaits, runs, Go, Mapped
<1>16. ASSUME NEW c \in Child, Copy(c)
      PROVE  TypeOK'
  BY SharedAssumption, <1>16 DEF Copy, runs, Go, Mapped
<1>17. ASSUME NEW c \in Child, WriteAndClear(c)
      PROVE  TypeOK'
  BY SharedAssumption, <1>17 DEF WriteAndClear, runs, Go, Mapped
<1>18. ASSUME NEW c \in Child, ChildPosts(c)
      PROVE  TypeOK'
  BY SharedAssumption, <1>18 DEF ChildPosts, runs, Go, Mapped
<1>19. ASSUME NEW p \in Process, Crash(p)
      PROVE  TypeOK'
  BY SharedAssumption, <1>19 DEF Crash, runs, Go
<1>20. CASE Restart
  BY SharedAssumption, <1>20 DEF Restart, runs, Go
<1> QED
  BY <1>1, <1>2, <1>3, <1>4, <1>5, <1>6, <1>7, <1>8, <1>9, <1>10, <1>11,
     <1>12, <1>13, <1>14, <1>15, <1>16, <1>17, <1>18, <1>19, <1>20
     DEF Next, ParentStep, ChildStep

(***************************************************************************)
(* The processes stay where the code lets them be: the parent waits for    *)
(* both children before it cleans up.                                      *)
(***************************************************************************)
LEMMA PlacesStep == FilterInv /\ Next => Places'
<1> SUFFICES ASSUME FilterInv, Next
             PROVE  Places'
  OBVIOUS
<1> USE DEF FilterInv, TypeOK, Process, Child, Memory, Places, ParentPlace,
            ChildPlace, Working, Feeding, Alive, Ended
<1>1. CASE Prepare
  <2>1. /\ pc[0] = "start" /\ crashes' = crashes
        /\ \/ pc' = [pc EXCEPT ![0] = "fork1"] /\ named = {}
           \/ pc' = [pc EXCEPT ![0] = "refused"]
    BY <1>1 DEF Prepare, Prepared, runs, Go
  <2>2. /\ pc'[1] = pc[1] /\ pc'[2] = pc[2]
        /\ \/ pc'[0] = "fork1" /\ named = {}
           \/ pc'[0] = "refused"
    BY <2>1
  <2>3. named = {} => ~ Alive(1) /\ ~ Alive(2)
    BY DEF Names
  <2> QED
    BY <2>1, <2>2, <2>3
<1>2. ASSUME NEW c \in Child, Fork(c)
      PROVE  Places'
  BY <1>2 DEF Fork, runs, Go
<1>3. ASSUME NEW m \in Memory, ReadLine(m)
      PROVE  Places'
  BY <1>3 DEF ReadLine, runs, Go
<1>4. CASE ParentWaits
  BY <1>4 DEF ParentWaits, runs, Go
<1>5. CASE Store
  BY <1>5 DEF Store, runs, Go
<1>6. CASE Publish
  BY <1>6 DEF Publish, runs, Go
<1>7. CASE ParentPosts
  BY <1>7 DEF ParentPosts, runs, Go
<1>8. ASSUME NEW m \in Memory, Finish(m)
      PROVE  Places'
  BY <1>8 DEF Finish, runs, Go
<1>9. ASSUME NEW c \in Child, WaitFor(c)
      PROVE  Places'
  BY <1>9 DEF WaitFor, runs, Go
<1>10. ASSUME NEW m \in Memory, CleanUp(m)
      PROVE  Places'
  BY <1>10 DEF CleanUp, runs, Go
<1>11. ASSUME NEW c \in Child, Open(c)
      PROVE  Places'
  BY <1>11 DEF Open, runs, Go, Mapped
<1>12. ASSUME NEW c \in Child, TestDone(c)
      PROVE  Places'
  BY <1>12 DEF TestDone, runs, Go, Mapped
<1>13. ASSUME NEW c \in Child, TestSize(c)
      PROVE  Places'
  BY <1>13 DEF TestSize, runs, Go, Mapped
<1>14. ASSUME NEW c \in Child, Look(c)
      PROVE  Places'
  BY <1>14 DEF Look, runs, Go, Mapped
<1>15. ASSUME NEW c \in Child, ChildWaits(c)
      PROVE  Places'
  BY <1>15 DEF ChildWaits, runs, Go, Mapped
<1>16. ASSUME NEW c \in Child, Copy(c)
      PROVE  Places'
  BY <1>16 DEF Copy, runs, Go, Mapped
<1>17. ASSUME NEW c \in Child, WriteAndClear(c)
      PROVE  Places'
  BY <1>17 DEF WriteAndClear, runs, Go, Mapped
<1>18. ASSUME NEW c \in Child, ChildPosts(c)
      PROVE  Places'
  BY <1>18 DEF ChildPosts, runs, Go, Mapped
<1>19. ASSUME NEW p \in Process, Crash(p)
      PROVE  Places'
  BY <1>19 DEF Crash, runs, Go
<1>20. CASE Restart
  BY <1>20 DEF Restart, runs, Go
<1> QED
  BY <1>1, <1>2, <1>3, <1>4, <1>5, <1>6, <1>7, <1>8, <1>9, <1>10, <1>11,
     <1>12, <1>13, <1>14, <1>15, <1>16, <1>17, <1>18, <1>19, <1>20
     DEF Next, ParentStep, ChildStep

(***************************************************************************)
(* The names stay as long as somebody uses them, and are taken away by a   *)
(* run that ends by itself.                                                *)
(***************************************************************************)
LEMMA NamesStep == FilterInv /\ Next => Names'
<1> SUFFICES ASSUME FilterInv, Next
             PROVE  Names'
  OBVIOUS
<1> USE DEF FilterInv, TypeOK, Process, Child, Memory, Places, ParentPlace,
            ChildPlace, Working, Feeding, Alive, Ended, Names
<1>1. CASE Prepare
  <2>1. pc[0] = "start" /\ named' = Memory /\ crashes' = crashes
    BY <1>1 DEF Prepare, Prepared, runs, Go
  <2>2. CASE pc' = [pc EXCEPT ![0] = "fork1"]
    BY <2>1, <2>2
  <2>3. CASE pc' = [pc EXCEPT ![0] = "refused"] /\ named # {}
    <3>1. crashes # 0
      BY <2>1, <2>3
    <3>2. crashes' > 0
      BY <2>1, <3>1
    <3> QED
      BY <2>1, <2>3, <3>2
  <2> QED
    BY <1>1, <2>2, <2>3 DEF Prepare, Prepared, Go
<1>2. ASSUME NEW c \in Child, Fork(c)
      PROVE  Names'
  BY <1>2 DEF Fork, runs, Go
<1>3. ASSUME NEW m \in Memory, ReadLine(m)
      PROVE  Names'
  BY <1>3 DEF ReadLine, runs, Go
<1>4. CASE ParentWaits
  BY <1>4 DEF ParentWaits, runs, Go
<1>5. CASE Store
  BY <1>5 DEF Store, runs, Go
<1>6. CASE Publish
  BY <1>6 DEF Publish, runs, Go
<1>7. CASE ParentPosts
  BY <1>7 DEF ParentPosts, runs, Go
<1>8. ASSUME NEW m \in Memory, Finish(m)
      PROVE  Names'
  BY <1>8 DEF Finish, runs, Go
<1>9. ASSUME NEW c \in Child, WaitFor(c)
      PROVE  Names'
  BY <1>9 DEF WaitFor, runs, Go
<1>10. ASSUME NEW m \in Memory, CleanUp(m)
      PROVE  Names'
  BY <1>10 DEF CleanUp, runs, Go
<1>11. ASSUME NEW c \in Child, Open(c)
      PROVE  Names'
  BY <1>11 DEF Open, runs, Go, Mapped
<1>12. ASSUME NEW c \in Child, TestDone(c)
      PROVE  Names'
  BY <1>12 DEF TestDone, runs, Go, Mapped
<1>13. ASSUME NEW c \in Child, TestSize(c)
      PROVE  Names'
  BY <1>13 DEF TestSize, runs, Go, Mapped
<1>14. ASSUME NEW c \in Child, Look(c)
      PROVE  Names'
  BY <1>14 DEF Look, runs, Go, Mapped
<1>15. ASSUME NEW c \in Child, ChildWaits(c)
      PROVE  Names'
  BY <1>15 DEF ChildWaits, runs, Go, Mapped
<1>16. ASSUME NEW c \in Child, Copy(c)
      PROVE  Names'
  BY <1>16 DEF Copy, runs, Go, Mapped
<1>17. ASSUME NEW c \in Child, WriteAndClear(c)
      PROVE  Names'
  BY <1>17 DEF WriteAndClear, runs, Go, Mapped
<1>18. ASSUME NEW c \in Child, ChildPosts(c)
      PROVE  Names'
  BY <1>18 DEF ChildPosts, runs, Go, Mapped
<1>19. ASSUME NEW p \in Process, Crash(p)
      PROVE  Names'
  BY <1>19 DEF Crash, runs, Go
<1>20. CASE Restart
  BY <1>20 DEF Restart, runs, Go
<1> QED
  BY <1>1, <1>2, <1>3, <1>4, <1>5, <1>6, <1>7, <1>8, <1>9, <1>10, <1>11,
     <1>12, <1>13, <1>14, <1>15, <1>16, <1>17, <1>18, <1>19, <1>20
     DEF Next, ParentStep, ChildStep

(***************************************************************************)
(* Only one process at a time is in the first memory.                      *)
(***************************************************************************)
LEMMA ExclusionStep == FilterInv /\ Next => Exclusion'
<1> SUFFICES ASSUME FilterInv, Next
             PROVE  Exclusion'
  OBVIOUS
<1> USE DEF FilterInv, TypeOK, Process, Child, Memory, Places, ParentPlace,
            ChildPlace, Working, Feeding, Alive, Ended, Names, Exclusion,
            ParentIn, ChildIn
<1>1. CASE Prepare
  <2>1. CASE named = {} /\ Prepared
    BY <1>1, <2>1 DEF Prepare, Prepared, runs, Go
  <2>2. CASE named # {} /\ Go(0, "start", "refused")
              /\ UNCHANGED <<sem, data, size, done>>
    BY <1>1, <2>2 DEF Prepare, runs, Go
  <2> QED
    BY <1>1, <2>1, <2>2 DEF Prepare
<1>2. ASSUME NEW c \in Child, Fork(c)
      PROVE  Exclusion'
  BY <1>2 DEF Fork, runs, Go
<1>3. ASSUME NEW m \in Memory, ReadLine(m)
      PROVE  Exclusion'
  BY <1>3 DEF ReadLine, runs, Go
<1>4. CASE ParentWaits
  BY <1>4 DEF ParentWaits, runs, Go
<1>5. CASE Store
  BY <1>5 DEF Store, runs, Go
<1>6. CASE Publish
  BY <1>6 DEF Publish, runs, Go
<1>7. CASE ParentPosts
  BY <1>7 DEF ParentPosts, runs, Go
<1>8. ASSUME NEW m \in Memory, Finish(m)
      PROVE  Exclusion'
  BY <1>8 DEF Finish, runs, Go
<1>9. ASSUME NEW c \in Child, WaitFor(c)
      PROVE  Exclusion'
  BY <1>9 DEF WaitFor, runs, Go
<1>10. ASSUME NEW m \in Memory, CleanUp(m)
      PROVE  Exclusion'
  BY <1>10 DEF CleanUp, runs, Go
<1>11. ASSUME NEW c \in Child, Open(c)
      PROVE  Exclusion'
  BY <1>11 DEF Open, runs, Go, Mapped
<1>12. ASSUME NEW c \in Child, TestDone(c)
      PROVE  Exclusion'
  BY <1>12 DEF TestDone, runs, Go, Mapped
<1>13. ASSUME NEW c \in Child, TestSize(c)
      PROVE  Exclusion'
  BY <1>13 DEF TestSize, runs, Go, Mapped
<1>14. ASSUME NEW c \in Child, Look(c)
      PROVE  Exclusion'
  BY <1>14 DEF Look, runs, Go, Mapped
<1>15. ASSUME NEW c \in Child, ChildWaits(c)
      PROVE  Exclusion'
  BY <1>15 DEF ChildWaits, runs, Go, Mapped
<1>16. ASSUME NEW c \in Child, Copy(c)
      PROVE  Exclusion'
  BY <1>16 DEF Copy, runs, Go, Mapped
<1>17. ASSUME NEW c \in Child, WriteAndClear(c)
      PROVE  Exclusion'
  BY <1>17 DEF WriteAndClear, runs, Go, Mapped
<1>18. ASSUME NEW c \in Child, ChildPosts(c)
      PROVE  Exclusion'
  BY <1>18 DEF ChildPosts, runs, Go, Mapped
<1>19. ASSUME NEW p \in Process, Crash(p)
      PROVE  Exclusion'
  BY <1>19 DEF Crash, runs, Go
<1>20. CASE Restart
  BY <1>20 DEF Restart, runs, Go
<1> QED
  BY <1>1, <1>2, <1>3, <1>4, <1>5, <1>6, <1>7, <1>8, <1>9, <1>10, <1>11,
     <1>12, <1>13, <1>14, <1>15, <1>16, <1>17, <1>18, <1>19, <1>20
     DEF Next, ParentStep, ChildStep

(***************************************************************************)
(* Text and length in the first memory belong together whenever the        *)
(* semaphore is free.                                                      *)
(***************************************************************************)
LEMMA ContentsStep == FilterInv /\ Next => Contents'
<1> SUFFICES ASSUME FilterInv, Next
             PROVE  Contents'
  OBVIOUS
<1> USE DEF FilterInv, TypeOK, Process, Child, Memory, Places, ParentPlace,
            ChildPlace, Working, Feeding, Alive, Ended, Names, Exclusion,
            ParentIn, ChildIn, Contents, Whole
<1>1. CASE Prepare
  <2>1. CASE named = {} /\ Prepared
    BY <1>1, <2>1 DEF Prepare, Prepared, runs, Go
  <2>2. CASE named # {} /\ Go(0, "start", "refused")
              /\ UNCHANGED <<sem, data, size, done>>
    BY <1>1, <2>2 DEF Prepare, runs, Go
  <2> QED
    BY <1>1, <2>1, <2>2 DEF Prepare
<1>2. ASSUME NEW c \in Child, Fork(c)
      PROVE  Contents'
  BY <1>2 DEF Fork, runs, Go
<1>3. ASSUME NEW m \in Memory, ReadLine(m)
      PROVE  Contents'
  BY <1>3 DEF ReadLine, runs, Go
<1>4. CASE ParentWaits
  BY <1>4 DEF ParentWaits, runs, Go
<1>5. CASE Store
  BY <1>5 DEF Store, runs, Go
<1>6. CASE Publish
  BY <1>6 DEF Publish, runs, Go
<1>7. CASE ParentPosts
  BY <1>7 DEF ParentPosts, runs, Go
<1>8. ASSUME NEW m \in Memory, Finish(m)
      PROVE  Contents'
  BY <1>8 DEF Finish, runs, Go
<1>9. ASSUME NEW c \in Child, WaitFor(c)
      PROVE  Contents'
  BY <1>9 DEF WaitFor, runs, Go
<1>10. ASSUME NEW m \in Memory, CleanUp(m)
      PROVE  Contents'
  BY <1>10 DEF CleanUp, runs, Go
<1>11. ASSUME NEW c \in Child, Open(c)
      PROVE  Contents'
  BY <1>11 DEF Open, runs, Go, Mapped
<1>12. ASSUME NEW c \in Child, TestDone(c)
      PROVE  Contents'
  BY <1>12 DEF TestDone, runs, Go, Mapped
<1>13. ASSUME NEW c \in Child, TestSize(c)
      PROVE  Contents'
  BY <1>13 DEF TestSize, runs, Go, Mapped
<1>14. ASSUME NEW c \in Child, Look(c)
      PROVE  Contents'
  BY <1>14 DEF Look, runs, Go, Mapped
<1>15. ASSUME NEW c \in Child, ChildWaits(c)
      PROVE  Contents'
  BY <1>15 DEF ChildWaits, runs, Go, Mapped
<1>16. ASSUME NEW c \in Child, Copy(c)
      PROVE  Contents'
  BY <1>16 DEF Copy, runs, Go, Mapped
<1>17. ASSUME NEW c \in Child, WriteAndClear(c)
      PROVE  Contents'
  BY <1>17 DEF WriteAndClear, runs, Go, Mapped
<1>18. ASSUME NEW c \in Child, ChildPosts(c)
      PROVE  Contents'
  BY <1>18 DEF ChildPosts, runs, Go, Mapped
<1>19. ASSUME NEW p \in Process, Crash(p)
      PROVE  Contents'
  BY <1>19 DEF Crash, runs, Go
<1>20. CASE Restart
  BY <1>20 DEF Restart, runs, Go
<1> QED
  BY <1>1, <1>2, <1>3, <1>4, <1>5, <1>6, <1>7, <1>8, <1>9, <1>10, <1>11,
     <1>12, <1>13, <1>14, <1>15, <1>16, <1>17, <1>18, <1>19, <1>20
     DEF Next, ParentStep, ChildStep

(***************************************************************************)
(* Whatever is written came before what is still to be written.            *)
(***************************************************************************)
LEMMA InOrderStep == FilterInv /\ Next => InOrder'
<1> SUFFICES ASSUME FilterInv, Next
             PROVE  InOrder'
  OBVIOUS
<1> USE DEF FilterInv, TypeOK, Process, Child, Memory, Places, ParentPlace,
            ChildPlace, Working, Feeding, Alive, Ended, Names, Exclusion,
            ParentIn, ChildIn, Contents, Whole, InOrder, Pending, MaybeLine,
            Line, None
<1>1. CASE Prepare
  <2>1. CASE named = {} /\ Prepared
    BY <1>1, <2>1 DEF Prepare, Prepared, runs, Go
  <2>2. CASE named # {} /\ Go(0, "start", "refused")
              /\ UNCHANGED <<sem, data, size, done>>
    BY <1>1, <2>2 DEF Prepare, runs, Go
  <2> QED
    BY <1>1, <2>1, <2>2 DEF Prepare
<1>2. ASSUME NEW c \in Child, Fork(c)
      PROVE  InOrder'
  BY <1>2 DEF Fork, runs, Go
<1>3. ASSUME NEW m \in Memory, ReadLine(m)
      PROVE  InOrder'
  <2>1. /\ next \in Nat /\ next' = next + 1 /\ written' = written /\ size' = size
        /\ size[1] \in Nat /\ Pending' /\ next' - 1 = next
    BY <1>3, SharedAssumption DEF ReadLine, Go, runs
  <2>2. ASSUME NEW c \in Child, NEW n \in written[c]
        PROVE  n < next /\ (size[1] # None => n < size[1])
    BY <2>2
  <2> QED
    BY <2>1, <2>2
<1>4. CASE ParentWaits
  BY <1>4 DEF ParentWaits, runs, Go
<1>5. CASE Store
  BY <1>5 DEF Store, runs, Go
<1>6. CASE Publish
  BY <1>6 DEF Publish, runs, Go
<1>7. CASE ParentPosts
  BY <1>7 DEF ParentPosts, runs, Go
<1>8. ASSUME NEW m \in Memory, Finish(m)
      PROVE  InOrder'
  BY <1>8 DEF Finish, runs, Go
<1>9. ASSUME NEW c \in Child, WaitFor(c)
      PROVE  InOrder'
  BY <1>9 DEF WaitFor, runs, Go
<1>10. ASSUME NEW m \in Memory, CleanUp(m)
      PROVE  InOrder'
  BY <1>10 DEF CleanUp, runs, Go
<1>11. ASSUME NEW c \in Child, Open(c)
      PROVE  InOrder'
  BY <1>11 DEF Open, runs, Go, Mapped
<1>12. ASSUME NEW c \in Child, TestDone(c)
      PROVE  InOrder'
  BY <1>12 DEF TestDone, runs, Go, Mapped
<1>13. ASSUME NEW c \in Child, TestSize(c)
      PROVE  InOrder'
  BY <1>13 DEF TestSize, runs, Go, Mapped
<1>14. ASSUME NEW c \in Child, Look(c)
      PROVE  InOrder'
  BY <1>14 DEF Look, runs, Go, Mapped
<1>15. ASSUME NEW c \in Child, ChildWaits(c)
      PROVE  InOrder'
  BY <1>15 DEF ChildWaits, runs, Go, Mapped
<1>16. ASSUME NEW c \in Child, Copy(c)
      PROVE  InOrder'
  BY <1>16 DEF Copy, runs, Go, Mapped
<1>17. ASSUME NEW c \in Child, WriteAndClear(c)
      PROVE  InOrder'
  BY <1>17 DEF WriteAndClear, runs, Go, Mapped
<1>18. ASSUME NEW c \in Child, ChildPosts(c)
      PROVE  InOrder'
  BY <1>18 DEF ChildPosts, runs, Go, Mapped
<1>19. ASSUME NEW p \in Process, Crash(p)
      PROVE  InOrder'
  BY <1>19 DEF Crash, runs, Go
<1>20. CASE Restart
  BY <1>20 DEF Restart, runs, Go
<1> QED
  BY <1>1, <1>2, <1>3, <1>4, <1>5, <1>6, <1>7, <1>8, <1>9, <1>10, <1>11,
     <1>12, <1>13, <1>14, <1>15, <1>16, <1>17, <1>18, <1>19, <1>20
     DEF Next, ParentStep, ChildStep

(***************************************************************************)
(* Without a kill the last line for the first memory is never lost: a line *)
(* in the memory is taken or overwritten by a later one.                   *)
(***************************************************************************)
LEMMA NotLostStep == FilterInv /\ Next => NotLost'
<1> SUFFICES ASSUME FilterInv, Next
             PROVE  NotLost'
  OBVIOUS
<1> USE DEF FilterInv, TypeOK, Process, Child, Memory, Places, ParentPlace,
            ChildPlace, Working, Feeding, Alive, Ended, Names, Exclusion,
            ParentIn, ChildIn, Contents, Whole, InOrder, Pending, NotLost,
            Last, MaybeLine, Line, None
<1>1. CASE Prepare
  <2>1. CASE named = {} /\ Prepared
    BY <1>1, <2>1 DEF Prepare, Prepared, runs, Go
  <2>2. CASE named # {} /\ Go(0, "start", "refused")
              /\ UNCHANGED <<sem, data, size, done>>
    BY <1>1, <2>2 DEF Prepare, runs, Go
  <2> QED
    BY <1>1, <2>1, <2>2 DEF Prepare
<1>2. ASSUME NEW c \in Child, Fork(c)
      PROVE  NotLost'
  BY <1>2 DEF Fork, runs, Go
<1>3. ASSUME NEW m \in Memory, ReadLine(m)
      PROVE  NotLost'
  BY <1>3 DEF ReadLine, runs, Go
<1>4. CASE ParentWaits
  BY <1>4 DEF ParentWaits, runs, Go
<1>5. CASE Store
  BY <1>5 DEF Store, runs, Go
<1>6. CASE Publish
  BY <1>6 DEF Publish, runs, Go
<1>7. CASE ParentPosts
  BY <1>7 DEF ParentPosts, runs, Go
<1>8. ASSUME NEW m \in Memory, Finish(m)
      PROVE  NotLost'
  BY <1>8 DEF Finish, runs, Go
<1>9. ASSUME NEW c \in Child, WaitFor(c)
      PROVE  NotLost'
  BY <1>9 DEF WaitFor, runs, Go
<1>10. ASSUME NEW m \in Memory, CleanUp(m)
      PROVE  NotLost'
  BY <1>10 DEF CleanUp, runs, Go
<1>11. ASSUME NEW c \in Child, Open(c)
      PROVE  NotLost'
  BY <1>11 DEF Open, runs, Go, Mapped
<1>12. ASSUME NEW c \in Child, TestDone(c)
      PROVE  NotLost'
  BY <1>12 DEF TestDone, runs, Go, Mapped
<1>13. ASSUME NEW c \in Child, TestSize(c)
      PROVE  NotLost'
  BY <1>13 DEF TestSize, runs, Go, Mapped
<1>14. ASSUME NEW c \in Child, Look(c)
      PROVE  NotLost'
  BY <1>14 DEF Look, runs, Go, Mapped
<1>15. ASSUME NEW c \in Child, ChildWaits(c)
      PROVE  NotLost'
  BY <1>15 DEF ChildWaits, runs, Go, Mapped
<1>16. ASSUME NEW c \in Child, Copy(c)
      PROVE  NotLost'
  BY <1>16 DEF Copy, runs, Go, Mapped
<1>17. ASSUME NEW c \in Child, WriteAndClear(c)
      PROVE  NotLost'
  BY <1>17 DEF WriteAndClear, runs, Go, Mapped
<1>18. ASSUME NEW c \in Child, ChildPosts(c)
      PROVE  NotLost'
  BY <1>18 DEF ChildPosts, runs, Go, Mapped
<1>19. ASSUME NEW p \in Process, Crash(p)
      PROVE  NotLost'
  BY <1>19 DEF Crash, runs, Go
<1>20. CASE Restart
  BY <1>20 DEF Restart, runs, Go
<1> QED
  BY <1>1, <1>2, <1>3, <1>4, <1>5, <1>6, <1>7, <1>8, <1>9, <1>10, <1>11,
     <1>12, <1>13, <1>14, <1>15, <1>16, <1>17, <1>18, <1>19, <1>20
     DEF Next, ParentStep, ChildStep

(***************************************************************************)
(* The invariant holds in every state of every behaviour.                  *)
(***************************************************************************)
LEMMA SpecInv == Spec => []FilterInv
<1>1. Init => FilterInv
  BY InitInv
<1>2. FilterInv /\ UNCHANGED vars => FilterInv'
  BY DEF FilterInv, TypeOK, Places, Names, Exclusion, Contents, InOrder, NotLost, Alive,
         ParentIn, ChildIn, Whole, Pending, Last, vars
<1>3. FilterInv /\ Next => FilterInv'
  BY TypeStep, PlacesStep, NamesStep, ExclusionStep, ContentsStep, InOrderStep,
     NotLostStep DEF FilterInv
<1> QED
  BY <1>1, <1>2, <1>3, PTL DEF Spec

-----------------------------------------------------------------------------
(***************************************************************************)
(* Every variable keeps its type; above all a semaphore is never more than *)
(* 1, so that it is a lock (parent.cpp:29-36, 107-117, child1.cpp:72-88).  *)
(***************************************************************************)
THEOREM TypeCorrect == Spec => []TypeOK
<1>1. FilterInv => TypeOK
  BY DEF FilterInv
<1> QED
  BY <1>1, SpecInv, PTL

(***************************************************************************)
(* No child gets the text of one line with the length of another, whoever  *)
(* is killed and however often the program is started again                *)
(* (parent.cpp:110-116, child1.cpp:73-85).                                 *)
(***************************************************************************)
THEOREM NobodyGetsATornLine == Spec => []NoTornLine
<1>1. FilterInv => NoTornLine
  BY DEF FilterInv, Contents, NoTornLine
<1> QED
  BY <1>1, SpecInv, PTL

(***************************************************************************)
(* If nobody is killed, the last line drawn for the first memory is in a   *)
(* file when the run is over (child1.cpp:70, parent.cpp:119-125).          *)
(***************************************************************************)
THEOREM LastLineArrives == Spec => []LastLineWritten
<1>1. FilterInv => LastLineWritten
  <2> SUFFICES ASSUME FilterInv, pc[0] = "exited", crashes = 0,
                      NEW n \in drawn[1], \A k \in drawn[1] : k <= n
               PROVE  n \in written[1] \cup written[2]
    BY DEF LastLineWritten
  <2>1. n \in Line /\ Last(n)
    BY DEF FilterInv, TypeOK, Memory, Last
  <2>2. pc[1] = "exited"
    BY DEF FilterInv, Places, ChildPlace, Ended, Process, Child
  <2>3. size[1] = None /\ ~ Pending
    BY <2>2 DEF FilterInv, NotLost, Child, Pending
  <2> QED
    BY <2>1, <2>3 DEF FilterInv, NotLost, Line, None
<1> QED
  BY <1>1, SpecInv, PTL

(***************************************************************************)
(* The names in the system follow the runs: nobody truncates a file that a *)
(* living child has mapped, and only after a kill a run refuses to start   *)
(* (parent.cpp:14, 32-38 and 124-138, child1.cpp:33-43).                   *)
(***************************************************************************)
THEOREM NamesAreKept == Spec => []NamesFollowRuns
<1>1. FilterInv => NamesFollowRuns
  BY DEF FilterInv, Names, NamesFollowRuns, Alive, Mapped
<1> QED
  BY <1>1, SpecInv, PTL

-----------------------------------------------------------------------------
(***************************************************************************)
(* Lab3 keeps the promise of LineSplitter: a child that writes a line      *)
(* writes the one in the first memory, which came after everything that    *)
(* was written, in either file; every other step leaves the files alone    *)
(* (child1.cpp:72-88, parent.cpp:104-117).                                 *)
(***************************************************************************)
THEOREM SplitsAsPromised == Spec => Splits
<1>1. Init => Splitter!Init
  BY DEF Init, Splitter!Init, Child, Splitter!Child
<1>2. FilterInv /\ Next => Splitter!Next \/ UNCHANGED written
  <2> SUFFICES ASSUME FilterInv, Next
               PROVE  Splitter!Next \/ UNCHANGED written
    OBVIOUS
  <2>1. ASSUME NEW c \in Child, WriteAndClear(c)
        PROVE  Splitter!Next \/ UNCHANGED written
    <3> DEFINE n == buffer[c].text
    <3>1. /\ pc[c] = "clear" /\ n = size[1] /\ n \in MaybeLine
          /\ written' = [written EXCEPT ![c] = @ \cup ({n} \ {None})]
      BY <2>1 DEF WriteAndClear, Go, FilterInv, Contents, TypeOK, Child, Memory
    <3>2. CASE n = None
      BY <3>1, <3>2 DEF FilterInv, TypeOK, Child
    <3>3. CASE n # None
      <4>1. n \in 1 .. Lines
        BY <3>1, <3>3 DEF MaybeLine, Line
      <4>2. \A d \in Child : \A m \in written[d] : m < n
        BY <3>1, <3>3 DEF FilterInv, InOrder
      <4>3. \A d \in Child : n \notin written[d]
        BY <4>1, <4>2
      <4>4. written' = [written EXCEPT ![c] = @ \cup {n}]
        BY <3>1, <3>3
      <4> QED
        BY <4>1, <4>2, <4>3, <4>4 DEF Splitter!Next, Splitter!Write, Splitter!Child, Child
    <3> QED
      BY <3>2, <3>3
  <2>2. ASSUME ~ \E c \in Child : WriteAndClear(c)
        PROVE  UNCHANGED written
    BY <2>2 DEF Next, ParentStep, ChildStep, Prepare, Fork, ReadLine, ParentWaits, Store,
           Publish, ParentPosts, Finish, WaitFor, CleanUp, Open, TestDone, TestSize,
           Look, ChildWaits, Copy, ChildPosts, Crash, Restart
  <2> QED
    BY <2>1, <2>2
<1>3. UNCHANGED vars => UNCHANGED written
  BY DEF vars
<1> QED
  BY <1>1, <1>2, <1>3, SpecInv, PTL DEF Spec, Splits, Splitter!Spec
================================================================================
