-------------------------- MODULE BufferCacheProofs --------------------------
(***************************************************************************)
(* Theorems about BufferCache, for every number of buffers and of inodes,  *)
(* every finite set of processes and every set of blocks, however deep the *)
(* calls of write_inode nest.                                              *)
(***************************************************************************)
EXTENDS BufferCache, FiniteSetTheorems, TLAPS

USE ConstantsAssumption DEF Buffers, NULL

(* The labels of a process inside getblk. *)
InGetblk(f) == \/ pc[f] \in {"repeat", "hash_wait", "sleep", "victim_wait", "got"}
               \/ pc[f] \in {"sync", "inodes"} /\ op[f] # "sync"

(* What the locals of a process hold, by where it is. *)
ControlAt(f) ==
  /\ pc[f] \in Holding \cup {"victim_wait"} => bh[f] \in Buffers
  /\ pc[f] \in {"sync", "inodes"} /\ op[f] # "sync" => bh[f] \in Buffers
  /\ InGetblk(f) => want[f] \in Blocks
  /\ pc[f] \notin {"idle", "lock_inode"} /\ op[f] # "sync" => asked[f] \in Blocks
  /\ op[f] = "sync" => pc[f] \in {"sync", "inodes"}
  /\ pc[f] = "lock_inode" => inode[f] \in Inodes /\ op[f] = "write_inode"
  /\ pc[f] = "ahead" => first[f] \in Buffers
  /\ first[f] # NULL => op[f] = "breada" /\ (InGetblk(f) \/ pc[f] = "ahead")
  /\ InGetblk(f) /\ first[f] = NULL => want[f] = asked[f]
  /\ ahead[f] \subseteq Blocks

ControlInv == \A f \in Frames : ControlAt(f)

(* A buffer that is locked or dirty has a block. *)
HeadInv ==
  \A b \in Buffers : b_lock[b] # "free" \/ b_dirt[b] => b_ident[b] \in Blocks

(* A process in get_hash_table's wait also holds the block it looks for. *)
HolderInv ==
  /\ HolderKeepsBlock
  /\ \A f \in Frames : pc[f] = "hash_wait" => b_ident[bh[f]] = want[f]

(* What may be said of the data of one buffer: it is what was last written *)
(* to the block when the buffer is dirty, being written or up to date; a   *)
(* WRITE carries it unless it changed on the way; a READ never runs on an  *)
(* up to date buffer, and over dirty data only at the cost of losing it.   *)
DataAt(b) ==
  /\ b_dirt[b] \/ b_uptodate[b] \/ b_lock[b] = "WRITE"
       => fresh[b] \/ b_ident[b] \in lost
  /\ b_lock[b] = "WRITE" => xfer[b] \/ b_dirt[b] \/ b_ident[b] \in lost
  /\ b_lock[b] = "READ" => ~b_uptodate[b] /\ (b_dirt[b] => b_ident[b] \in lost)
  /\ b_dirt[b] /\ ~b_uptodate[b] => ~disk[b_ident[b]] \/ b_ident[b] \in lost
  /\ b_uptodate[b] => b_ident[b] \in Blocks

DataInv ==
  /\ \A b \in Buffers : DataAt(b)
  /\ \A f \in Frames : pc[f] = "use" => b_uptodate[bh[f]]

(* The part of the inductive invariant that does not speak of the data.    *)
IInv == /\ TypeOK
        /\ ControlInv
        /\ HeadInv
        /\ Coherent
        /\ RefCount
        /\ HolderInv

-----------------------------------------------------------------------------
(* Setting one buffer's reference count leaves the counts well typed. *)
LEMMA CountUpdate ==
  ASSUME NEW count \in [Buffers -> Int], NEW b \in Buffers, NEW n \in Int
  PROVE  [count EXCEPT ![b] = n] \in [Buffers -> Int]
  OBVIOUS

LEMMA CountDown ==
  ASSUME NEW count \in [Buffers -> Int], NEW b \in Buffers
  PROVE  [count EXCEPT ![b] = count[b] - 1] \in [Buffers -> Int]
<1>1. count[b] \in Int /\ count[b] - 1 \in Int
  OBVIOUS
<1>. QED
  BY <1>1, CountUpdate

(* The block that get_hash_table waits for is still there when it wakes.   *)
LEMMA HashReadyGets ==
  ASSUME IInv, NEW f \in Frames, HashReady(f)
  PROVE  /\ pc[f] = "hash_wait" /\ pc' = [pc EXCEPT ![f] = "got"]
         /\ UNCHANGED <<headVars, dataVars, bh, callVars, syncVars>>
<1>1. b_ident[bh[f]] = want[f]
  BY DEF HashReady, IInv, HolderInv
<1>. QED
  BY <1>1 DEF HashReady, Goto, headVars

(* Putting a buffer at the end of the free list yields a list of buffers.  *)
LEMMA MoveToTailType ==
  ASSUME NEW list \in [Buffers -> Buffers], NEW b \in Buffers
  PROVE  MoveToTail(list, b) \in [Buffers -> Buffers]
<1>. DEFINE at == CHOOSE i \in Buffers : list[i] = b
            elem(i) == IF i < at THEN list[i]
                       ELSE IF i < NR_BUFFERS THEN list[i + 1] ELSE b
<1>1. \A i \in Buffers : elem(i) \in Buffers
  BY SMTT(60)
<1>. HIDE DEF elem
<1>2. [i \in Buffers |-> elem(i)] \in [Buffers -> Buffers]
  BY <1>1
<1>. QED
  BY <1>2 DEF MoveToTail, elem

(* Every step leaves the buffer heads well typed. *)
LEMMA HeadTypeInductive ==
  ASSUME IInv, [Next]_vars
  PROVE  HeadTypeOK'
<1>. HeadTypeOK
  BY DEF IInv, TypeOK
<1>. USE DEF HeadTypeOK
<1>1. ASSUME NEW f \in Frames, Call(f) PROVE HeadTypeOK'
  BY <1>1 DEF Call, Goto, headVars, dataVars, syncVars
<1>2. ASSUME NEW f \in Frames, HashHit(f) PROVE HeadTypeOK'
  <2>1. PICK b \in Buffers : b_count' = [b_count EXCEPT ![b] = b_count[b] + 1]
    BY <1>2 DEF HashHit, FindBuffer
  <2>2. b_count' \in [Buffers -> Int]
    BY <2>1, CountUpdate, b_count[b] + 1 \in Int
  <2>. QED
    BY <1>2, <2>2 DEF HashHit, FindBuffer, Goto, dataVars, callVars, syncVars
<1>3. ASSUME NEW f \in Frames, HashReady(f) PROVE HeadTypeOK'
  BY <1>3, HashReadyGets DEF headVars
<1>4. ASSUME NEW f \in Frames, SleepForBuffer(f) PROVE HeadTypeOK'
  BY <1>4 DEF SleepForBuffer, Goto, headVars, dataVars, callVars, syncVars
<1>5. ASSUME NEW f \in Frames, PickVictim(f) PROVE HeadTypeOK'
  BY <1>5 DEF PickVictim, Goto, headVars, dataVars, callVars, syncVars
<1>6. ASSUME NEW f \in Frames, VictimReady(f) PROVE HeadTypeOK'
  <2>1. bh[f] \in Buffers /\ HeadTypeOK
    BY <1>6 DEF VictimReady, IInv, ControlInv, ControlAt, TypeOK
  <2>2. CASE Retry(f)
    BY <2>2 DEF Retry, Goto, headVars, dataVars, callVars, syncVars
  <2>3. CASE CleanVictim(f)
    BY <2>3 DEF CleanVictim, Goto, headVars, dataVars, callVars
  <2>4. CASE TakeVictim(f)
    <3>1. want[f] \in Blocks
      BY <1>6 DEF VictimReady, IInv, ControlInv, ControlAt, InGetblk
    <3>2. b_count' \in [Buffers -> Int]
      BY <2>1, <2>4, CountUpdate DEF TakeVictim
    <3>3. free_list' \in [Buffers -> Buffers]
      BY <2>1, <2>4, MoveToTailType DEF TakeVictim
    <3>. QED
      BY <2>4, <3>1, <3>2, <3>3 DEF TakeVictim
  <2>. QED
    BY <1>6, <2>2, <2>3, <2>4 DEF VictimReady
<1>7. ASSUME NEW f \in Frames, SyncRun(f) PROVE HeadTypeOK'
  BY <1>7 DEF SyncRun, Goto
<1>8. ASSUME NEW f \in Frames, Bread(f) PROVE HeadTypeOK'
  BY <1>8 DEF Bread, ReadBlock, Goto, callVars, syncVars
<1>9. ASSUME NEW f \in Frames, Breada(f) PROVE HeadTypeOK'
  BY <1>9 DEF Breada, ReadBlock, Goto, syncVars
<1>10. ASSUME NEW f \in Frames, AheadNext(f) PROVE HeadTypeOK'
  BY <1>10 DEF AheadNext, Goto, headVars, dataVars, syncVars
<1>11. ASSUME NEW f \in Frames, AheadGot(f) PROVE HeadTypeOK'
  <2>1. bh[f] \in Buffers
    BY <1>11 DEF AheadGot, IInv, ControlInv, ControlAt, Holding, InGetblk
  <2>2. b_count' \in [Buffers -> Int]
    BY <1>11, <2>1, CountDown DEF AheadGot
  <2>. QED
    BY <1>11, <2>2 DEF AheadGot, ReadBlock, Goto, callVars, syncVars
<1>12. ASSUME NEW f \in Frames, AheadDone(f) PROVE HeadTypeOK'
  BY <1>12 DEF AheadDone, Goto, headVars, dataVars, syncVars
<1>13. ASSUME NEW f \in Frames, ReadDone(f) PROVE HeadTypeOK'
  BY <1>13 DEF ReadDone, Goto, headVars, dataVars, callVars, syncVars
<1>14. ASSUME NEW f \in Frames, Overwrite(f) PROVE HeadTypeOK'
  BY <1>14 DEF Overwrite, WriteData, Goto, callVars, syncVars
<1>15. ASSUME NEW f \in Frames, Release(f) PROVE HeadTypeOK'
  BY <1>15 DEF Release, Goto, headVars, dataVars, callVars, syncVars
<1>16. ASSUME NEW f \in Frames, Brelse(f) PROVE HeadTypeOK'
  <2>1. bh[f] \in Buffers
    BY <1>16 DEF Brelse, IInv, ControlInv, ControlAt, Holding, InGetblk
  <2>2. b_count' \in [Buffers -> Int]
    BY <1>16, <2>1, CountDown DEF Brelse
  <2>. QED
    BY <1>16, <2>2 DEF Brelse, dataVars, syncVars
<1>17. ASSUME NEW f \in Frames, Modify(f) PROVE HeadTypeOK'
  BY <1>17 DEF Modify, WriteData, procVars
<1>18. ASSUME NEW b \in Buffers, ReadEnds(b) PROVE HeadTypeOK'
  BY <1>18 DEF ReadEnds, Unlock, procVars
<1>19. ASSUME NEW b \in Buffers, ReadFails(b) PROVE HeadTypeOK'
  BY <1>19 DEF ReadFails, Unlock, procVars
<1>20. ASSUME NEW b \in Buffers, WriteEnds(b) PROVE HeadTypeOK'
  BY <1>20 DEF WriteEnds, Unlock, procVars
<1>22. ASSUME NEW f \in Frames, SyncInodes(f) PROVE HeadTypeOK'
  BY <1>22 DEF SyncInodes, Goto, headVars, dataVars
<1>23. ASSUME NEW f \in Frames, LockInode(f) PROVE HeadTypeOK'
  BY <1>23 DEF LockInode, Goto, headVars, dataVars
<1>24. ASSUME NEW f \in Frames, WriteInode(f) PROVE HeadTypeOK'
  BY <1>24 DEF WriteInode, WriteData, Goto, callVars
<1>25. ASSUME NEW f \in Frames, Chmod(f) PROVE HeadTypeOK'
  BY <1>25 DEF Chmod, headVars, dataVars, callVars
<1>21. CASE UNCHANGED vars
  BY <1>21 DEF vars, headVars, dataVars, procVars
<1>. QED
  BY <1>1, <1>2, <1>3, <1>4, <1>5, <1>6, <1>7, <1>8, <1>9, <1>10, <1>11,
     <1>12, <1>13, <1>14, <1>15, <1>16, <1>17, <1>18, <1>19, <1>20, <1>21,
     <1>22, <1>23, <1>24, <1>25 DEF Next, Continue, Disk

(* Every step leaves the data abstraction well typed. *)
LEMMA DataTypeInductive ==
  ASSUME IInv, [Next]_vars
  PROVE  DataTypeOK'
<1>. DataTypeOK
  BY DEF IInv, TypeOK
<1>. USE DEF DataTypeOK
<1>1. ASSUME NEW f \in Frames, Call(f) PROVE DataTypeOK'
  BY <1>1 DEF Call, Goto, headVars, dataVars, syncVars
<1>2. ASSUME NEW f \in Frames, HashHit(f) PROVE DataTypeOK'
  BY <1>2 DEF HashHit, FindBuffer, Goto, dataVars, callVars, syncVars
<1>3. ASSUME NEW f \in Frames, HashReady(f) PROVE DataTypeOK'
  BY <1>3 DEF HashReady, Goto, dataVars, callVars, syncVars
<1>4. ASSUME NEW f \in Frames, SleepForBuffer(f) PROVE DataTypeOK'
  BY <1>4 DEF SleepForBuffer, Goto, headVars, dataVars, callVars, syncVars
<1>5. ASSUME NEW f \in Frames, PickVictim(f) PROVE DataTypeOK'
  BY <1>5 DEF PickVictim, Goto, headVars, dataVars, callVars, syncVars
<1>6. ASSUME NEW f \in Frames, VictimReady(f) PROVE DataTypeOK'
  <2>2. CASE Retry(f)
    BY <2>2 DEF Retry, Goto, headVars, dataVars, callVars, syncVars
  <2>3. CASE CleanVictim(f)
    BY <2>3 DEF CleanVictim, Goto, headVars, dataVars, callVars
  <2>4. CASE TakeVictim(f)
    BY <2>4 DEF TakeVictim, Goto, callVars, syncVars
  <2>. QED
    BY <1>6, <2>2, <2>3, <2>4 DEF VictimReady
<1>7. ASSUME NEW f \in Frames, SyncRun(f) PROVE DataTypeOK'
  BY <1>7 DEF SyncRun, Goto, IInv, TypeOK
<1>8. ASSUME NEW f \in Frames, Bread(f) PROVE DataTypeOK'
  BY <1>8
     DEF Bread, ReadBlock, Goto, callVars, syncVars, IInv, ControlInv,
         ControlAt, HolderInv, HolderKeepsBlock, InGetblk, Holding, TypeOK,
         ProcTypeOK
<1>9. ASSUME NEW f \in Frames, Breada(f) PROVE DataTypeOK'
  BY <1>9
     DEF Breada, ReadBlock, Goto, syncVars, IInv, ControlInv, ControlAt,
         HolderInv, HolderKeepsBlock, InGetblk, Holding, TypeOK, ProcTypeOK
<1>10. ASSUME NEW f \in Frames, AheadNext(f) PROVE DataTypeOK'
  BY <1>10 DEF AheadNext, Goto, headVars, dataVars, syncVars
<1>11. ASSUME NEW f \in Frames, AheadGot(f) PROVE DataTypeOK'
  <2>1. b_dirt[first[f]] => b_ident[first[f]] \in Blocks
    BY <1>11
       DEF AheadGot, IInv, ControlInv, ControlAt, HolderInv, HolderKeepsBlock,
           InGetblk
  <2>. QED
    BY <1>11, <2>1 DEF AheadGot, ReadBlock
<1>12. ASSUME NEW f \in Frames, AheadDone(f) PROVE DataTypeOK'
  BY <1>12 DEF AheadDone, Goto, headVars, dataVars, syncVars
<1>13. ASSUME NEW f \in Frames, ReadDone(f) PROVE DataTypeOK'
  BY <1>13 DEF ReadDone, Goto, headVars, dataVars, callVars, syncVars
<1>14. ASSUME NEW f \in Frames, Overwrite(f) PROVE DataTypeOK'
  BY <1>14 DEF Overwrite, WriteData, Goto, callVars, syncVars
<1>15. ASSUME NEW f \in Frames, Release(f) PROVE DataTypeOK'
  BY <1>15 DEF Release, Goto, headVars, dataVars, callVars, syncVars
<1>16. ASSUME NEW f \in Frames, Brelse(f) PROVE DataTypeOK'
  BY <1>16 DEF Brelse, dataVars, syncVars
<1>17. ASSUME NEW f \in Frames, Modify(f) PROVE DataTypeOK'
  BY ZenonT(60), <1>17 DEF Modify, WriteData, procVars
<1>18. ASSUME NEW b \in Buffers, ReadEnds(b) PROVE DataTypeOK'
  BY <1>18 DEF ReadEnds, Unlock, procVars, IInv, HeadInv
<1>19. ASSUME NEW b \in Buffers, ReadFails(b) PROVE DataTypeOK'
  BY <1>19 DEF ReadFails, Unlock, procVars
<1>20. ASSUME NEW b \in Buffers, WriteEnds(b) PROVE DataTypeOK'
  BY <1>20 DEF WriteEnds, Unlock, procVars
<1>22. ASSUME NEW f \in Frames, SyncInodes(f) PROVE DataTypeOK'
  BY <1>22 DEF SyncInodes, Goto, headVars, dataVars
<1>23. ASSUME NEW f \in Frames, LockInode(f) PROVE DataTypeOK'
  BY <1>23 DEF LockInode, Goto, headVars, dataVars
<1>24. ASSUME NEW f \in Frames, WriteInode(f) PROVE DataTypeOK'
  BY <1>24 DEF WriteInode, WriteData, Goto, callVars
<1>25. ASSUME NEW f \in Frames, Chmod(f) PROVE DataTypeOK'
  BY <1>25 DEF Chmod, headVars, dataVars, callVars
<1>21. CASE UNCHANGED vars
  BY <1>21 DEF vars, headVars, dataVars, procVars
<1>. QED
  BY <1>1, <1>2, <1>3, <1>4, <1>5, <1>6, <1>7, <1>8, <1>9, <1>10, <1>11,
     <1>12, <1>13, <1>14, <1>15, <1>16, <1>17, <1>18, <1>19, <1>20, <1>21,
     <1>22, <1>23, <1>24, <1>25 DEF Next, Continue, Disk

(* Every step leaves the locals of the processes well typed. *)
LEMMA ProcTypeInductive ==
  ASSUME IInv, [Next]_vars
  PROVE  ProcTypeOK'
<1>. ProcTypeOK
  BY DEF IInv, TypeOK
<1>. USE DEF ProcTypeOK, Labels, OpNames
<1>1. ASSUME NEW f \in Frames, Call(f) PROVE ProcTypeOK'
  BY <1>1 DEF Call, Goto, headVars, dataVars, syncVars
<1>2. ASSUME NEW f \in Frames, HashHit(f) PROVE ProcTypeOK'
  BY <1>2 DEF HashHit, FindBuffer, Goto, dataVars, callVars, syncVars
<1>3. ASSUME NEW f \in Frames, HashReady(f) PROVE ProcTypeOK'
  BY <1>3 DEF HashReady, Goto, dataVars, callVars, syncVars
<1>4. ASSUME NEW f \in Frames, SleepForBuffer(f) PROVE ProcTypeOK'
  BY <1>4 DEF SleepForBuffer, Goto, headVars, dataVars, callVars, syncVars
<1>5. ASSUME NEW f \in Frames, PickVictim(f) PROVE ProcTypeOK'
  <2>1. PICK i \in Buffers : bh' = [bh EXCEPT ![f] = free_list[i]]
    BY <1>5 DEF PickVictim
  <2>2. free_list[i] \in Buffers
    BY DEF IInv, TypeOK, HeadTypeOK
  <2>. QED
    BY <1>5, <2>1, <2>2 DEF PickVictim, Goto, headVars, dataVars, callVars, syncVars
<1>6. ASSUME NEW f \in Frames, VictimReady(f) PROVE ProcTypeOK'
  <2>2. CASE Retry(f)
    BY <2>2 DEF Retry, Goto, headVars, dataVars, callVars, syncVars
  <2>3. CASE CleanVictim(f)
    BY <2>3 DEF CleanVictim, Goto, headVars, dataVars, callVars, inodeVars
  <2>4. CASE TakeVictim(f)
    BY <2>4 DEF TakeVictim, Goto, callVars, syncVars
  <2>. QED
    BY <1>6, <2>2, <2>3, <2>4 DEF VictimReady
<1>7. ASSUME NEW f \in Frames, SyncRun(f) PROVE ProcTypeOK'
  <2>1. CASE scan' = [scan EXCEPT ![f] = 0]
    <3>1. pc[f] = "sync"
      BY <1>7 DEF SyncRun
    <3>2. /\ \E l \in Labels : pc' = [pc EXCEPT ![f] = l]
          /\ op' = op \/ op' = [op EXCEPT ![f] = "none"]
          /\ pass' = pass \/ \E n \in {1, 2} : pass' = [pass EXCEPT ![f] = n]
      <4>1. pc = [pc EXCEPT ![f] = "sync"]
        BY <3>1
      <4>. QED
        BY <1>7, <4>1 DEF SyncRun, Goto
    <3>3. pc' \in [Frames -> Labels]
      BY <3>2
    <3>4. op' \in [Frames -> OpNames \cup {"none"}]
      BY <3>2
    <3>5. pass' \in [Frames -> {1, 2}]
      BY <3>2
    <3>6. scan' \in [Frames -> Buffers \cup {NULL}]
      BY <2>1
    <3>7. UNCHANGED <<bh, asked, want, first, ahead, i_dirt, i_lock, cursor, inode>>
      BY <1>7 DEF SyncRun, inodeVars
    <3>. QED
      BY <3>3, <3>4, <3>5, <3>6, <3>7
  <2>2. CASE \E s \in Buffers : scan' = [scan EXCEPT ![f] = s] /\ UNCHANGED <<pc, op, pass, sdev>>
    BY <1>7, <2>2 DEF SyncRun, inodeVars
  <2>. QED
    BY <1>7, <2>1, <2>2 DEF SyncRun
<1>8. ASSUME NEW f \in Frames, Bread(f) PROVE ProcTypeOK'
  BY <1>8 DEF Bread, ReadBlock, Goto, callVars, syncVars
<1>9. ASSUME NEW f \in Frames, Breada(f) PROVE ProcTypeOK'
  BY <1>9 DEF Breada, ReadBlock, Goto, syncVars
<1>10. ASSUME NEW f \in Frames, AheadNext(f) PROVE ProcTypeOK'
  BY <1>10 DEF AheadNext, Goto, headVars, dataVars, syncVars
<1>11. ASSUME NEW f \in Frames, AheadGot(f) PROVE ProcTypeOK'
  BY <1>11 DEF AheadGot, ReadBlock, Goto, callVars, syncVars
<1>12. ASSUME NEW f \in Frames, AheadDone(f) PROVE ProcTypeOK'
  BY <1>12 DEF AheadDone, Goto, headVars, dataVars, syncVars
<1>13. ASSUME NEW f \in Frames, ReadDone(f) PROVE ProcTypeOK'
  BY <1>13 DEF ReadDone, Goto, headVars, dataVars, callVars, syncVars
<1>14. ASSUME NEW f \in Frames, Overwrite(f) PROVE ProcTypeOK'
  BY <1>14 DEF Overwrite, WriteData, Goto, callVars, syncVars
<1>15. ASSUME NEW f \in Frames, Release(f) PROVE ProcTypeOK'
  BY <1>15 DEF Release, Goto, headVars, dataVars, callVars, syncVars
<1>16. ASSUME NEW f \in Frames, Brelse(f) PROVE ProcTypeOK'
  BY <1>16 DEF Brelse, UnlockInode, dataVars
<1>17. ASSUME NEW f \in Frames, Modify(f) PROVE ProcTypeOK'
  BY <1>17 DEF Modify, WriteData, procVars
<1>18. ASSUME NEW b \in Buffers, ReadEnds(b) PROVE ProcTypeOK'
  BY <1>18 DEF ReadEnds, Unlock, procVars
<1>19. ASSUME NEW b \in Buffers, ReadFails(b) PROVE ProcTypeOK'
  BY <1>19 DEF ReadFails, Unlock, procVars
<1>20. ASSUME NEW b \in Buffers, WriteEnds(b) PROVE ProcTypeOK'
  BY <1>20 DEF WriteEnds, Unlock, procVars
<1>22. ASSUME NEW f \in Frames, SyncInodes(f) PROVE ProcTypeOK'
  <2>1. cursor[f] \in 1..(NR_INODE + 1)
    OBVIOUS
  <2>2. CASE cursor[f] > NR_INODE
    BY <1>22, <2>2 DEF SyncInodes, Goto
  <2>3. CASE ~(cursor[f] > NR_INODE)
    <3>1. cursor[f] \in Inodes /\ cursor[f] + 1 \in 1..(NR_INODE + 1)
      BY <2>1, <2>3 DEF Inodes
    <3>2. cursor' \in [Frames -> 1..(NR_INODE + 1)]
      BY <1>22, <2>3, <3>1 DEF SyncInodes
    <3>3. /\ inode' \in [Frames -> Inodes \cup {NULL}]
          /\ op' \in [Frames -> OpNames \cup {"none"}] /\ pc' \in [Frames -> Labels]
      BY SMTT(60), <1>22, <2>3, <3>1 DEF SyncInodes, Goto
    <3>. QED
      BY <1>22, <3>2, <3>3 DEF SyncInodes
  <2>. QED
    BY <2>2, <2>3
<1>23. ASSUME NEW f \in Frames, LockInode(f) PROVE ProcTypeOK'
  <2>1. pc[f] = "lock_inode"
    BY <1>23 DEF LockInode
  <2>2. InodeBlock[inode[f]] \in Blocks
    BY <2>1 DEF IInv, ControlInv, ControlAt
  <2>3. CASE i_dirt[inode[f]]
    <3>1. /\ pc' = [pc EXCEPT ![f] = "repeat"]
          /\ i_lock' = [i_lock EXCEPT ![inode[f]] = TRUE]
          /\ asked' = [asked EXCEPT ![f] = InodeBlock[inode[f]]]
          /\ want' = [want EXCEPT ![f] = InodeBlock[inode[f]]]
          /\ UNCHANGED <<op, inode, bh, first, ahead, pass, scan, sdev, i_dirt, cursor>>
      BY <1>23, <2>3 DEF LockInode, Goto
    <3>2. asked' \in [Frames -> Blocks \cup {NoBlock}] /\ want' \in [Frames -> Blocks \cup {NoBlock}]
      BY <2>2, <3>1
    <3>3. pc' \in [Frames -> Labels] /\ i_lock' \in [Inodes -> BOOLEAN]
      BY <3>1
    <3>. QED
      BY <3>1, <3>2, <3>3
  <2>4. CASE ~i_dirt[inode[f]]
    BY <1>23, <2>4 DEF LockInode, Goto
  <2>. QED
    BY <2>3, <2>4
<1>24. ASSUME NEW f \in Frames, WriteInode(f) PROVE ProcTypeOK'
  BY <1>24 DEF WriteInode, WriteData, Goto, callVars
<1>25. ASSUME NEW f \in Frames, Chmod(f) PROVE ProcTypeOK'
  BY <1>25 DEF Chmod, headVars, dataVars, callVars
<1>21. CASE UNCHANGED vars
  BY <1>21 DEF vars, headVars, dataVars, procVars
<1>. QED
  BY <1>1, <1>2, <1>3, <1>4, <1>5, <1>6, <1>7, <1>8, <1>9, <1>10, <1>11,
     <1>12, <1>13, <1>14, <1>15, <1>16, <1>17, <1>18, <1>19, <1>20, <1>21,
     <1>22, <1>23, <1>24, <1>25 DEF Next, Continue, Disk

(* Every step leaves each process with the locals its place calls for. *)
LEMMA ControlInductive ==
  ASSUME IInv, [Next]_vars
  PROVE  ControlInv'
<1>. HeadTypeOK /\ ProcTypeOK /\ ControlInv
  BY DEF IInv, TypeOK
<1>. SUFFICES ASSUME NEW g \in Frames PROVE ControlAt(g)'
  BY DEF ControlInv
<1>. USE DEF ControlAt, InGetblk, Holding, HeadTypeOK, ProcTypeOK
<1>1. ASSUME NEW f \in Frames, Call(f) PROVE ControlAt(g)'
  <2>1. pc[f] = "idle" /\ first[f] = NULL /\ UNCHANGED <<bh, first>>
    BY <1>1 DEF Call, ControlInv
  <2>2. CASE g # f
    <3>1. /\ pc'[g] = pc[g] /\ op'[g] = op[g] /\ asked'[g] = asked[g]
          /\ want'[g] = want[g] /\ ahead'[g] = ahead[g] /\ inode'[g] = inode[g]
      BY SMTT(60), <1>1, <2>2 DEF Call, Goto
    <3>. QED
      BY <2>1, <3>1 DEF ControlInv
  <2>3. CASE g = f
    <3>1. CASE /\ \E o \in {"bread", "breada", "overwrite"} : op' = [op EXCEPT ![f] = o]
               /\ \E k \in Blocks : /\ want' = [want EXCEPT ![f] = k]
                                     /\ asked' = [asked EXCEPT ![f] = k]
               /\ \E rest \in SUBSET Blocks : ahead' = [ahead EXCEPT ![f] = rest]
               /\ pc' = [pc EXCEPT ![f] = "repeat"]
      <4>1. /\ want'[f] \in Blocks /\ asked'[f] = want'[f] /\ ahead'[f] \subseteq Blocks
            /\ pc'[f] = "repeat" /\ first'[f] = NULL /\ op'[f] # "sync"
        BY SMTT(60), <2>1, <3>1
      <4>. QED
        BY <2>3, <4>1
    <3>2. CASE /\ op' = [op EXCEPT ![f] = "sync"] /\ pc' = [pc EXCEPT ![f] = "inodes"]
               /\ UNCHANGED <<asked, want, ahead>>
      <4>1. /\ pc'[f] = "inodes" /\ first'[f] = NULL /\ op'[f] = "sync"
            /\ ahead'[f] \subseteq Blocks
        BY <2>1, <3>2 DEF ControlInv
      <4>. QED
        BY <2>3, <4>1
    <3>3. CASE /\ op' = [op EXCEPT ![f] = "write_inode"]
               /\ pc' = [pc EXCEPT ![f] = "lock_inode"]
               /\ \E i \in Inodes : inode' = [inode EXCEPT ![f] = i]
               /\ UNCHANGED <<asked, want, ahead>>
      <4>1. /\ pc'[f] = "lock_inode" /\ first'[f] = NULL /\ op'[f] = "write_inode"
            /\ inode'[f] \in Inodes /\ ahead'[f] \subseteq Blocks
        BY <2>1, <3>3 DEF ControlInv
      <4>. QED
        BY <2>3, <4>1
    <3>. QED
      BY <1>1, <3>1, <3>2, <3>3 DEF Call, Goto
  <2>. QED
    BY <2>2, <2>3
<1>2. ASSUME NEW f \in Frames, HashHit(f) PROVE ControlAt(g)'
  BY ZenonT(60), <1>2
     DEF HashHit, FindBuffer, Goto, dataVars, callVars, syncVars, ControlInv
<1>3. ASSUME NEW f \in Frames, HashReady(f) PROVE ControlAt(g)'
  <2>1. /\ pc[f] = "hash_wait" /\ pc' = [pc EXCEPT ![f] = "got"]
        /\ UNCHANGED <<bh, callVars, syncVars>>
    BY <1>3, HashReadyGets
  <2>2. CASE g = f
    BY <2>1, <2>2 DEF ControlInv, callVars, syncVars
  <2>3. CASE g # f
    BY <2>1, <2>3 DEF ControlInv, callVars, syncVars
  <2>. QED
    BY <2>2, <2>3
<1>4. ASSUME NEW f \in Frames, SleepForBuffer(f) PROVE ControlAt(g)'
  BY <1>4
     DEF SleepForBuffer, Goto, headVars, dataVars, callVars, syncVars,
         ControlInv
<1>5. ASSUME NEW f \in Frames, PickVictim(f) PROVE ControlAt(g)'
  <2>1. PICK i \in Buffers : bh' = [bh EXCEPT ![f] = free_list[i]]
    BY <1>5 DEF PickVictim
  <2>2. free_list[i] \in Buffers
    BY <2>1
  <2>3. /\ pc[f] = "repeat" /\ pc' = [pc EXCEPT ![f] = "victim_wait"]
        /\ UNCHANGED <<op, asked, want, first, ahead>>
    BY <1>5 DEF PickVictim, Goto, callVars
  <2>4. inode' = inode
    BY <1>5 DEF PickVictim, syncVars
  <2>. QED
    BY <2>1, <2>2, <2>3, <2>4 DEF ControlInv
<1>6. ASSUME NEW f \in Frames, VictimReady(f) PROVE ControlAt(g)'
  <2>2. CASE Retry(f)
    <3>1. CASE g = f
      BY <1>6, <2>2, <3>1
         DEF VictimReady, ControlInv, Retry, Goto, headVars, dataVars,
             callVars, syncVars
    <3>2. CASE g # f
      BY <1>6, <2>2, <3>2
         DEF ControlInv, Retry, Goto, headVars, dataVars, callVars, syncVars
    <3>. QED
      BY <3>1, <3>2
  <2>3. CASE CleanVictim(f)
    <3>1. CASE g = f
      BY <1>6, <2>3, <3>1
         DEF VictimReady, ControlInv, CleanVictim, Goto, headVars, dataVars,
             callVars
    <3>2. CASE g # f
      BY <1>6, <2>3, <3>2
         DEF ControlInv, CleanVictim, Goto, headVars, dataVars, callVars, inodeVars
    <3>. QED
      BY <3>1, <3>2
  <2>4. CASE TakeVictim(f)
    <3>1. CASE g = f
      BY <1>6, <2>4, <3>1
         DEF VictimReady, ControlInv, TakeVictim, Goto, callVars, syncVars
    <3>2. CASE g # f
      BY <1>6, <2>4, <3>2 DEF ControlInv, TakeVictim, Goto, callVars, syncVars
    <3>. QED
      BY <3>1, <3>2
  <2>. QED
    BY <1>6, <2>2, <2>3, <2>4 DEF VictimReady
<1>7. ASSUME NEW f \in Frames, SyncRun(f) PROVE ControlAt(g)'
  <2>1. UNCHANGED <<bh, asked, want, first, ahead, inode>>
    BY <1>7 DEF SyncRun, inodeVars
  <2>2. \/ UNCHANGED <<pc, op>>
        \/ /\ op[f] = "sync"
           /\ pc' = [pc EXCEPT ![f] = "idle"] /\ op' = [op EXCEPT ![f] = "none"]
        \/ /\ op[f] # "sync"
           /\ \E l \in {"inodes", "victim_wait"} : pc' = [pc EXCEPT ![f] = l]
           /\ op' = op
    BY <1>7 DEF SyncRun, Goto
  <2>3. pc[f] = "sync"
    BY <1>7 DEF SyncRun
  <2>. QED
    BY ZenonT(60), <2>1, <2>2, <2>3 DEF ControlInv
<1>8. ASSUME NEW f \in Frames, Bread(f) PROVE ControlAt(g)'
  <2>1. CASE g = f
    BY ZenonT(60), <1>8, <2>1 DEF ControlInv, Bread, ReadBlock, Goto, callVars, syncVars
  <2>2. CASE g # f
    BY <1>8, <2>2 DEF ControlInv, Bread, ReadBlock, Goto, callVars, syncVars
  <2>. QED
    BY <2>1, <2>2
<1>9. ASSUME NEW f \in Frames, Breada(f) PROVE ControlAt(g)'
  BY ZenonT(60), <1>9 DEF Breada, ReadBlock, Goto, syncVars, ControlInv
<1>10. ASSUME NEW f \in Frames, AheadNext(f) PROVE ControlAt(g)'
  <2>1. PICK k \in Blocks : /\ want' = [want EXCEPT ![f] = k]
                             /\ ahead' = [ahead EXCEPT ![f] = ahead[f] \ {k}]
    BY <1>10 DEF AheadNext, ControlInv
  <2>2. CASE g = f
    <3>1. pc[f] = "ahead" /\ first[f] \in Buffers /\ first[f] # NULL
      <4>1. pc[f] = "ahead"
        BY <1>10 DEF AheadNext
      <4>2. first[f] \in Buffers
        BY <4>1 DEF ControlInv
      <4>. QED
        BY <4>1, <4>2
    <3>2. op[f] = "breada" /\ asked[f] \in Blocks
      BY <3>1 DEF ControlInv
    <3>3. /\ pc'[f] = "repeat" /\ want'[f] \in Blocks /\ ahead'[f] \subseteq Blocks
          /\ UNCHANGED <<first, asked, op>>
      BY <1>10, <2>1, <3>1 DEF AheadNext, Goto
    <3>. QED
      BY <2>2, <3>1, <3>2, <3>3
  <2>3. CASE g # f
    BY <1>10, <2>1, <2>3 DEF ControlInv, AheadNext, Goto, headVars, dataVars, syncVars
  <2>. QED
    BY <2>2, <2>3
<1>11. ASSUME NEW f \in Frames, AheadGot(f) PROVE ControlAt(g)'
  <2>1. /\ pc[f] = "got" /\ pc' = [pc EXCEPT ![f] = "ahead"] /\ bh' = [bh EXCEPT ![f] = NULL]
        /\ UNCHANGED <<op, asked, want, first, ahead, inode>> /\ op[f] = "breada"
        /\ first[f] \in Buffers
    BY <1>11 DEF AheadGot, Goto, callVars, syncVars
  <2>2. CASE g = f
    BY <2>1, <2>2 DEF ControlInv
  <2>3. CASE g # f
    BY <2>1, <2>3 DEF ControlInv
  <2>. QED
    BY <2>2, <2>3
<1>12. ASSUME NEW f \in Frames, AheadDone(f) PROVE ControlAt(g)'
  BY <1>12 DEF AheadDone, Goto, headVars, dataVars, syncVars, ControlInv
<1>13. ASSUME NEW f \in Frames, ReadDone(f) PROVE ControlAt(g)'
  BY <1>13
     DEF ReadDone, Goto, headVars, dataVars, callVars, syncVars, ControlInv
<1>14. ASSUME NEW f \in Frames, Overwrite(f) PROVE ControlAt(g)'
  <2>1. CASE g = f
    BY <1>14, <2>1 DEF ControlInv, Overwrite, WriteData, Goto, callVars, syncVars
  <2>2. CASE g # f
    BY <1>14, <2>2 DEF ControlInv, Overwrite, WriteData, Goto, callVars, syncVars
  <2>. QED
    BY <2>1, <2>2
<1>15. ASSUME NEW f \in Frames, Release(f) PROVE ControlAt(g)'
  BY <1>15
     DEF Release, Goto, headVars, dataVars, callVars, syncVars, ControlInv
<1>16. ASSUME NEW f \in Frames, Brelse(f) PROVE ControlAt(g)'
  <2>1. /\ bh' = [bh EXCEPT ![f] = NULL] /\ op' = [op EXCEPT ![f] = "none"]
        /\ asked' = [asked EXCEPT ![f] = NoBlock] /\ want' = [want EXCEPT ![f] = NoBlock]
        /\ UNCHANGED <<first, ahead>> /\ pc[f] = "rel_wait" /\ pc'[f] = "idle"
    BY <1>16 DEF Brelse
  <2>2. CASE g = f
    <3>1. first[f] = NULL /\ ahead[f] \subseteq Blocks
      BY <2>1 DEF ControlInv
    <3>. QED
      BY <2>1, <2>2, <3>1
  <2>3. CASE g # f
    <3>1. /\ pc'[g] = pc[g] \/ (pc[g] = "sleep" /\ pc'[g] = "repeat")
          /\ inode'[g] = inode[g]
      BY <1>16, <2>3 DEF Brelse, UnlockInode
    <3>2. /\ bh'[g] = bh[g] /\ op'[g] = op[g] /\ asked'[g] = asked[g]
          /\ want'[g] = want[g] /\ first'[g] = first[g] /\ ahead'[g] = ahead[g]
      BY <2>1, <2>3
    <3>. QED
      BY <3>1, <3>2 DEF ControlInv
  <2>. QED
    BY <2>2, <2>3
<1>17. ASSUME NEW f \in Frames, Modify(f) PROVE ControlAt(g)'
  BY <1>17 DEF Modify, WriteData, procVars, ControlInv
<1>18. ASSUME NEW b \in Buffers, ReadEnds(b) PROVE ControlAt(g)'
  BY <1>18 DEF ReadEnds, Unlock, procVars, ControlInv
<1>19. ASSUME NEW b \in Buffers, ReadFails(b) PROVE ControlAt(g)'
  BY <1>19 DEF ReadFails, Unlock, procVars, ControlInv
<1>20. ASSUME NEW b \in Buffers, WriteEnds(b) PROVE ControlAt(g)'
  BY <1>20 DEF WriteEnds, Unlock, procVars, ControlInv
<1>22. ASSUME NEW f \in Frames, SyncInodes(f) PROVE ControlAt(g)'
  <2>1. /\ pc[f] = "inodes" /\ (Child(f) \in Frames => pc[Child(f)] = "idle")
        /\ UNCHANGED <<bh, asked, want, first, ahead>>
    BY <1>22 DEF SyncInodes
  <2>2. CASE UNCHANGED <<op, inode>> /\ \E l \in {"inodes", "sync"} : pc' = [pc EXCEPT ![f] = l]
    <3>1. CASE g = f
      BY <2>1, <2>2, <3>1 DEF ControlInv
    <3>2. CASE g # f
      BY <2>1, <2>2, <3>2 DEF ControlInv
    <3>. QED
      BY <3>1, <3>2
  <2>3. CASE /\ Child(f) \in Frames /\ cursor[f] \in Inodes
             /\ inode' = [inode EXCEPT ![Child(f)] = cursor[f]]
             /\ op' = [op EXCEPT ![Child(f)] = "write_inode"]
             /\ pc' = [pc EXCEPT ![Child(f)] = "lock_inode"]
    <3>1. CASE g = Child(f)
      <4>1. pc[g] = "idle" /\ first[g] = NULL /\ ahead[g] \subseteq Blocks
        BY <2>1, <3>1 DEF ControlInv
      <4>2. pc'[g] = "lock_inode" /\ op'[g] = "write_inode" /\ inode'[g] \in Inodes
        BY <2>3, <3>1
      <4>. QED
        BY <2>1, <4>1, <4>2
    <3>2. CASE g # Child(f)
      <4>1. pc'[g] = pc[g] /\ op'[g] = op[g] /\ inode'[g] = inode[g]
        BY <2>3, <3>2
      <4>. QED
        BY <2>1, <4>1 DEF ControlInv
    <3>. QED
      BY <3>1, <3>2
  <2>4. cursor[f] \in 1..(NR_INODE + 1)
    OBVIOUS
  <2>5. pc = [pc EXCEPT ![f] = "inodes"]
    BY <2>1
  <2>6. CASE cursor[f] > NR_INODE
    BY <1>22, <2>2, <2>6 DEF SyncInodes, Goto
  <2>7. CASE ~(cursor[f] > NR_INODE)
    <3>1. cursor[f] \in Inodes
      BY <2>4, <2>7 DEF Inodes
    <3>. QED
      BY <1>22, <2>2, <2>3, <2>5, <2>7, <3>1 DEF SyncInodes, Goto
  <2>. QED
    BY <2>6, <2>7
<1>23. ASSUME NEW f \in Frames, LockInode(f) PROVE ControlAt(g)'
  <2>1. /\ pc[f] = "lock_inode" /\ op[f] = "write_inode" /\ first[f] = NULL
        /\ ahead[f] \subseteq Blocks /\ InodeBlock[inode[f]] \in Blocks
        /\ UNCHANGED <<bh, first, ahead>>
    BY <1>23 DEF LockInode, ControlInv
  <2>2. CASE g # f
    <3>1. /\ pc'[g] = pc[g] /\ op'[g] = op[g] /\ asked'[g] = asked[g]
          /\ want'[g] = want[g] /\ inode'[g] = inode[g]
      BY SMTT(60), <1>23, <2>2 DEF LockInode, Goto
    <3>. QED
      BY <2>1, <3>1 DEF ControlInv
  <2>3. CASE g = f
    <3>1. CASE i_dirt[inode[f]]
      <4>1. /\ pc'[f] = "repeat" /\ op'[f] = "write_inode"
            /\ asked'[f] \in Blocks /\ want'[f] = asked'[f]
        BY SMTT(60), <1>23, <2>1, <3>1 DEF LockInode, Goto
      <4>. QED
        BY <2>1, <2>3, <4>1
    <3>2. CASE ~i_dirt[inode[f]]
      <4>1. pc'[f] = "idle" /\ op'[f] = "none"
        BY <1>23, <3>2 DEF LockInode, Goto
      <4>. QED
        BY <2>1, <2>3, <4>1
    <3>. QED
      BY <3>1, <3>2
  <2>. QED
    BY <2>2, <2>3
<1>24. ASSUME NEW f \in Frames, WriteInode(f) PROVE ControlAt(g)'
  BY <1>24 DEF WriteInode, WriteData, Goto, callVars, ControlInv
<1>25. ASSUME NEW f \in Frames, Chmod(f) PROVE ControlAt(g)'
  BY <1>25 DEF Chmod, headVars, dataVars, callVars, ControlInv
<1>21. CASE UNCHANGED vars
  BY <1>21 DEF vars, headVars, dataVars, procVars, ControlInv
<1>. QED
  BY <1>1, <1>2, <1>3, <1>4, <1>5, <1>6, <1>7, <1>8, <1>9, <1>10, <1>11,
     <1>12, <1>13, <1>14, <1>15, <1>16, <1>17, <1>18, <1>19, <1>20, <1>21,
     <1>22, <1>23, <1>24, <1>25 DEF Next, Continue, Disk

(* Every step leaves a block to the buffers that are locked or dirty. *)
LEMMA HeadInductive ==
  ASSUME IInv, [Next]_vars
  PROVE  HeadInv'
<1>. HeadTypeOK /\ ProcTypeOK /\ ControlInv /\ HeadInv /\ HolderKeepsBlock
  BY DEF IInv, TypeOK, HolderInv
<1>. USE DEF HeadInv, HeadTypeOK, ProcTypeOK
<1>1. ASSUME NEW f \in Frames, Call(f) PROVE HeadInv'
  BY <1>1 DEF Call, Goto, headVars, dataVars, syncVars
<1>2. ASSUME NEW f \in Frames, HashHit(f) PROVE HeadInv'
  BY <1>2 DEF HashHit, FindBuffer, Goto, dataVars, callVars, syncVars
<1>3. ASSUME NEW f \in Frames, HashReady(f) PROVE HeadInv'
  BY <1>3 DEF HashReady, Goto, dataVars, callVars, syncVars
<1>4. ASSUME NEW f \in Frames, SleepForBuffer(f) PROVE HeadInv'
  BY <1>4 DEF SleepForBuffer, Goto, headVars, dataVars, callVars, syncVars
<1>5. ASSUME NEW f \in Frames, PickVictim(f) PROVE HeadInv'
  BY <1>5 DEF PickVictim, Goto, headVars, dataVars, callVars, syncVars
<1>6. ASSUME NEW f \in Frames, VictimReady(f) PROVE HeadInv'
  <2>1. want[f] \in Blocks /\ b_lock[bh[f]] = "free"
    BY <1>6 DEF VictimReady, ControlInv, ControlAt, InGetblk
  <2>2. CASE Retry(f)
    BY <2>2 DEF Retry, Goto, headVars, dataVars, callVars, syncVars
  <2>3. CASE CleanVictim(f)
    BY <2>3 DEF CleanVictim, Goto, headVars, dataVars, callVars
  <2>4. CASE TakeVictim(f)
    BY <2>4, <2>1 DEF TakeVictim, Goto, callVars, syncVars
  <2>. QED
    BY <1>6, <2>2, <2>3, <2>4 DEF VictimReady
<1>7. ASSUME NEW f \in Frames, SyncRun(f) PROVE HeadInv'
  BY <1>7 DEF SyncRun, Goto
<1>8. ASSUME NEW f \in Frames, Bread(f) PROVE HeadInv'
  <2>1. b_ident[bh[f]] \in Blocks
    BY <1>8 DEF Bread, HolderKeepsBlock, ControlInv, ControlAt, InGetblk, Holding
  <2>. QED
    BY <1>8, <2>1 DEF Bread, ReadBlock, Goto, callVars, syncVars
<1>9. ASSUME NEW f \in Frames, Breada(f) PROVE HeadInv'
  <2>1. b_ident[bh[f]] \in Blocks
    BY <1>9
       DEF Breada, HolderKeepsBlock, ControlInv, ControlAt, InGetblk, Holding
  <2>. QED
    BY <1>9, <2>1 DEF Breada, ReadBlock, Goto, syncVars
<1>10. ASSUME NEW f \in Frames, AheadNext(f) PROVE HeadInv'
  BY <1>10 DEF AheadNext, Goto, headVars, dataVars, syncVars
<1>11. ASSUME NEW f \in Frames, AheadGot(f) PROVE HeadInv'
  <2>1. b_ident[first[f]] \in Blocks
    BY <1>11
       DEF AheadGot, HolderKeepsBlock, ControlInv, ControlAt, InGetblk,
           Holding
  <2>. QED
    BY <1>11, <2>1 DEF AheadGot, ReadBlock, Goto, callVars, syncVars
<1>12. ASSUME NEW f \in Frames, AheadDone(f) PROVE HeadInv'
  BY <1>12 DEF AheadDone, Goto, headVars, dataVars, syncVars
<1>13. ASSUME NEW f \in Frames, ReadDone(f) PROVE HeadInv'
  BY <1>13 DEF ReadDone, Goto, headVars, dataVars, callVars, syncVars
<1>14. ASSUME NEW f \in Frames, Overwrite(f) PROVE HeadInv'
  <2>1. b_ident[bh[f]] \in Blocks
    BY <1>14
       DEF Overwrite, HolderKeepsBlock, ControlInv, ControlAt, InGetblk,
           Holding
  <2>. QED
    BY <1>14, <2>1 DEF Overwrite, WriteData, Goto, callVars, syncVars
<1>15. ASSUME NEW f \in Frames, Release(f) PROVE HeadInv'
  BY <1>15 DEF Release, Goto, headVars, dataVars, callVars, syncVars
<1>16. ASSUME NEW f \in Frames, Brelse(f) PROVE HeadInv'
  BY <1>16 DEF Brelse, dataVars, syncVars
<1>17. ASSUME NEW f \in Frames, Modify(f) \/ WriteInode(f) PROVE HeadInv'
  <2>1. b_ident[bh[f]] \in Blocks
    BY <1>17
       DEF Modify, WriteInode, HolderKeepsBlock, ControlInv, ControlAt, InGetblk,
           Holding
  <2>. QED
    BY <1>17, <2>1 DEF Modify, WriteInode, WriteData, procVars
<1>18. ASSUME NEW b \in Buffers, ReadEnds(b) PROVE HeadInv'
  BY <1>18 DEF ReadEnds, Unlock, procVars
<1>19. ASSUME NEW b \in Buffers, ReadFails(b) PROVE HeadInv'
  BY <1>19 DEF ReadFails, Unlock, procVars
<1>20. ASSUME NEW b \in Buffers, WriteEnds(b) PROVE HeadInv'
  BY <1>20 DEF WriteEnds, Unlock, procVars
<1>22. ASSUME NEW f \in Frames, SyncInodes(f) PROVE HeadInv'
  BY <1>22 DEF SyncInodes, Goto, headVars, dataVars
<1>23. ASSUME NEW f \in Frames, LockInode(f) PROVE HeadInv'
  BY <1>23 DEF LockInode, Goto, headVars, dataVars
<1>25. ASSUME NEW f \in Frames, Chmod(f) PROVE HeadInv'
  BY <1>25 DEF Chmod, headVars, dataVars, callVars
<1>21. CASE UNCHANGED vars
  BY <1>21 DEF vars, headVars, dataVars, procVars
<1>. QED
  BY <1>1, <1>2, <1>3, <1>4, <1>5, <1>6, <1>7, <1>8, <1>9, <1>10, <1>11,
     <1>12, <1>13, <1>14, <1>15, <1>16, <1>17, <1>18, <1>19, <1>20, <1>21,
     <1>22, <1>23, <1>25 DEF Next, Continue, Disk

-----------------------------------------------------------------------------
(* The processes that hold a buffer can be counted. *)
LEMMA HoldersFinite ==
  ASSUME NEW b
  PROVE  IsFiniteSet(Holders(b)) /\ IsFiniteSet(Readers(b))
<1>2. IsFiniteSet(Frames)
  BY FS_Interval, FS_Product, 0 \in Int, NR_INODE \in Int DEF Frames
<1>1. Holders(b) \subseteq Frames /\ Readers(b) \subseteq Frames
  BY DEF Holders, Readers
<1>. QED
  BY <1>1, <1>2, FS_Subset

(* A buffer that some process holds has a positive count. *)
LEMMA HeldIsCounted ==
  ASSUME TypeOK, RefCount, NEW b \in Buffers, Holders(b) # {} \/ Readers(b) # {}
  PROVE  b_count[b] > 0
<1>1. /\ Cardinality(Holders(b)) \in Nat /\ Cardinality(Readers(b)) \in Nat
      /\ Cardinality(Holders(b)) = 0 <=> Holders(b) = {}
      /\ Cardinality(Readers(b)) = 0 <=> Readers(b) = {}
  BY HoldersFinite, FS_CardinalityType, FS_EmptySet
<1>. QED
  BY <1>1 DEF RefCount

(* The count stays right when the same processes hold the same buffers. *)
LEMMA RefSame ==
  ASSUME RefCount, b_count' = b_count,
         \A b \in Buffers : Holders(b)' = Holders(b) /\ Readers(b)' = Readers(b)
  PROVE  RefCount'
  BY DEF RefCount

(* The count stays right when a process takes hold of a buffer and the     *)
(* buffer's count goes up.                                                 *)
LEMMA RefGain ==
  ASSUME TypeOK, RefCount, NEW f \in Frames, NEW c \in Buffers, f \notin Holders(c),
         Holders(c)' = Holders(c) \cup {f},
         \A b \in Buffers \ {c} : Holders(b)' = Holders(b),
         \A b \in Buffers : Readers(b)' = Readers(b),
         b_count' = [b_count EXCEPT ![c] = b_count[c] + 1]
  PROVE  RefCount'
<1>1. Cardinality(Holders(c) \cup {f}) = Cardinality(Holders(c)) + 1
  BY HoldersFinite, FS_AddElement
<1>2. /\ b_count'[c] = b_count[c] + 1
      /\ \A b \in Buffers \ {c} : b_count'[b] = b_count[b]
  BY DEF TypeOK, HeadTypeOK
<1>3. Cardinality(Holders(c)) \in Nat /\ Cardinality(Readers(c)) \in Nat
  BY HoldersFinite, FS_CardinalityType
<1>4. b_count'[c] = Cardinality(Holders(c)') + Cardinality(Readers(c)')
  BY <1>1, <1>2, <1>3 DEF RefCount
<1>5. ASSUME NEW b \in Buffers \ {c}
      PROVE  b_count'[b] = Cardinality(Holders(b)') + Cardinality(Readers(b)')
  BY <1>2 DEF RefCount
<1>. QED
  BY <1>4, <1>5 DEF RefCount

(* The count stays right when a process lets go of a buffer and the        *)
(* buffer's count goes down.                                               *)
LEMMA RefLoss ==
  ASSUME TypeOK, RefCount, NEW f \in Frames, NEW c \in Buffers, f \in Holders(c),
         Holders(c)' = Holders(c) \ {f},
         \A b \in Buffers \ {c} : Holders(b)' = Holders(b),
         \A b \in Buffers : Readers(b)' = Readers(b),
         b_count' = [b_count EXCEPT ![c] = b_count[c] - 1]
  PROVE  RefCount'
<1>1. Cardinality(Holders(c) \ {f}) = Cardinality(Holders(c)) - 1
  BY HoldersFinite, FS_RemoveElement
<1>2. /\ b_count'[c] = b_count[c] - 1
      /\ \A b \in Buffers \ {c} : b_count'[b] = b_count[b]
  BY DEF TypeOK, HeadTypeOK
<1>3. Cardinality(Holders(c)) \in Nat /\ Cardinality(Readers(c)) \in Nat
  BY HoldersFinite, FS_CardinalityType
<1>4. b_count'[c] = Cardinality(Holders(c)') + Cardinality(Readers(c)')
  BY <1>1, <1>2, <1>3 DEF RefCount
<1>5. ASSUME NEW b \in Buffers \ {c}
      PROVE  b_count'[b] = Cardinality(Holders(b)') + Cardinality(Readers(b)')
  BY <1>2 DEF RefCount
<1>. QED
  BY <1>4, <1>5 DEF RefCount

(* The count stays right when breada sets its buffer aside, and when it    *)
(* takes it up again.                                                      *)
LEMMA RefShift ==
  ASSUME TypeOK, RefCount, NEW f \in Frames, NEW c \in Buffers,
         \/ /\ f \in Holders(c) /\ f \notin Readers(c)
            /\ Holders(c)' = Holders(c) \ {f} /\ Readers(c)' = Readers(c) \cup {f}
         \/ /\ f \notin Holders(c) /\ f \in Readers(c)
            /\ Holders(c)' = Holders(c) \cup {f} /\ Readers(c)' = Readers(c) \ {f},
         \A b \in Buffers \ {c} : Holders(b)' = Holders(b) /\ Readers(b)' = Readers(b),
         b_count' = b_count
  PROVE  RefCount'
<1>1. Cardinality(Holders(c)) \in Nat /\ Cardinality(Readers(c)) \in Nat
  BY HoldersFinite, FS_CardinalityType
<1>2. CASE f \in Holders(c) /\ f \notin Readers(c)
  <2>1. Holders(c)' = Holders(c) \ {f} /\ Readers(c)' = Readers(c) \cup {f}
    BY <1>2
  <2>2. /\ Cardinality(Holders(c) \ {f}) = Cardinality(Holders(c)) - 1
        /\ Cardinality(Readers(c) \cup {f}) = Cardinality(Readers(c)) + 1
    BY ZenonT(60), <1>2, HoldersFinite, FS_RemoveElement, FS_AddElement
  <2>3. b_count'[c] = Cardinality(Holders(c)') + Cardinality(Readers(c)')
    BY <1>1, <2>1, <2>2 DEF RefCount
  <2>. QED
    BY <2>3 DEF RefCount
<1>3. CASE f \notin Holders(c) /\ f \in Readers(c)
  <2>1. Holders(c)' = Holders(c) \cup {f} /\ Readers(c)' = Readers(c) \ {f}
    BY <1>3
  <2>2. /\ Cardinality(Holders(c) \cup {f}) = Cardinality(Holders(c)) + 1
        /\ Cardinality(Readers(c) \ {f}) = Cardinality(Readers(c)) - 1
    BY ZenonT(60), <1>3, HoldersFinite, FS_RemoveElement, FS_AddElement
  <2>3. b_count'[c] = Cardinality(Holders(c)') + Cardinality(Readers(c)')
    BY <1>1, <2>1, <2>2 DEF RefCount
  <2>. QED
    BY <2>3 DEF RefCount
<1>. QED
  BY <1>2, <1>3

(* Every step keeps b_count equal to the number of references.             *)
LEMMA RefInductive ==
  ASSUME IInv, [Next]_vars
  PROVE  RefCount'
<1>. TypeOK /\ ControlInv /\ RefCount /\ HolderInv
  BY DEF IInv
<1>1. ASSUME NEW f \in Frames, Call(f) PROVE RefCount'
  <2>1. \A b \in Buffers : Holders(b)' = Holders(b) /\ Readers(b)' = Readers(b)
    BY <1>1
       DEF Holders, Readers, Holding, TypeOK, ProcTypeOK, Call, Goto,
           headVars, dataVars, syncVars
  <2>2. b_count' = b_count
    BY <1>1 DEF Call, Goto, headVars, dataVars, syncVars
  <2>. QED
    BY <2>1, <2>2, RefSame
<1>2. ASSUME NEW f \in Frames, HashHit(f) PROVE RefCount'
  <2>1. PICK c \in Buffers : /\ b_count' = [b_count EXCEPT ![c] = b_count[c] + 1]
                             /\ bh' = [bh EXCEPT ![f] = c]
    BY <1>2 DEF HashHit, FindBuffer
  <2>2. pc[f] = "repeat" /\ pc' = [pc EXCEPT ![f] = "hash_wait"] /\ first' = first
    BY <1>2 DEF HashHit, Goto, callVars
  <2>3. /\ f \notin Holders(c) /\ Holders(c)' = Holders(c) \cup {f}
        /\ \A b \in Buffers \ {c} : Holders(b)' = Holders(b)
        /\ \A b \in Buffers : Readers(b)' = Readers(b)
    <3>1. f \notin Holders(c)
      BY <2>1, <2>2 DEF Holders, Readers, Holding, TypeOK, ProcTypeOK
    <3>2. Holders(c)' = Holders(c) \cup {f}
      BY <2>1, <2>2 DEF Holders, Readers, Holding, TypeOK, ProcTypeOK
    <3>3. \A b \in Buffers \ {c} : Holders(b)' = Holders(b)
      BY <2>1, <2>2 DEF Holders, Readers, Holding, TypeOK, ProcTypeOK
    <3>4. \A b \in Buffers : Readers(b)' = Readers(b)
      BY <2>1, <2>2 DEF Holders, Readers, Holding, TypeOK, ProcTypeOK
    <3>. QED
      BY <3>1, <3>2, <3>3, <3>4
  <2>. QED
    BY <2>1, <2>3, RefGain
<1>3. ASSUME NEW f \in Frames, HashReady(f) PROVE RefCount'
  <2>1. b_ident[bh[f]] = want[f]
    BY <1>3 DEF HashReady, HolderInv
  <2>2. pc[f] = "hash_wait" /\ pc' = [pc EXCEPT ![f] = "got"]
        /\ UNCHANGED <<bh, first, b_count>>
    BY <1>3, <2>1 DEF HashReady, Goto, callVars
  <2>3. \A b \in Buffers : Holders(b)' = Holders(b) /\ Readers(b)' = Readers(b)
    BY <2>2 DEF Holders, Readers, Holding, TypeOK, ProcTypeOK
  <2>. QED
    BY <2>2, <2>3, RefSame
<1>4. ASSUME NEW f \in Frames, SleepForBuffer(f) PROVE RefCount'
  <2>1. \A b \in Buffers : Holders(b)' = Holders(b) /\ Readers(b)' = Readers(b)
    BY <1>4
       DEF Holders, Readers, Holding, TypeOK, ProcTypeOK, SleepForBuffer,
           Goto, headVars, dataVars, callVars, syncVars
  <2>2. b_count' = b_count
    BY <1>4 DEF SleepForBuffer, Goto, headVars, dataVars, callVars, syncVars
  <2>. QED
    BY <2>1, <2>2, RefSame
<1>5. ASSUME NEW f \in Frames, PickVictim(f) PROVE RefCount'
  <2>1. \A b \in Buffers : Holders(b)' = Holders(b) /\ Readers(b)' = Readers(b)
    BY <1>5
       DEF Holders, Readers, Holding, TypeOK, ProcTypeOK, PickVictim, Goto,
           headVars, dataVars, callVars, syncVars
  <2>2. b_count' = b_count
    BY <1>5 DEF PickVictim, Goto, headVars, dataVars, callVars, syncVars
  <2>. QED
    BY <2>1, <2>2, RefSame
<1>6. ASSUME NEW f \in Frames, VictimReady(f) PROVE RefCount'
  <2>2. CASE Retry(f)
    <3>1. \A b \in Buffers : Holders(b)' = Holders(b) /\ Readers(b)' = Readers(b)
      BY <1>6, <2>2
         DEF VictimReady, Holders, Readers, Holding, TypeOK, ProcTypeOK,
             Retry, Goto, headVars, dataVars, callVars, syncVars
    <3>. QED
      BY <2>2, <3>1, RefSame
         DEF Retry, Goto, headVars, dataVars, callVars, syncVars
  <2>3. CASE CleanVictim(f)
    <3>1. \A b \in Buffers : Holders(b)' = Holders(b) /\ Readers(b)' = Readers(b)
      BY <1>6, <2>3
         DEF VictimReady, Holders, Readers, Holding, TypeOK, ProcTypeOK,
             CleanVictim, Goto, headVars, dataVars, callVars
    <3>. QED
      BY <2>3, <3>1, RefSame
         DEF CleanVictim, Goto, headVars, dataVars, callVars
  <2>4. CASE TakeVictim(f)
    <3>1. /\ pc[f] = "victim_wait" /\ pc' = [pc EXCEPT ![f] = "got"]
          /\ UNCHANGED <<bh, first>> /\ b_count' = [b_count EXCEPT ![bh[f]] = 1]
      BY <1>6, <2>4 DEF VictimReady, TakeVictim, Goto, callVars
    <3>2. PICK c \in Buffers : c = bh[f]
      BY <3>1 DEF ControlInv, ControlAt
    <3>3. b_count[bh[f]] = 0
      <4>1. ~(b_count[bh[f]] > 0)
        BY <1>6, <2>4 DEF VictimReady, Retry, TakeVictim, Goto, TypeOK, ProcTypeOK
      <4>2. b_count[bh[f]] \in Nat
        BY <3>2, HoldersFinite, FS_CardinalityType DEF RefCount
      <4>. QED
        BY <4>1, <4>2
    <3>4. b_count' = [b_count EXCEPT ![bh[f]] = b_count[bh[f]] + 1]
      BY <3>1, <3>3
    <3>5. /\ f \notin Holders(c) /\ Holders(c)' = Holders(c) \cup {f}
          /\ \A b \in Buffers \ {c} : Holders(b)' = Holders(b)
          /\ \A b \in Buffers : Readers(b)' = Readers(b)
      <4>1. f \notin Holders(c)
        BY <3>1, <3>2 DEF Holders, Readers, Holding, TypeOK, ProcTypeOK
      <4>2. Holders(c)' = Holders(c) \cup {f}
        BY <3>1, <3>2 DEF Holders, Readers, Holding, TypeOK, ProcTypeOK
      <4>3. \A b \in Buffers \ {c} : Holders(b)' = Holders(b)
        BY <3>1, <3>2 DEF Holders, Readers, Holding, TypeOK, ProcTypeOK
      <4>4. \A b \in Buffers : Readers(b)' = Readers(b)
        BY <3>1, <3>2 DEF Holders, Readers, Holding, TypeOK, ProcTypeOK
      <4>. QED
        BY <4>1, <4>2, <4>3, <4>4
    <3>. QED
      BY <3>2, <3>4, <3>5, RefGain
  <2>. QED
    BY <1>6, <2>2, <2>3, <2>4 DEF VictimReady
<1>7. ASSUME NEW f \in Frames, SyncRun(f) PROVE RefCount'
  <2>1. \A b \in Buffers : Holders(b)' = Holders(b) /\ Readers(b)' = Readers(b)
    BY <1>7 DEF Holders, Readers, Holding, TypeOK, ProcTypeOK, SyncRun, Goto
  <2>2. b_count' = b_count
    BY <1>7 DEF SyncRun, Goto
  <2>. QED
    BY <2>1, <2>2, RefSame
<1>8. ASSUME NEW f \in Frames, Bread(f) PROVE RefCount'
  <2>1. \A b \in Buffers : Holders(b)' = Holders(b) /\ Readers(b)' = Readers(b)
    BY <1>8
       DEF Holders, Readers, Holding, TypeOK, ProcTypeOK, Bread, ReadBlock,
           Goto, callVars, syncVars
  <2>2. b_count' = b_count
    BY <1>8 DEF Bread, ReadBlock, Goto, callVars, syncVars
  <2>. QED
    BY <2>1, <2>2, RefSame
<1>9. ASSUME NEW f \in Frames, Breada(f) PROVE RefCount'
  <2>1. /\ pc[f] = "got" /\ pc' = [pc EXCEPT ![f] = "ahead"] /\ first[f] = NULL
        /\ first' = [first EXCEPT ![f] = bh[f]] /\ bh' = [bh EXCEPT ![f] = NULL]
        /\ b_count' = b_count
    BY <1>9 DEF Breada, Goto
  <2>2. PICK c \in Buffers : c = bh[f]
    BY <2>1 DEF ControlInv, ControlAt, Holding
  <2>3. /\ f \in Holders(c) /\ f \notin Readers(c)
        /\ Holders(c)' = Holders(c) \ {f}
        /\ Readers(c)' = Readers(c) \cup {f}
        /\ \A b \in Buffers \ {c} : Holders(b)' = Holders(b) /\ Readers(b)' = Readers(b)
    <3>1. f \in Holders(c) /\ f \notin Readers(c)
      BY <2>1, <2>2 DEF Holders, Readers, Holding, TypeOK, ProcTypeOK
    <3>2. Holders(c)' = Holders(c) \ {f}
      BY <2>1, <2>2 DEF Holders, Readers, Holding, TypeOK, ProcTypeOK
    <3>3. Readers(c)' = Readers(c) \cup {f}
      BY <2>1, <2>2 DEF Holders, Readers, Holding, TypeOK, ProcTypeOK
    <3>4. \A b \in Buffers \ {c} : Holders(b)' = Holders(b) /\ Readers(b)' = Readers(b)
      BY <2>1, <2>2 DEF Holders, Readers, Holding, TypeOK, ProcTypeOK
    <3>. QED
      BY <3>1, <3>2, <3>3, <3>4
  <2>. QED
    BY <2>1, <2>2, <2>3, RefShift
<1>10. ASSUME NEW f \in Frames, AheadNext(f) PROVE RefCount'
  <2>1. \A b \in Buffers : Holders(b)' = Holders(b) /\ Readers(b)' = Readers(b)
    BY <1>10
       DEF Holders, Readers, Holding, TypeOK, ProcTypeOK, AheadNext, Goto,
           headVars, dataVars, syncVars
  <2>2. b_count' = b_count
    BY <1>10 DEF AheadNext, Goto, headVars, dataVars, syncVars
  <2>. QED
    BY <2>1, <2>2, RefSame
<1>11. ASSUME NEW f \in Frames, AheadGot(f) PROVE RefCount'
  <2>1. /\ pc[f] = "got" /\ bh' = [bh EXCEPT ![f] = NULL] /\ first' = first
        /\ b_count' = [b_count EXCEPT ![bh[f]] = b_count[bh[f]] - 1]
        /\ pc' = [pc EXCEPT ![f] = "ahead"]
    BY <1>11 DEF AheadGot, ReadBlock, Goto, callVars, syncVars
  <2>2. PICK c \in Buffers : c = bh[f]
    BY <2>1 DEF ControlInv, ControlAt, Holding
  <2>3. /\ f \in Holders(c) /\ Holders(c)' = Holders(c) \ {f}
        /\ \A b \in Buffers \ {c} : Holders(b)' = Holders(b)
        /\ \A b \in Buffers : Readers(b)' = Readers(b)
    <3>1. f \in Holders(c)
      BY <2>1, <2>2 DEF Holders, Readers, Holding, TypeOK, ProcTypeOK
    <3>2. Holders(c)' = Holders(c) \ {f}
      BY <2>1, <2>2 DEF Holders, Readers, Holding, TypeOK, ProcTypeOK
    <3>3. \A b \in Buffers \ {c} : Holders(b)' = Holders(b)
      BY <2>1, <2>2 DEF Holders, Readers, Holding, TypeOK, ProcTypeOK
    <3>4. \A b \in Buffers : Readers(b)' = Readers(b)
      BY <2>1, <2>2 DEF Holders, Readers, Holding, TypeOK, ProcTypeOK
    <3>. QED
      BY <3>1, <3>2, <3>3, <3>4
  <2>. QED
    BY <2>1, <2>2, <2>3, RefLoss
<1>12. ASSUME NEW f \in Frames, AheadDone(f) PROVE RefCount'
  <2>1. /\ pc[f] = "ahead" /\ pc' = [pc EXCEPT ![f] = "read_wait"]
        /\ bh' = [bh EXCEPT ![f] = first[f]] /\ first' = [first EXCEPT ![f] = NULL]
        /\ b_count' = b_count
    BY <1>12 DEF AheadDone, Goto, headVars
  <2>2. PICK c \in Buffers : c = first[f]
    BY <2>1 DEF ControlInv, ControlAt
  <2>3. /\ f \notin Holders(c) /\ f \in Readers(c)
        /\ Holders(c)' = Holders(c) \cup {f}
        /\ Readers(c)' = Readers(c) \ {f}
        /\ \A b \in Buffers \ {c} : Holders(b)' = Holders(b) /\ Readers(b)' = Readers(b)
    <3>1. f \notin Holders(c) /\ f \in Readers(c)
      BY <2>1, <2>2 DEF Holders, Readers, Holding, TypeOK, ProcTypeOK
    <3>2. Holders(c)' = Holders(c) \cup {f}
      BY <2>1, <2>2 DEF Holders, Readers, Holding, TypeOK, ProcTypeOK
    <3>3. Readers(c)' = Readers(c) \ {f}
      BY <2>1, <2>2 DEF Holders, Readers, Holding, TypeOK, ProcTypeOK
    <3>4. \A b \in Buffers \ {c} : Holders(b)' = Holders(b) /\ Readers(b)' = Readers(b)
      BY <2>1, <2>2 DEF Holders, Readers, Holding, TypeOK, ProcTypeOK
    <3>. QED
      BY <3>1, <3>2, <3>3, <3>4
  <2>. QED
    BY <2>1, <2>2, <2>3, RefShift
<1>13. ASSUME NEW f \in Frames, ReadDone(f) PROVE RefCount'
  <2>1. \A b \in Buffers : Holders(b)' = Holders(b) /\ Readers(b)' = Readers(b)
    BY <1>13
       DEF Holders, Readers, Holding, TypeOK, ProcTypeOK, ReadDone, Goto,
           headVars, dataVars, callVars, syncVars
  <2>2. b_count' = b_count
    BY <1>13 DEF ReadDone, Goto, headVars, dataVars, callVars, syncVars
  <2>. QED
    BY <2>1, <2>2, RefSame
<1>14. ASSUME NEW f \in Frames, Overwrite(f) PROVE RefCount'
  <2>1. \A b \in Buffers : Holders(b)' = Holders(b) /\ Readers(b)' = Readers(b)
    BY <1>14
       DEF Holders, Readers, Holding, TypeOK, ProcTypeOK, Overwrite,
           WriteData, Goto, callVars, syncVars
  <2>2. b_count' = b_count
    BY <1>14 DEF Overwrite, WriteData, Goto, callVars, syncVars
  <2>. QED
    BY <2>1, <2>2, RefSame
<1>15. ASSUME NEW f \in Frames, Release(f) PROVE RefCount'
  <2>1. \A b \in Buffers : Holders(b)' = Holders(b) /\ Readers(b)' = Readers(b)
    BY <1>15
       DEF Holders, Readers, Holding, TypeOK, ProcTypeOK, Release, Goto,
           headVars, dataVars, callVars, syncVars
  <2>2. b_count' = b_count
    BY <1>15 DEF Release, Goto, headVars, dataVars, callVars, syncVars
  <2>. QED
    BY <2>1, <2>2, RefSame
<1>16. ASSUME NEW f \in Frames, Brelse(f) PROVE RefCount'
  <2>1. /\ pc[f] = "rel_wait" /\ bh' = [bh EXCEPT ![f] = NULL] /\ first' = first
        /\ b_count' = [b_count EXCEPT ![bh[f]] = b_count[bh[f]] - 1]
        /\ pc'[f] = "idle"
        /\ \A g \in Frames \ {f} : pc'[g] = pc[g] \/ (pc[g] = "sleep" /\ pc'[g] = "repeat")
    BY <1>16 DEF Brelse, dataVars, syncVars
  <2>2. PICK c \in Buffers : c = bh[f]
    BY <2>1 DEF ControlInv, ControlAt, Holding
  <2>3. /\ f \in Holders(c) /\ Holders(c)' = Holders(c) \ {f}
        /\ \A b \in Buffers \ {c} : Holders(b)' = Holders(b)
        /\ \A b \in Buffers : Readers(b)' = Readers(b)
    <3>1. f \in Holders(c)
      BY <2>1, <2>2 DEF Holders, Readers, Holding, TypeOK, ProcTypeOK
    <3>2. Holders(c)' = Holders(c) \ {f}
      BY <2>1, <2>2 DEF Holders, Readers, Holding, TypeOK, ProcTypeOK
    <3>3. \A b \in Buffers \ {c} : Holders(b)' = Holders(b)
      BY <2>1, <2>2 DEF Holders, Readers, Holding, TypeOK, ProcTypeOK
    <3>4. \A b \in Buffers : Readers(b)' = Readers(b)
      BY <2>1, <2>2 DEF Holders, Readers, Holding, TypeOK, ProcTypeOK
    <3>. QED
      BY <3>1, <3>2, <3>3, <3>4
  <2>. QED
    BY <2>1, <2>2, <2>3, RefLoss
<1>17. ASSUME NEW f \in Frames, Modify(f) PROVE RefCount'
  <2>1. \A b \in Buffers : Holders(b)' = Holders(b) /\ Readers(b)' = Readers(b)
    BY <1>17
       DEF Holders, Readers, Holding, TypeOK, ProcTypeOK, Modify, WriteData,
           procVars
  <2>2. b_count' = b_count
    BY <1>17 DEF Modify, WriteData, procVars
  <2>. QED
    BY <2>1, <2>2, RefSame
<1>18. ASSUME NEW b \in Buffers, ReadEnds(b) PROVE RefCount'
  <2>1. \A c \in Buffers : Holders(c)' = Holders(c) /\ Readers(c)' = Readers(c)
    BY <1>18
       DEF Holders, Readers, Holding, TypeOK, ProcTypeOK, ReadEnds, Unlock,
           procVars
  <2>2. b_count' = b_count
    BY <1>18 DEF ReadEnds, Unlock, procVars
  <2>. QED
    BY <2>1, <2>2, RefSame
<1>19. ASSUME NEW b \in Buffers, ReadFails(b) PROVE RefCount'
  <2>1. \A c \in Buffers : Holders(c)' = Holders(c) /\ Readers(c)' = Readers(c)
    BY <1>19
       DEF Holders, Readers, Holding, TypeOK, ProcTypeOK, ReadFails, Unlock,
           procVars
  <2>2. b_count' = b_count
    BY <1>19 DEF ReadFails, Unlock, procVars
  <2>. QED
    BY <2>1, <2>2, RefSame
<1>20. ASSUME NEW b \in Buffers, WriteEnds(b) PROVE RefCount'
  <2>1. \A c \in Buffers : Holders(c)' = Holders(c) /\ Readers(c)' = Readers(c)
    BY <1>20
       DEF Holders, Readers, Holding, TypeOK, ProcTypeOK, WriteEnds, Unlock,
           procVars
  <2>2. b_count' = b_count
    BY <1>20 DEF WriteEnds, Unlock, procVars
  <2>. QED
    BY <2>1, <2>2, RefSame
<1>22. ASSUME NEW f \in Frames, SyncInodes(f) PROVE RefCount'
  <2>1. \A b \in Buffers : Holders(b)' = Holders(b) /\ Readers(b)' = Readers(b)
    BY <1>22
       DEF Holders, Readers, Holding, TypeOK, ProcTypeOK, SyncInodes, Goto, headVars, dataVars
  <2>2. b_count' = b_count
    BY <1>22 DEF SyncInodes, Goto, headVars, dataVars
  <2>. QED
    BY <2>1, <2>2, RefSame
<1>23. ASSUME NEW f \in Frames, LockInode(f) PROVE RefCount'
  <2>1. \A b \in Buffers : Holders(b)' = Holders(b) /\ Readers(b)' = Readers(b)
    BY <1>23
       DEF Holders, Readers, Holding, TypeOK, ProcTypeOK, LockInode, Goto, headVars, dataVars
  <2>2. b_count' = b_count
    BY <1>23 DEF LockInode, Goto, headVars, dataVars
  <2>. QED
    BY <2>1, <2>2, RefSame
<1>24. ASSUME NEW f \in Frames, WriteInode(f) PROVE RefCount'
  <2>1. \A b \in Buffers : Holders(b)' = Holders(b) /\ Readers(b)' = Readers(b)
    BY <1>24
       DEF Holders, Readers, Holding, TypeOK, ProcTypeOK, WriteInode, WriteData, Goto, callVars
  <2>2. b_count' = b_count
    BY <1>24 DEF WriteInode, WriteData, Goto, callVars
  <2>. QED
    BY <2>1, <2>2, RefSame
<1>25. ASSUME NEW f \in Frames, Chmod(f) PROVE RefCount'
  <2>1. \A b \in Buffers : Holders(b)' = Holders(b) /\ Readers(b)' = Readers(b)
    BY <1>25
       DEF Holders, Readers, Holding, TypeOK, ProcTypeOK, Chmod, headVars, dataVars, callVars
  <2>2. b_count' = b_count
    BY <1>25 DEF Chmod, headVars, dataVars, callVars
  <2>. QED
    BY <2>1, <2>2, RefSame
<1>21. CASE UNCHANGED vars
  <2>1. \A b \in Buffers : Holders(b)' = Holders(b) /\ Readers(b)' = Readers(b)
    BY <1>21 DEF vars, headVars, procVars, Holders, Readers
  <2>. QED
    BY <1>21, <2>1, RefSame DEF vars, headVars
<1>. QED
  BY <1>1, <1>2, <1>3, <1>4, <1>5, <1>6, <1>7, <1>8, <1>9, <1>10, <1>11,
     <1>12, <1>13, <1>14, <1>15, <1>16, <1>17, <1>18, <1>19, <1>20, <1>21,
     <1>22, <1>23, <1>24, <1>25 DEF Next, Continue, Disk

-----------------------------------------------------------------------------
(* Every step keeps a block from being in two buffers. *)
LEMMA CoherentInductive ==
  ASSUME IInv, [Next]_vars
  PROVE  Coherent'
<1>. HeadTypeOK /\ ProcTypeOK /\ Coherent
  BY DEF IInv, TypeOK
<1>. USE DEF Coherent, HeadTypeOK
<1>1. ASSUME NEW f \in Frames, Call(f) PROVE Coherent'
  BY <1>1 DEF Call, Goto, headVars, dataVars, syncVars
<1>2. ASSUME NEW f \in Frames, HashHit(f) PROVE Coherent'
  BY <1>2 DEF HashHit, FindBuffer, Goto, dataVars, callVars, syncVars
<1>3. ASSUME NEW f \in Frames, HashReady(f) PROVE Coherent'
  BY <1>3 DEF HashReady, Goto, dataVars, callVars, syncVars
<1>4. ASSUME NEW f \in Frames, SleepForBuffer(f) PROVE Coherent'
  BY <1>4 DEF SleepForBuffer, Goto, headVars, dataVars, callVars, syncVars
<1>5. ASSUME NEW f \in Frames, PickVictim(f) PROVE Coherent'
  BY <1>5 DEF PickVictim, Goto, headVars, dataVars, callVars, syncVars
<1>6. ASSUME NEW f \in Frames, VictimReady(f) PROVE Coherent'
  <2>1. TakeVictim(f) => FindBuffer(want[f]) = {}
    BY SMTT(60), <1>6 DEF VictimReady, Retry, CleanVictim, TakeVictim, Goto, ProcTypeOK
  <2>2. CASE Retry(f)
    BY <2>2 DEF Retry, Goto, headVars, dataVars, callVars, syncVars
  <2>3. CASE CleanVictim(f)
    BY <2>3 DEF CleanVictim, Goto, headVars, dataVars, callVars
  <2>4. CASE TakeVictim(f)
    BY <2>1, <2>4 DEF TakeVictim, FindBuffer
  <2>. QED
    BY <1>6, <2>2, <2>3, <2>4 DEF VictimReady
<1>7. ASSUME NEW f \in Frames, SyncRun(f) PROVE Coherent'
  BY <1>7 DEF SyncRun, Goto
<1>8. ASSUME NEW f \in Frames, Bread(f) PROVE Coherent'
  BY <1>8 DEF Bread, ReadBlock, Goto, callVars, syncVars
<1>9. ASSUME NEW f \in Frames, Breada(f) PROVE Coherent'
  BY <1>9 DEF Breada, ReadBlock, Goto, syncVars
<1>10. ASSUME NEW f \in Frames, AheadNext(f) PROVE Coherent'
  BY <1>10 DEF AheadNext, Goto, headVars, dataVars, syncVars
<1>11. ASSUME NEW f \in Frames, AheadGot(f) PROVE Coherent'
  BY <1>11 DEF AheadGot, ReadBlock, Goto, callVars, syncVars
<1>12. ASSUME NEW f \in Frames, AheadDone(f) PROVE Coherent'
  BY <1>12 DEF AheadDone, Goto, headVars, dataVars, syncVars
<1>13. ASSUME NEW f \in Frames, ReadDone(f) PROVE Coherent'
  BY <1>13 DEF ReadDone, Goto, headVars, dataVars, callVars, syncVars
<1>14. ASSUME NEW f \in Frames, Overwrite(f) PROVE Coherent'
  BY <1>14 DEF Overwrite, WriteData, Goto, callVars, syncVars
<1>15. ASSUME NEW f \in Frames, Release(f) PROVE Coherent'
  BY <1>15 DEF Release, Goto, headVars, dataVars, callVars, syncVars
<1>16. ASSUME NEW f \in Frames, Brelse(f) PROVE Coherent'
  BY <1>16 DEF Brelse, dataVars, syncVars
<1>17. ASSUME NEW f \in Frames, Modify(f) PROVE Coherent'
  BY <1>17 DEF Modify, WriteData, procVars
<1>18. ASSUME NEW b \in Buffers, ReadEnds(b) PROVE Coherent'
  BY <1>18 DEF ReadEnds, Unlock, procVars
<1>19. ASSUME NEW b \in Buffers, ReadFails(b) PROVE Coherent'
  BY <1>19 DEF ReadFails, Unlock, procVars
<1>20. ASSUME NEW b \in Buffers, WriteEnds(b) PROVE Coherent'
  BY <1>20 DEF WriteEnds, Unlock, procVars
<1>22. ASSUME NEW f \in Frames, SyncInodes(f) PROVE Coherent'
  BY <1>22 DEF SyncInodes, Goto, headVars, dataVars
<1>23. ASSUME NEW f \in Frames, LockInode(f) PROVE Coherent'
  BY <1>23 DEF LockInode, Goto, headVars, dataVars
<1>24. ASSUME NEW f \in Frames, WriteInode(f) PROVE Coherent'
  BY <1>24 DEF WriteInode, WriteData, Goto, callVars
<1>25. ASSUME NEW f \in Frames, Chmod(f) PROVE Coherent'
  BY <1>25 DEF Chmod, headVars, dataVars, callVars
<1>21. CASE UNCHANGED vars
  BY <1>21 DEF vars, headVars
<1>. QED
  BY <1>1, <1>2, <1>3, <1>4, <1>5, <1>6, <1>7, <1>8, <1>9, <1>10, <1>11,
     <1>12, <1>13, <1>14, <1>15, <1>16, <1>17, <1>18, <1>19, <1>20, <1>21,
     <1>22, <1>23, <1>24, <1>25 DEF Next, Continue, Disk

(* What a process holds, at each place. *)
HolderAt(f) ==
  /\ pc[f] \in {"hash_wait", "got"} => b_ident[bh[f]] = want[f]
  /\ pc[f] \in {"read_wait", "use", "rel_wait"} => b_ident[bh[f]] = asked[f]
  /\ first[f] # NULL => b_ident[first[f]] = asked[f]

LEMMA HolderParts == HolderInv <=> \A f \in Frames : HolderAt(f)
  BY DEF HolderInv, HolderKeepsBlock, HolderAt

(* Every step leaves each process with the block it asked for in the buffer*)
(* it holds: no other process may give the buffer to another block.        *)
LEMMA HolderInductive ==
  ASSUME IInv, [Next]_vars
  PROVE  HolderInv'
<1>. TypeOK /\ HeadTypeOK /\ ProcTypeOK /\ ControlInv /\ RefCount
  BY DEF IInv, TypeOK
<1>. \A r \in Frames : HolderAt(r)
  BY HolderParts DEF IInv
<1>. SUFFICES ASSUME NEW g \in Frames PROVE HolderAt(g)'
  BY HolderParts DEF HolderInv, HolderKeepsBlock, HolderAt
<1>. USE DEF HolderAt, ControlInv, ControlAt, InGetblk, Holding, HeadTypeOK, ProcTypeOK
<1>1. ASSUME NEW f \in Frames, Call(f) PROVE HolderAt(g)'
  <2>1. CASE g = f
    <3>1. pc[g] = "idle" /\ first[g] = NULL /\ first'[g] = NULL
      BY <1>1, <2>1 DEF Call
    <3>2. pc'[g] \in {"repeat", "inodes", "lock_inode"}
      BY <1>1, <2>1 DEF Call, Goto
    <3>. QED
      BY <3>1, <3>2
  <2>2. CASE g # f
    <3>1. /\ UNCHANGED <<b_ident, bh, first>> /\ pc'[g] = pc[g]
          /\ asked'[g] = asked[g] /\ want'[g] = want[g]
      BY <1>1, <2>2 DEF Call, Goto, headVars
    <3>. QED
      BY <3>1
  <2>. QED
    BY <2>1, <2>2
<1>2. ASSUME NEW f \in Frames, HashHit(f) PROVE HolderAt(g)'
  <2>1. CASE g = f
    BY <1>2, <2>1 DEF HashHit, FindBuffer, Goto, dataVars, callVars, syncVars
  <2>2. CASE g # f
    BY <1>2, <2>2 DEF HashHit, FindBuffer, Goto, dataVars, callVars, syncVars
  <2>. QED
    BY <2>1, <2>2
<1>3. ASSUME NEW f \in Frames, HashReady(f) PROVE HolderAt(g)'
  <2>1. /\ pc[f] = "hash_wait" /\ pc' = [pc EXCEPT ![f] = "got"]
        /\ UNCHANGED <<b_ident, bh, asked, want, first>>
    BY <1>3, HashReadyGets DEF headVars, callVars
  <2>. QED
    BY <2>1
<1>4. ASSUME NEW f \in Frames, SleepForBuffer(f) PROVE HolderAt(g)'
  <2>1. CASE g = f
    BY <1>4, <2>1
       DEF SleepForBuffer, Goto, headVars, dataVars, callVars, syncVars
  <2>2. CASE g # f
    BY <1>4, <2>2
       DEF SleepForBuffer, Goto, headVars, dataVars, callVars, syncVars
  <2>. QED
    BY <2>1, <2>2
<1>5. ASSUME NEW f \in Frames, PickVictim(f) PROVE HolderAt(g)'
  <2>1. CASE g = f
    BY <1>5, <2>1 DEF PickVictim, Goto, headVars, dataVars, callVars, syncVars
  <2>2. CASE g # f
    BY <1>5, <2>2 DEF PickVictim, Goto, headVars, dataVars, callVars, syncVars
  <2>. QED
    BY <2>1, <2>2
<1>6. ASSUME NEW f \in Frames, VictimReady(f) PROVE HolderAt(g)'
  <2>2. CASE Retry(f)
    <3>1. CASE g = f
      BY <1>6, <2>2, <3>1
         DEF VictimReady, Retry, Goto, headVars, dataVars, callVars, syncVars
    <3>2. CASE g # f
      BY <1>6, <2>2, <3>2 DEF Retry, Goto, headVars, dataVars, callVars, syncVars
    <3>. QED
      BY <3>1, <3>2
  <2>3. CASE CleanVictim(f)
    <3>1. CASE g = f
      BY <1>6, <2>3, <3>1
         DEF VictimReady, CleanVictim, Goto, headVars, dataVars, callVars
    <3>2. CASE g # f
      BY <1>6, <2>3, <3>2 DEF CleanVictim, Goto, headVars, dataVars, callVars
    <3>. QED
      BY <3>1, <3>2
  <2>4. CASE TakeVictim(f)
    <3>1. /\ pc[f] = "victim_wait" /\ pc' = [pc EXCEPT ![f] = "got"]
          /\ UNCHANGED <<bh, first, want, asked>>
          /\ b_ident' = [b_ident EXCEPT ![bh[f]] = want[f]]
      BY <1>6, <2>4 DEF VictimReady, TakeVictim, Goto, callVars
    <3>2. bh[f] \in Buffers /\ ~(b_count[bh[f]] > 0)
      BY <1>6, <2>4, <3>1 DEF VictimReady, Retry, TakeVictim, Goto
    <3>3. Holders(bh[f]) = {} /\ Readers(bh[f]) = {}
      BY <3>2, HeldIsCounted
    <3>4. first[g] # bh[f]
      BY <3>3 DEF Readers
    <3>5. first[g] # NULL => b_ident'[first'[g]] = asked'[g]
      <4>1. first[g] # NULL => b_ident'[first[g]] = b_ident[first[g]]
        BY <3>1, <3>4
      <4>. QED
        BY <3>1, <4>1
    <3>6. CASE g = f
      <4>1. /\ pc'[g] = "got" /\ b_ident'[bh'[g]] = want'[g]
            /\ first'[g] = first[g] /\ asked'[g] = asked[g]
        BY <3>1, <3>2, <3>6
      <4>. QED
        BY <3>5, <4>1
    <3>7. CASE g # f
      <4>1. pc[g] \in Holding => bh[g] # bh[f]
        BY <3>3 DEF Holders
      <4>2. pc[g] \in Holding => b_ident'[bh[g]] = b_ident[bh[g]]
        BY <3>1, <4>1
      <4>3. pc'[g] = pc[g] /\ bh'[g] = bh[g] /\ first'[g] = first[g]
            /\ want'[g] = want[g] /\ asked'[g] = asked[g]
        BY <3>1, <3>7
      <4>. QED
        BY <3>5, <4>2, <4>3
    <3>. QED
      BY <3>6, <3>7
  <2>. QED
    BY <1>6, <2>2, <2>3, <2>4 DEF VictimReady
<1>7. ASSUME NEW f \in Frames, SyncRun(f) PROVE HolderAt(g)'
  <2>1. /\ UNCHANGED <<b_ident, bh, asked, want, first>>
        /\ pc' = pc \/ \E l \in {"idle", "inodes", "victim_wait"} : pc' = [pc EXCEPT ![f] = l]
    BY <1>7 DEF SyncRun, Goto
  <2>2. CASE g = f
    <3>1. pc'[g] \in {"sync", "idle", "inodes", "victim_wait"}
      BY <1>7, <2>2 DEF SyncRun, Goto
    <3>. QED
      BY <2>1, <3>1
  <2>3. CASE g # f
    BY <2>1, <2>3
  <2>. QED
    BY <2>2, <2>3
<1>8. ASSUME NEW f \in Frames, Bread(f) PROVE HolderAt(g)'
  <2>1. CASE g = f
    BY <1>8, <2>1 DEF Bread, ReadBlock, Goto, callVars, syncVars
  <2>2. CASE g # f
    BY <1>8, <2>2 DEF Bread, ReadBlock, Goto, callVars, syncVars
  <2>. QED
    BY <2>1, <2>2
<1>9. ASSUME NEW f \in Frames, Breada(f) PROVE HolderAt(g)'
  <2>1. CASE g = f
    BY <1>9, <2>1 DEF Breada, ReadBlock, Goto, syncVars
  <2>2. CASE g # f
    BY <1>9, <2>2 DEF Breada, ReadBlock, Goto, syncVars
  <2>. QED
    BY <2>1, <2>2
<1>10. ASSUME NEW f \in Frames, AheadNext(f) PROVE HolderAt(g)'
  <2>1. CASE g = f
    BY <1>10, <2>1 DEF AheadNext, Goto, headVars, dataVars, syncVars
  <2>2. CASE g # f
    BY <1>10, <2>2 DEF AheadNext, Goto, headVars, dataVars, syncVars
  <2>. QED
    BY <2>1, <2>2
<1>11. ASSUME NEW f \in Frames, AheadGot(f) PROVE HolderAt(g)'
  <2>1. CASE g = f
    BY <1>11, <2>1 DEF AheadGot, ReadBlock, Goto, callVars, syncVars
  <2>2. CASE g # f
    BY <1>11, <2>2 DEF AheadGot, ReadBlock, Goto, callVars, syncVars
  <2>. QED
    BY <2>1, <2>2
<1>12. ASSUME NEW f \in Frames, AheadDone(f) PROVE HolderAt(g)'
  <2>1. CASE g = f
    BY <1>12, <2>1 DEF AheadDone, Goto, headVars, dataVars, syncVars
  <2>2. CASE g # f
    BY <1>12, <2>2 DEF AheadDone, Goto, headVars, dataVars, syncVars
  <2>. QED
    BY <2>1, <2>2
<1>13. ASSUME NEW f \in Frames, ReadDone(f) PROVE HolderAt(g)'
  <2>1. CASE g = f
    BY <1>13, <2>1 DEF ReadDone, Goto, headVars, dataVars, callVars, syncVars
  <2>2. CASE g # f
    BY <1>13, <2>2 DEF ReadDone, Goto, headVars, dataVars, callVars, syncVars
  <2>. QED
    BY <2>1, <2>2
<1>14. ASSUME NEW f \in Frames, Overwrite(f) PROVE HolderAt(g)'
  <2>1. CASE g = f
    BY ZenonT(60), <1>14, <2>1 DEF Overwrite, WriteData, Goto, callVars, syncVars
  <2>2. CASE g # f
    BY <1>14, <2>2 DEF Overwrite, WriteData, Goto, callVars, syncVars
  <2>. QED
    BY <2>1, <2>2
<1>15. ASSUME NEW f \in Frames, Release(f) PROVE HolderAt(g)'
  <2>1. CASE g = f
    BY <1>15, <2>1 DEF Release, Goto, headVars, dataVars, callVars, syncVars
  <2>2. CASE g # f
    BY <1>15, <2>2 DEF Release, Goto, headVars, dataVars, callVars, syncVars
  <2>. QED
    BY <2>1, <2>2
<1>16. ASSUME NEW f \in Frames, Brelse(f) PROVE HolderAt(g)'
  <2>1. CASE g = f
    BY <1>16, <2>1 DEF Brelse, dataVars, syncVars
  <2>2. CASE g # f
    BY <1>16, <2>2 DEF Brelse, dataVars, syncVars
  <2>. QED
    BY <2>1, <2>2
<1>17. ASSUME NEW f \in Frames, Modify(f) PROVE HolderAt(g)'
  <2>1. CASE g = f
    BY <1>17, <2>1 DEF Modify, WriteData, procVars
  <2>2. CASE g # f
    BY <1>17, <2>2 DEF Modify, WriteData, procVars
  <2>. QED
    BY <2>1, <2>2
<1>18. ASSUME NEW b \in Buffers, ReadEnds(b) PROVE HolderAt(g)'
  BY <1>18 DEF ReadEnds, Unlock, procVars
<1>19. ASSUME NEW b \in Buffers, ReadFails(b) PROVE HolderAt(g)'
  BY <1>19 DEF ReadFails, Unlock, procVars
<1>20. ASSUME NEW b \in Buffers, WriteEnds(b) PROVE HolderAt(g)'
  BY <1>20 DEF WriteEnds, Unlock, procVars
<1>22. ASSUME NEW f \in Frames, SyncInodes(f) PROVE HolderAt(g)'
  <2>1. /\ UNCHANGED <<b_ident, bh, asked, want, first>>
        /\ pc'[g] = pc[g] \/ pc'[g] \in {"sync", "lock_inode"}
    BY SMTT(60), <1>22 DEF SyncInodes, Goto, headVars
  <2>. QED
    BY <2>1
<1>23. ASSUME NEW f \in Frames, LockInode(f) PROVE HolderAt(g)'
  <2>1. CASE g = f
    <3>1. pc[f] = "lock_inode" /\ first'[f] = first[f] /\ first[f] = NULL
      BY <1>23 DEF LockInode
    <3>2. pc'[f] \in {"repeat", "idle"}
      BY <1>23 DEF LockInode, Goto
    <3>. QED
      BY <2>1, <3>1, <3>2
  <2>2. CASE g # f
    <3>1. /\ UNCHANGED <<b_ident, bh, first>> /\ pc'[g] = pc[g]
          /\ asked'[g] = asked[g] /\ want'[g] = want[g]
      BY SMTT(60), <1>23, <2>2 DEF LockInode, Goto, headVars
    <3>. QED
      BY <3>1
  <2>. QED
    BY <2>1, <2>2
<1>24. ASSUME NEW f \in Frames, WriteInode(f) PROVE HolderAt(g)'
  BY <1>24 DEF WriteInode, WriteData, Goto, callVars
<1>25. ASSUME NEW f \in Frames, Chmod(f) PROVE HolderAt(g)'
  BY <1>25 DEF Chmod, headVars, dataVars, callVars
<1>21. CASE UNCHANGED vars
  BY <1>21 DEF vars, headVars, dataVars, procVars
<1>. QED
  BY <1>1, <1>2, <1>3, <1>4, <1>5, <1>6, <1>7, <1>8, <1>9, <1>10, <1>11,
     <1>12, <1>13, <1>14, <1>15, <1>16, <1>17, <1>18, <1>19, <1>20, <1>21,
     <1>22, <1>23, <1>24, <1>25 DEF Next, Continue, Disk

-----------------------------------------------------------------------------
(* Every step keeps what is known of each buffer's data.                   *)
LEMMA DataInductive ==
  ASSUME IInv, DataInv, Durable, [Next]_vars
  PROVE  \A c \in Buffers : DataAt(c)'
<1>. /\ TypeOK /\ HeadTypeOK /\ DataTypeOK /\ ProcTypeOK /\ ControlInv /\ HeadInv
     /\ Coherent /\ RefCount /\ HolderKeepsBlock
  BY DEF IInv, TypeOK, HolderInv
<1>. \A b \in Buffers : DataAt(b)
  BY DEF DataInv
<1>. SUFFICES ASSUME NEW c \in Buffers PROVE DataAt(c)'
  OBVIOUS
<1>. USE DEF DataAt, HeadTypeOK, DataTypeOK, ProcTypeOK
<1>1. ASSUME NEW f \in Frames, Call(f) PROVE DataAt(c)'
  BY <1>1 DEF Call, Goto, headVars, dataVars, syncVars
<1>2. ASSUME NEW f \in Frames, HashHit(f) PROVE DataAt(c)'
  BY <1>2 DEF HashHit, FindBuffer, Goto, dataVars, callVars, syncVars
<1>3. ASSUME NEW f \in Frames, HashReady(f) PROVE DataAt(c)'
  BY <1>3 DEF HashReady, Goto, dataVars, callVars, syncVars
<1>4. ASSUME NEW f \in Frames, SleepForBuffer(f) PROVE DataAt(c)'
  BY <1>4 DEF SleepForBuffer, Goto, headVars, dataVars, callVars, syncVars
<1>5. ASSUME NEW f \in Frames, PickVictim(f) PROVE DataAt(c)'
  BY <1>5 DEF PickVictim, Goto, headVars, dataVars, callVars, syncVars
<1>6. ASSUME NEW f \in Frames, VictimReady(f) PROVE DataAt(c)'
  <2>2. CASE Retry(f)
    BY <2>2 DEF Retry, Goto, headVars, dataVars, callVars, syncVars
  <2>3. CASE CleanVictim(f)
    BY <2>3 DEF CleanVictim, Goto, headVars, dataVars, callVars
  <2>4. CASE TakeVictim(f)
    <3>1. bh[f] \in Buffers /\ want[f] \in Blocks /\ b_lock[bh[f]] = "free"
      BY <1>6 DEF VictimReady, ControlInv, ControlAt, InGetblk, Holding
    <3>2. CASE c = bh[f]
      BY <2>4, <3>1, <3>2 DEF TakeVictim
    <3>3. CASE c # bh[f]
      BY <2>4, <3>3 DEF TakeVictim
    <3>. QED
      BY <3>2, <3>3
  <2>. QED
    BY <1>6, <2>2, <2>3, <2>4 DEF VictimReady
<1>7. ASSUME NEW f \in Frames, SyncRun(f) PROVE DataAt(c)'
  BY <1>7 DEF SyncRun, Goto
<1>8. ASSUME NEW f \in Frames, Bread(f) PROVE DataAt(c)'
  <2>1. bh[f] \in Buffers /\ b_ident[bh[f]] \in Blocks
    BY <1>8 DEF Bread, HolderKeepsBlock, ControlInv, ControlAt, InGetblk, Holding
  <2>. QED
    BY ZenonT(60), <1>8, <2>1 DEF Bread, ReadBlock, Goto, callVars, syncVars
<1>9. ASSUME NEW f \in Frames, Breada(f) PROVE DataAt(c)'
  <2>1. bh[f] \in Buffers /\ b_ident[bh[f]] \in Blocks
    BY <1>9
       DEF Breada, HolderKeepsBlock, ControlInv, ControlAt, InGetblk, Holding
  <2>2. CASE c = bh[f]
    BY ZenonT(60), <1>9, <2>1, <2>2 DEF Breada, ReadBlock
  <2>3. CASE c # bh[f]
    BY ZenonT(60), <1>9, <2>1, <2>3 DEF Breada, ReadBlock
  <2>. QED
    BY <2>2, <2>3
<1>10. ASSUME NEW f \in Frames, AheadNext(f) PROVE DataAt(c)'
  BY <1>10 DEF AheadNext, Goto, headVars, dataVars, syncVars
<1>11. ASSUME NEW f \in Frames, AheadGot(f) PROVE DataAt(c)'
  <2>1. first[f] \in Buffers /\ b_ident[first[f]] \in Blocks
    BY ZenonT(60), <1>11
       DEF AheadGot, HolderKeepsBlock, ControlInv, ControlAt, InGetblk,
           Holding
  <2>. QED
    BY ZenonT(60), <1>11, <2>1 DEF AheadGot, ReadBlock, Goto, callVars, syncVars
<1>12. ASSUME NEW f \in Frames, AheadDone(f) PROVE DataAt(c)'
  BY <1>12 DEF AheadDone, Goto, headVars, dataVars, syncVars
<1>13. ASSUME NEW f \in Frames, ReadDone(f) PROVE DataAt(c)'
  BY <1>13 DEF ReadDone, Goto, headVars, dataVars, callVars, syncVars
<1>14. ASSUME NEW f \in Frames, Overwrite(f) PROVE DataAt(c)'
  <2>1. bh[f] \in Buffers /\ b_ident[bh[f]] \in Blocks
    BY <1>14
       DEF Overwrite, HolderKeepsBlock, ControlInv, ControlAt, InGetblk,
           Holding
  <2>2. CASE c = bh[f]
    BY <1>14, <2>1, <2>2 DEF Overwrite, WriteData
  <2>3. CASE c # bh[f]
    <3>1. b_ident[c] # b_ident[bh[f]]
      BY <2>1, <2>3 DEF Coherent
    <3>. QED
      BY <1>14, <2>1, <2>3, <3>1 DEF Overwrite, WriteData, HeadInv
  <2>. QED
    BY <2>2, <2>3
<1>15. ASSUME NEW f \in Frames, Release(f) PROVE DataAt(c)'
  BY <1>15 DEF Release, Goto, headVars, dataVars, callVars, syncVars
<1>16. ASSUME NEW f \in Frames, Brelse(f) PROVE DataAt(c)'
  BY <1>16 DEF Brelse, dataVars, syncVars
<1>17. ASSUME NEW f \in Frames, Modify(f) \/ WriteInode(f) PROVE DataAt(c)'
  <2>1. bh[f] \in Buffers /\ b_ident[bh[f]] \in Blocks
    BY <1>17
       DEF Modify, WriteInode, HolderKeepsBlock, ControlInv, ControlAt, InGetblk,
           Holding
  <2>2. b_uptodate[bh[f]]
    BY <1>17 DEF Modify, WriteInode, DataInv
  <2>3. CASE c = bh[f]
    BY <1>17, <2>1, <2>2, <2>3 DEF Modify, WriteInode, WriteData
  <2>4. CASE c # bh[f]
    <3>1. b_ident[c] # b_ident[bh[f]]
      BY <2>1, <2>4 DEF Coherent
    <3>2. WriteData(bh[f], fresh[bh[f]]) /\ UNCHANGED <<b_ident, b_uptodate, b_lock, lost>>
      BY <1>17 DEF Modify, WriteInode
    <3>. QED
      BY <2>1, <2>4, <3>1, <3>2 DEF WriteData, HeadInv
  <2>. QED
    BY <2>3, <2>4
<1>18. ASSUME NEW b \in Buffers, ReadEnds(b) PROVE DataAt(c)'
  <2>1. b_ident[b] \in Blocks /\ b_lock[b] = "READ"
    BY <1>18 DEF ReadEnds, HeadInv
  <2>2. disk[b_ident[b]] \/ b_ident[b] \in lost
    <3>1. ~(b_dirt[b] \/ (b_lock[b] = "WRITE" /\ xfer[b])) \/ b_ident[b] \in lost
      BY <2>1
    <3>2. ASSUME NEW d \in Buffers, b_ident[d] = b_ident[b] PROVE d = b
      BY <2>1, <3>2 DEF Coherent
    <3>. QED
      BY <2>1, <3>1, <3>2 DEF Durable
  <2>3. CASE c = b
    BY <1>18, <2>1, <2>2, <2>3 DEF ReadEnds, Unlock
  <2>4. CASE c # b
    BY ZenonT(60), <1>18, <2>4 DEF ReadEnds, Unlock
  <2>. QED
    BY <2>3, <2>4
<1>19. ASSUME NEW b \in Buffers, ReadFails(b) PROVE DataAt(c)'
  BY ZenonT(60), <1>19 DEF ReadFails, Unlock, procVars
<1>20. ASSUME NEW b \in Buffers, WriteEnds(b) PROVE DataAt(c)'
  <2>1. b_ident[b] \in Blocks /\ b_lock[b] = "WRITE"
    BY <1>20 DEF WriteEnds, HeadInv
  <2>2. CASE c = b
    BY <1>20, <2>1, <2>2 DEF WriteEnds, Unlock
  <2>3. CASE c # b
    <3>1. b_ident[c] # b_ident[b]
      BY <2>1, <2>3 DEF Coherent
    <3>. QED
      BY <1>20, <2>1, <2>3, <3>1 DEF WriteEnds, Unlock, HeadInv
  <2>. QED
    BY <2>2, <2>3
<1>22. ASSUME NEW f \in Frames, SyncInodes(f) PROVE DataAt(c)'
  BY <1>22 DEF SyncInodes, Goto, headVars, dataVars
<1>23. ASSUME NEW f \in Frames, LockInode(f) PROVE DataAt(c)'
  BY <1>23 DEF LockInode, Goto, headVars, dataVars
<1>25. ASSUME NEW f \in Frames, Chmod(f) PROVE DataAt(c)'
  BY <1>25 DEF Chmod, headVars, dataVars, callVars
<1>21. CASE UNCHANGED vars
  BY <1>21 DEF vars, headVars, dataVars, procVars
<1>. QED
  BY <1>1, <1>2, <1>3, <1>4, <1>5, <1>6, <1>7, <1>8, <1>9, <1>10, <1>11,
     <1>12, <1>13, <1>14, <1>15, <1>16, <1>17, <1>18, <1>19, <1>20, <1>21,
     <1>22, <1>23, <1>25 DEF Next, Continue, Disk

(* Every step leaves up to date the buffers processes work on.             *)
LEMMA UseInductive ==
  ASSUME IInv, DataInv, Durable, [Next]_vars
  PROVE  \A g \in Frames : (pc[g] = "use" => b_uptodate[bh[g]])'
<1>. /\ TypeOK /\ HeadTypeOK /\ DataTypeOK /\ ProcTypeOK /\ ControlInv /\ HeadInv
     /\ Coherent /\ RefCount
  BY DEF IInv, TypeOK, HolderInv
<1>. \A r \in Frames : pc[r] = "use" => b_uptodate[bh[r]]
  BY DEF DataInv
<1>. SUFFICES ASSUME NEW g \in Frames PROVE (pc[g] = "use" => b_uptodate[bh[g]])'
  OBVIOUS
<1>. USE DEF HeadTypeOK, ProcTypeOK
<1>1. ASSUME NEW f \in Frames, Call(f) PROVE (pc[g] = "use" => b_uptodate[bh[g]])'
  BY ZenonT(60), <1>1 DEF Call, Goto, headVars, dataVars, syncVars
<1>2. ASSUME NEW f \in Frames, HashHit(f) PROVE (pc[g] = "use" => b_uptodate[bh[g]])'
  BY <1>2 DEF HashHit, FindBuffer, Goto, dataVars, callVars, syncVars
<1>3. ASSUME NEW f \in Frames, HashReady(f) PROVE (pc[g] = "use" => b_uptodate[bh[g]])'
  <2>1. pc' = [pc EXCEPT ![f] = "got"] /\ UNCHANGED <<b_uptodate, bh>>
    BY <1>3, HashReadyGets DEF headVars
  <2>. QED
    BY <2>1
<1>4. ASSUME NEW f \in Frames, SleepForBuffer(f) PROVE (pc[g] = "use" => b_uptodate[bh[g]])'
  BY <1>4 DEF SleepForBuffer, Goto, headVars, dataVars, callVars, syncVars
<1>5. ASSUME NEW f \in Frames, PickVictim(f) PROVE (pc[g] = "use" => b_uptodate[bh[g]])'
  BY <1>5 DEF PickVictim, Goto, headVars, dataVars, callVars, syncVars
<1>6. ASSUME NEW f \in Frames, VictimReady(f) PROVE (pc[g] = "use" => b_uptodate[bh[g]])'
  <2>2. CASE Retry(f)
    BY <2>2 DEF Retry, Goto, headVars, dataVars, callVars, syncVars
  <2>3. CASE CleanVictim(f)
    BY <2>3 DEF CleanVictim, Goto, headVars, dataVars, callVars
  <2>4. CASE TakeVictim(f)
    <3>1. /\ pc[f] = "victim_wait" /\ pc' = [pc EXCEPT ![f] = "got"] /\ bh' = bh
          /\ b_uptodate' = [b_uptodate EXCEPT ![bh[f]] = FALSE]
      BY <1>6, <2>4 DEF VictimReady, TakeVictim, Goto
    <3>2. bh[f] \in Buffers /\ ~(b_count[bh[f]] > 0)
      BY <1>6, <2>4, <3>1 DEF VictimReady, Retry, TakeVictim, Goto, ControlInv, ControlAt, Holding
    <3>3. Holders(bh[f]) = {}
      BY <3>2, HeldIsCounted
    <3>4. pc[g] = "use" => bh[g] # bh[f]
      BY <3>3 DEF Holders, Holding
    <3>5. CASE g = f
      BY <3>1, <3>5
    <3>6. CASE g # f
      <4>1. pc'[g] = pc[g] /\ bh'[g] = bh[g]
        BY <3>1, <3>6
      <4>2. pc[g] = "use" => b_uptodate'[bh[g]] = b_uptodate[bh[g]]
        BY <3>1, <3>4
      <4>. QED
        BY <4>1, <4>2
    <3>. QED
      BY <3>5, <3>6
  <2>. QED
    BY <1>6, <2>2, <2>3, <2>4 DEF VictimReady
<1>7. ASSUME NEW f \in Frames, SyncRun(f) PROVE (pc[g] = "use" => b_uptodate[bh[g]])'
  <2>1. /\ UNCHANGED <<b_uptodate, bh>>
        /\ \A r \in Frames \ {f} : pc'[r] = pc[r]
        /\ pc'[f] \in {"sync", "idle", "inodes", "victim_wait"}
    BY <1>7 DEF SyncRun, Goto
  <2>. QED
    BY <2>1
<1>8. ASSUME NEW f \in Frames, Bread(f) PROVE (pc[g] = "use" => b_uptodate[bh[g]])'
  <2>1. CASE g = f
    BY <1>8, <2>1 DEF Bread, ReadBlock, Goto, callVars, syncVars
  <2>2. CASE g # f
    BY <1>8, <2>2 DEF Bread, ReadBlock, Goto, callVars, syncVars
  <2>. QED
    BY <2>1, <2>2
<1>9. ASSUME NEW f \in Frames, Breada(f) PROVE (pc[g] = "use" => b_uptodate[bh[g]])'
  BY <1>9 DEF Breada, ReadBlock, Goto, syncVars
<1>10. ASSUME NEW f \in Frames, AheadNext(f) PROVE (pc[g] = "use" => b_uptodate[bh[g]])'
  BY <1>10 DEF AheadNext, Goto, headVars, dataVars, syncVars
<1>11. ASSUME NEW f \in Frames, AheadGot(f) PROVE (pc[g] = "use" => b_uptodate[bh[g]])'
  BY <1>11 DEF AheadGot, ReadBlock, Goto, callVars, syncVars
<1>12. ASSUME NEW f \in Frames, AheadDone(f) PROVE (pc[g] = "use" => b_uptodate[bh[g]])'
  BY <1>12 DEF AheadDone, Goto, headVars, dataVars, syncVars
<1>13. ASSUME NEW f \in Frames, ReadDone(f) PROVE (pc[g] = "use" => b_uptodate[bh[g]])'
  <2>1. CASE g = f
    BY <1>13, <2>1 DEF ReadDone, Goto, headVars, dataVars, callVars, syncVars
  <2>2. CASE g # f
    BY <1>13, <2>2 DEF ReadDone, Goto, headVars, dataVars, callVars, syncVars
  <2>. QED
    BY <2>1, <2>2
<1>14. ASSUME NEW f \in Frames, Overwrite(f) PROVE (pc[g] = "use" => b_uptodate[bh[g]])'
  BY <1>14 DEF Overwrite, WriteData, Goto, callVars, syncVars
<1>15. ASSUME NEW f \in Frames, Release(f) PROVE (pc[g] = "use" => b_uptodate[bh[g]])'
  BY <1>15 DEF Release, Goto, headVars, dataVars, callVars, syncVars
<1>16. ASSUME NEW f \in Frames, Brelse(f) PROVE (pc[g] = "use" => b_uptodate[bh[g]])'
  BY <1>16 DEF Brelse, dataVars, syncVars
<1>17. ASSUME NEW f \in Frames, Modify(f) PROVE (pc[g] = "use" => b_uptodate[bh[g]])'
  BY <1>17 DEF Modify, WriteData, procVars
<1>18. ASSUME NEW b \in Buffers, ReadEnds(b) PROVE (pc[g] = "use" => b_uptodate[bh[g]])'
  <2>1. pc[g] = "use" => bh[g] \in Buffers
    BY DEF ControlInv, ControlAt, Holding
  <2>. QED
    BY <1>18, <2>1 DEF ReadEnds, Unlock, procVars
<1>19. ASSUME NEW b \in Buffers, ReadFails(b) PROVE (pc[g] = "use" => b_uptodate[bh[g]])'
  BY <1>19 DEF ReadFails, Unlock, procVars
<1>20. ASSUME NEW b \in Buffers, WriteEnds(b) PROVE (pc[g] = "use" => b_uptodate[bh[g]])'
  <2>1. pc[g] = "use" => bh[g] \in Buffers
    BY DEF ControlInv, ControlAt, Holding
  <2>. QED
    BY <1>20, <2>1 DEF WriteEnds, Unlock, procVars
<1>22. ASSUME NEW f \in Frames, SyncInodes(f) PROVE (pc[g] = "use" => b_uptodate[bh[g]])'
  BY <1>22 DEF SyncInodes, Goto, headVars, dataVars
<1>23. ASSUME NEW f \in Frames, LockInode(f) PROVE (pc[g] = "use" => b_uptodate[bh[g]])'
  BY <1>23 DEF LockInode, Goto, headVars, dataVars
<1>24. ASSUME NEW f \in Frames, WriteInode(f) PROVE (pc[g] = "use" => b_uptodate[bh[g]])'
  BY <1>24 DEF WriteInode, WriteData, Goto, callVars
<1>25. ASSUME NEW f \in Frames, Chmod(f) PROVE (pc[g] = "use" => b_uptodate[bh[g]])'
  BY <1>25 DEF Chmod, headVars, dataVars, callVars
<1>21. CASE UNCHANGED vars
  BY <1>21 DEF vars, headVars, dataVars, procVars
<1>. QED
  BY <1>1, <1>2, <1>3, <1>4, <1>5, <1>6, <1>7, <1>8, <1>9, <1>10, <1>11,
     <1>12, <1>13, <1>14, <1>15, <1>16, <1>17, <1>18, <1>19, <1>20, <1>21,
     <1>22, <1>23, <1>24, <1>25 DEF Next, Continue, Disk

-----------------------------------------------------------------------------
(* What was last written to block k is on the disk or will get there. *)
Carries(b, k) == /\ b_ident[b] = k /\ fresh[b]
                 /\ b_dirt[b] \/ (b_lock[b] = "WRITE" /\ xfer[b])

Saved(k) == disk[k] \/ \E b \in Buffers : Carries(b, k)

LEMMA DurableParts == Durable <=> \A k \in Blocks \ lost : Saved(k)
  BY DEF Durable, Saved, Carries

(* Every step keeps what was written: only clean, unlocked buffers lose    *)
(* their block, and a transfer ends with the data on the disk.             *)
LEMMA DurableInductive ==
  ASSUME IInv, DataInv, Durable, [Next]_vars
  PROVE  Durable'
<1>. /\ TypeOK /\ HeadTypeOK /\ DataTypeOK /\ ProcTypeOK /\ ControlInv /\ HeadInv
     /\ Coherent /\ RefCount /\ HolderKeepsBlock
  BY DEF IInv, TypeOK, HolderInv
<1>. \A k \in Blocks \ lost : Saved(k)
  BY DurableParts
<1>. SUFFICES ASSUME NEW k \in Blocks, k \notin lost' PROVE Saved(k)'
  BY DEF Durable, Saved, Carries
<1>. USE DEF Saved, HeadTypeOK, DataTypeOK
<1>1. ASSUME NEW f \in Frames, Call(f) PROVE Saved(k)'
  <2>1. k \notin lost
    BY <1>1 DEF Call, Goto, headVars, dataVars, syncVars
  <2>. QED
    BY <1>1, <2>1 DEF Carries, Call, Goto, headVars, dataVars, syncVars
<1>2. ASSUME NEW f \in Frames, HashHit(f) PROVE Saved(k)'
  <2>1. k \notin lost
    BY <1>2 DEF HashHit, FindBuffer, Goto, dataVars, callVars, syncVars
  <2>. QED
    BY <1>2, <2>1
       DEF Carries, HashHit, FindBuffer, Goto, dataVars, callVars, syncVars
<1>3. ASSUME NEW f \in Frames, HashReady(f) PROVE Saved(k)'
  <2>1. k \notin lost
    BY <1>3 DEF HashReady, Goto, dataVars, callVars, syncVars
  <2>. QED
    BY <1>3, <2>1 DEF Carries, HashReady, Goto, dataVars, callVars, syncVars
<1>4. ASSUME NEW f \in Frames, SleepForBuffer(f) PROVE Saved(k)'
  <2>1. k \notin lost
    BY <1>4 DEF SleepForBuffer, Goto, headVars, dataVars, callVars, syncVars
  <2>. QED
    BY <1>4, <2>1
       DEF Carries, SleepForBuffer, Goto, headVars, dataVars, callVars,
           syncVars
<1>5. ASSUME NEW f \in Frames, PickVictim(f) PROVE Saved(k)'
  <2>1. k \notin lost
    BY <1>5 DEF PickVictim, Goto, headVars, dataVars, callVars, syncVars
  <2>. QED
    BY <1>5, <2>1
       DEF Carries, PickVictim, Goto, headVars, dataVars, callVars, syncVars
<1>6. ASSUME NEW f \in Frames, VictimReady(f) PROVE Saved(k)'
  <2>2. CASE Retry(f)
    <3>1. k \notin lost
      BY <2>2 DEF Retry, Goto, headVars, dataVars, callVars, syncVars
    <3>. QED
      BY <2>2, <3>1
         DEF Carries, Retry, Goto, headVars, dataVars, callVars, syncVars
  <2>3. CASE CleanVictim(f)
    <3>1. k \notin lost
      BY <2>3 DEF CleanVictim, Goto, headVars, dataVars, callVars
    <3>. QED
      BY <2>3, <3>1
         DEF Carries, CleanVictim, Goto, headVars, dataVars, callVars
  <2>4. CASE TakeVictim(f)
    <3>1. /\ b_lock[bh[f]] = "free" /\ ~b_dirt[bh[f]]
      BY <1>6, <2>4 DEF VictimReady, Retry, CleanVictim, TakeVictim, Goto, ProcTypeOK
    <3>2. k \notin lost
      BY <2>4 DEF TakeVictim
    <3>3. ASSUME NEW b \in Buffers, Carries(b, k) PROVE Carries(b, k)'
      BY ZenonT(60), <2>4, <3>1, <3>3 DEF TakeVictim, Carries
    <3>. QED
      BY <2>4, <3>2, <3>3 DEF TakeVictim, callVars
  <2>. QED
    BY <1>6, <2>2, <2>3, <2>4 DEF VictimReady
<1>7. ASSUME NEW f \in Frames, SyncRun(f) PROVE Saved(k)'
  <2>1. k \notin lost /\ disk' = disk
    BY <1>7 DEF SyncRun
  <2>2. ASSUME NEW b \in Buffers, Carries(b, k) PROVE Carries(b, k)'
    <3>1. b_ident' = b_ident /\ fresh' = fresh
      BY <1>7 DEF SyncRun
    <3>2. \/ b_dirt'[b] = b_dirt[b] /\ b_lock'[b] = b_lock[b] /\ xfer'[b] = xfer[b]
          \/ b_lock'[b] = "WRITE" /\ xfer'[b] = fresh[b]
      BY <1>7 DEF SyncRun
    <3>. QED
      BY <2>2, <3>1, <3>2 DEF Carries
  <2>. QED
    BY <2>1, <2>2
<1>8. ASSUME NEW f \in Frames, Bread(f) PROVE Saved(k)'
  <2>1. k \notin lost /\ disk' = disk
    BY <1>8 DEF Bread, ReadBlock
  <2>2. ASSUME NEW b \in Buffers, Carries(b, k) PROVE Carries(b, k)'
    <3>1. UNCHANGED <<b_ident, fresh, b_dirt, xfer>>
      BY <1>8 DEF Bread
    <3>2. b_lock[b] = "WRITE" => b_lock'[b] = "WRITE"
      BY <1>8 DEF Bread, ReadBlock
    <3>. QED
      BY <2>2, <3>1, <3>2 DEF Carries
  <2>. QED
    BY <2>1, <2>2
<1>9. ASSUME NEW f \in Frames, Breada(f) PROVE Saved(k)'
  <2>1. k \notin lost /\ disk' = disk
    BY <1>9 DEF Breada, ReadBlock
  <2>2. ASSUME NEW b \in Buffers, Carries(b, k) PROVE Carries(b, k)'
    <3>1. UNCHANGED <<b_ident, fresh, b_dirt, xfer>>
      BY <1>9 DEF Breada
    <3>2. b_lock[b] = "WRITE" => b_lock'[b] = "WRITE"
      BY <1>9 DEF Breada, ReadBlock
    <3>. QED
      BY <2>2, <3>1, <3>2 DEF Carries
  <2>. QED
    BY <2>1, <2>2
<1>10. ASSUME NEW f \in Frames, AheadNext(f) PROVE Saved(k)'
  <2>1. k \notin lost
    BY <1>10 DEF AheadNext, Goto, headVars, dataVars, syncVars
  <2>. QED
    BY <1>10, <2>1 DEF Carries, AheadNext, Goto, headVars, dataVars, syncVars
<1>11. ASSUME NEW f \in Frames, AheadGot(f) PROVE Saved(k)'
  <2>1. k \notin lost /\ disk' = disk
    BY <1>11 DEF AheadGot, ReadBlock
  <2>2. ASSUME NEW b \in Buffers, Carries(b, k) PROVE Carries(b, k)'
    <3>1. UNCHANGED <<b_ident, fresh, b_dirt, xfer>>
      BY <1>11 DEF AheadGot
    <3>2. b_lock[b] = "WRITE" => b_lock'[b] = "WRITE"
      BY <1>11 DEF AheadGot, ReadBlock
    <3>. QED
      BY <2>2, <3>1, <3>2 DEF Carries
  <2>. QED
    BY <2>1, <2>2
<1>12. ASSUME NEW f \in Frames, AheadDone(f) PROVE Saved(k)'
  <2>1. k \notin lost
    BY <1>12 DEF AheadDone, Goto, headVars, dataVars, syncVars
  <2>. QED
    BY <1>12, <2>1 DEF Carries, AheadDone, Goto, headVars, dataVars, syncVars
<1>13. ASSUME NEW f \in Frames, ReadDone(f) PROVE Saved(k)'
  <2>1. k \notin lost
    BY <1>13 DEF ReadDone, Goto, headVars, dataVars, callVars, syncVars
  <2>. QED
    BY <1>13, <2>1
       DEF Carries, ReadDone, Goto, headVars, dataVars, callVars, syncVars
<1>14. ASSUME NEW f \in Frames, Overwrite(f) PROVE Saved(k)'
  <2>1. bh[f] \in Buffers /\ b_ident[bh[f]] \in Blocks
    BY <1>14
       DEF Overwrite, HolderKeepsBlock, ControlInv, ControlAt, InGetblk,
           Holding
  <2>2. CASE k = b_ident[bh[f]]
    <3>1. fresh'[bh[f]] /\ b_dirt'[bh[f]] /\ UNCHANGED <<b_ident, bh>>
      BY <1>14, <2>1 DEF Overwrite, WriteData
    <3>. QED
      BY <2>1, <2>2, <3>1 DEF Carries
  <2>3. CASE k # b_ident[bh[f]]
    <3>1. k \notin lost /\ disk'[k] = disk[k]
      BY <1>14, <2>1, <2>3 DEF Overwrite, WriteData
    <3>2. ASSUME NEW b \in Buffers, Carries(b, k) PROVE Carries(b, k)'
      <4>1. b # bh[f]
        BY <2>3, <3>2 DEF Carries
      <4>2. /\ b_ident'[b] = b_ident[b] /\ b_lock'[b] = b_lock[b]
            /\ b_dirt'[b] = b_dirt[b] /\ xfer'[b] = xfer[b]
        BY <1>14, <2>1, <4>1 DEF Overwrite, WriteData
      <4>3. fresh'[b] = fresh[b]
        BY <1>14, <2>1, <2>3, <3>2, <4>1 DEF Overwrite, WriteData, Carries
      <4>. QED
        BY <3>2, <4>2, <4>3 DEF Carries
    <3>. QED
      BY <3>1, <3>2
  <2>. QED
    BY <2>2, <2>3
<1>15. ASSUME NEW f \in Frames, Release(f) PROVE Saved(k)'
  <2>1. k \notin lost
    BY <1>15 DEF Release, Goto, headVars, dataVars, callVars, syncVars
  <2>. QED
    BY <1>15, <2>1
       DEF Carries, Release, Goto, headVars, dataVars, callVars, syncVars
<1>16. ASSUME NEW f \in Frames, Brelse(f) PROVE Saved(k)'
  <2>1. k \notin lost
    BY <1>16 DEF Brelse, dataVars, syncVars
  <2>. QED
    BY <1>16, <2>1 DEF Carries, Brelse, dataVars, syncVars
<1>17. ASSUME NEW f \in Frames, Modify(f) \/ WriteInode(f) PROVE Saved(k)'
  <2>1. bh[f] \in Buffers /\ b_ident[bh[f]] \in Blocks
    BY <1>17
       DEF Modify, WriteInode, HolderKeepsBlock, ControlInv, ControlAt, InGetblk,
           Holding
  <2>2. CASE k = b_ident[bh[f]]
    <3>1. fresh[bh[f]] \/ k \in lost
      BY <1>17, <2>1, <2>2 DEF Modify, WriteInode, DataInv, DataAt
    <3>2. /\ fresh'[bh[f]] = fresh[bh[f]] /\ b_dirt'[bh[f]]
          /\ UNCHANGED <<b_ident, lost, bh>>
      BY <1>17, <2>1 DEF Modify, WriteInode, WriteData, procVars
    <3>. QED
      BY <2>1, <2>2, <3>1, <3>2 DEF Carries
  <2>3. CASE k # b_ident[bh[f]]
    <3>1. k \notin lost /\ disk'[k] = disk[k]
      BY <1>17, <2>1, <2>3 DEF Modify, WriteInode, WriteData
    <3>2. ASSUME NEW b \in Buffers, Carries(b, k) PROVE Carries(b, k)'
      <4>1. b # bh[f]
        BY <2>3, <3>2 DEF Carries
      <4>2. /\ b_ident'[b] = b_ident[b] /\ b_lock'[b] = b_lock[b]
            /\ b_dirt'[b] = b_dirt[b] /\ xfer'[b] = xfer[b]
        BY <1>17, <2>1, <4>1 DEF Modify, WriteInode, WriteData
      <4>3. fresh'[b] = fresh[b]
        <5>1. WriteData(bh[f], fresh[bh[f]]) /\ b_ident[b] # b_ident[bh[f]]
          BY <1>17, <2>3, <3>2 DEF Modify, WriteInode, Carries
        <5>. QED
          BY <4>1, <5>1 DEF WriteData
      <4>. QED
        BY <3>2, <4>2, <4>3 DEF Carries
    <3>. QED
      BY <3>1, <3>2
  <2>. QED
    BY <2>2, <2>3
<1>18. ASSUME NEW b \in Buffers, ReadEnds(b) PROVE Saved(k)'
  <2>1. k \notin lost /\ disk' = disk /\ b_lock[b] = "READ" /\ b_ident[b] \in Blocks
    BY <1>18 DEF ReadEnds, HeadInv
  <2>2. ASSUME NEW d \in Buffers, Carries(d, k) PROVE Carries(d, k)'
    <3>1. d # b
      BY <2>1, <2>2 DEF DataInv, DataAt, Carries
    <3>. QED
      BY <1>18, <2>2, <3>1 DEF ReadEnds, Unlock, Carries
  <2>. QED
    BY <2>1, <2>2
<1>19. ASSUME NEW b \in Buffers, ReadFails(b) PROVE Saved(k)'
  <2>1. k \notin lost /\ disk' = disk /\ b_lock[b] = "READ" /\ b_ident[b] \in Blocks
    BY <1>19 DEF ReadFails, HeadInv
  <2>2. ASSUME NEW d \in Buffers, Carries(d, k) PROVE Carries(d, k)'
    <3>1. d # b
      BY <2>1, <2>2 DEF DataInv, DataAt, Carries
    <3>. QED
      BY <1>19, <2>2, <3>1 DEF ReadFails, Unlock, Carries
  <2>. QED
    BY <2>1, <2>2
<1>20. ASSUME NEW b \in Buffers, WriteEnds(b) PROVE Saved(k)'
  <2>1. k \notin lost /\ b_lock[b] = "WRITE" /\ b_ident[b] \in Blocks
    BY <1>20 DEF WriteEnds, HeadInv
  <2>2. CASE k = b_ident[b] /\ xfer[b]
    BY <1>20, <2>1, <2>2 DEF WriteEnds
  <2>3. CASE k = b_ident[b] /\ ~xfer[b]
    <3>1. b_dirt[b] /\ fresh[b]
      BY <2>1, <2>3 DEF DataInv, DataAt
    <3>2. Carries(b, k)'
      BY <1>20, <2>3, <3>1 DEF WriteEnds, Carries
    <3>. QED
      BY <3>2
  <2>4. CASE k # b_ident[b]
    <3>1. disk'[k] = disk[k]
      BY <1>20, <2>1, <2>4 DEF WriteEnds
    <3>2. ASSUME NEW d \in Buffers, Carries(d, k) PROVE Carries(d, k)'
      <4>1. d # b
        BY <2>4, <3>2 DEF Carries
      <4>. QED
        BY <1>20, <3>2, <4>1 DEF WriteEnds, Unlock, Carries
    <3>. QED
      BY <2>1, <3>1, <3>2
  <2>. QED
    BY <2>2, <2>3, <2>4
<1>22. ASSUME NEW f \in Frames, SyncInodes(f) PROVE Saved(k)'
  BY <1>22 DEF SyncInodes, Goto, headVars, dataVars, Carries
<1>23. ASSUME NEW f \in Frames, LockInode(f) PROVE Saved(k)'
  BY <1>23 DEF LockInode, Goto, headVars, dataVars, Carries
<1>25. ASSUME NEW f \in Frames, Chmod(f) PROVE Saved(k)'
  BY <1>25 DEF Chmod, headVars, dataVars, callVars, Carries
<1>21. CASE UNCHANGED vars
  BY <1>21 DEF vars, headVars, dataVars, Carries
<1>. QED
  BY <1>1, <1>2, <1>3, <1>4, <1>5, <1>6, <1>7, <1>8, <1>9, <1>10, <1>11,
     <1>12, <1>13, <1>14, <1>15, <1>16, <1>17, <1>18, <1>19, <1>20, <1>21,
     <1>22, <1>23, <1>25 DEF Next, Continue, Disk

-----------------------------------------------------------------------------
(* The processes that read ahead keep one buffer while they ask for more.  *)
ReadingAhead == {p \in Procs : "breada" \in Ops[p]}

(* Only a process's own call reads ahead, not a write_inode above it.      *)
OpsInv == \A f \in Frames : op[f] = "breada" => Depth(f) = 0 /\ f[1] \in ReadingAhead

(* Below a frame that is in use, every frame of the process is in          *)
(* sync_inodes.  So a process runs, waits and sleeps in its topmost frame. *)
StackInv ==
  \A f, g \in Frames :
    f[1] = g[1] /\ f[2] < g[2] /\ pc[g] # "idle" => pc[f] = "inodes"

(* Frame f holds a buffer. *)
Holds(f) == pc[f] \in Holding \/ first[f] # NULL

(* Nobody falls asleep, and who holds a buffer goes on doing so. *)
Calm == \A g \in Frames : /\ pc'[g] = "sleep" => pc[g] = "sleep"
                          /\ Holds(g) => Holds(g)'

(* Every step leaves the reading ahead to the processes that do it. *)
LEMMA OpsStep ==
  ASSUME IInv, OpsInv, [Next]_vars
  PROVE  OpsInv'
<1>. TypeOK /\ ProcTypeOK
  BY DEF IInv, TypeOK
<1>. USE DEF OpsInv, ProcTypeOK
<1>1. ASSUME NEW f \in Frames, Call(f) PROVE OpsInv'
  <2>1. Depth(f) = 0
    BY <1>1 DEF Call
  <2>2. op'[f] = "breada" => f[1] \in ReadingAhead
    BY <1>1 DEF Call, ReadingAhead, Frames
  <2>3. \A g \in Frames \ {f} : op'[g] = op[g]
    BY <1>1 DEF Call
  <2>. QED
    BY <2>1, <2>2, <2>3
<1>2. ASSUME NEW f \in Frames, HashHit(f) PROVE OpsInv'
  BY <1>2 DEF HashHit, FindBuffer, Goto, dataVars, callVars, syncVars
<1>3. ASSUME NEW f \in Frames, HashReady(f) PROVE OpsInv'
  BY <1>3 DEF HashReady, Goto, dataVars, callVars, syncVars
<1>4. ASSUME NEW f \in Frames, SleepForBuffer(f) PROVE OpsInv'
  BY <1>4 DEF SleepForBuffer, Goto, headVars, dataVars, callVars, syncVars
<1>5. ASSUME NEW f \in Frames, PickVictim(f) PROVE OpsInv'
  BY <1>5 DEF PickVictim, Goto, headVars, dataVars, callVars, syncVars
<1>6. ASSUME NEW f \in Frames, VictimReady(f) PROVE OpsInv'
  BY <1>6 DEF VictimReady, Retry, CleanVictim, TakeVictim, Goto, callVars
<1>7. ASSUME NEW f \in Frames, SyncRun(f) PROVE OpsInv'
  BY <1>7 DEF SyncRun, Goto
<1>8. ASSUME NEW f \in Frames, Bread(f) PROVE OpsInv'
  BY <1>8 DEF Bread, ReadBlock, Goto, callVars, syncVars
<1>9. ASSUME NEW f \in Frames, Breada(f) PROVE OpsInv'
  BY <1>9 DEF Breada, ReadBlock, Goto, syncVars
<1>10. ASSUME NEW f \in Frames, AheadNext(f) PROVE OpsInv'
  BY <1>10 DEF AheadNext, Goto, headVars, dataVars, syncVars
<1>11. ASSUME NEW f \in Frames, AheadGot(f) PROVE OpsInv'
  BY <1>11 DEF AheadGot, ReadBlock, Goto, callVars, syncVars
<1>12. ASSUME NEW f \in Frames, AheadDone(f) PROVE OpsInv'
  BY <1>12 DEF AheadDone, Goto, headVars, dataVars, syncVars
<1>13. ASSUME NEW f \in Frames, ReadDone(f) PROVE OpsInv'
  BY <1>13 DEF ReadDone, Goto, headVars, dataVars, callVars, syncVars
<1>14. ASSUME NEW f \in Frames, Overwrite(f) PROVE OpsInv'
  BY <1>14 DEF Overwrite, WriteData, Goto, callVars, syncVars
<1>15. ASSUME NEW f \in Frames, Release(f) PROVE OpsInv'
  BY <1>15 DEF Release, Goto, headVars, dataVars, callVars, syncVars
<1>16. ASSUME NEW f \in Frames, Brelse(f) PROVE OpsInv'
  BY <1>16 DEF Brelse, dataVars, syncVars
<1>17. ASSUME NEW f \in Frames, Modify(f) PROVE OpsInv'
  BY <1>17 DEF Modify, WriteData, procVars
<1>18. ASSUME NEW b \in Buffers, ReadEnds(b) PROVE OpsInv'
  BY <1>18 DEF ReadEnds, Unlock, procVars
<1>19. ASSUME NEW b \in Buffers, ReadFails(b) PROVE OpsInv'
  BY <1>19 DEF ReadFails, Unlock, procVars
<1>20. ASSUME NEW b \in Buffers, WriteEnds(b) PROVE OpsInv'
  BY <1>20 DEF WriteEnds, Unlock, procVars
<1>22. ASSUME NEW f \in Frames, SyncInodes(f) PROVE OpsInv'
  BY <1>22 DEF SyncInodes, Goto, headVars, dataVars
<1>23. ASSUME NEW f \in Frames, LockInode(f) PROVE OpsInv'
  BY <1>23 DEF LockInode, Goto, headVars, dataVars
<1>24. ASSUME NEW f \in Frames, WriteInode(f) PROVE OpsInv'
  BY <1>24 DEF WriteInode, WriteData, Goto, callVars
<1>25. ASSUME NEW f \in Frames, Chmod(f) PROVE OpsInv'
  BY <1>25 DEF Chmod, headVars, dataVars, callVars
<1>21. CASE UNCHANGED vars
  BY <1>21 DEF vars, procVars
<1>. QED
  BY <1>1, <1>2, <1>3, <1>4, <1>5, <1>6, <1>7, <1>8, <1>9, <1>10, <1>11,
     <1>12, <1>13, <1>14, <1>15, <1>16, <1>17, <1>18, <1>19, <1>20, <1>21,
     <1>22, <1>23, <1>24, <1>25 DEF Next, Continue, Disk

(* When every buffer is held, some process holds one by other means than   *)
(* reading ahead: those that read ahead keep one each, and are fewer.      *)
LEMMA SomeoneHolds ==
  ASSUME Cardinality(ReadingAhead) < NR_BUFFERS, IInv, OpsInv, FreeBuffers = {}
  PROVE  \E g \in Frames : pc[g] \in Holding
<1>. SUFFICES ASSUME \A g \in Frames : pc[g] \notin Holding  PROVE FALSE
  OBVIOUS
<1>1. TypeOK /\ ProcTypeOK /\ ControlInv /\ RefCount
  BY DEF IInv, TypeOK
<1>2. ASSUME NEW b \in Buffers
      PROVE  \E p \in ReadingAhead : first[<<p, 0>>] = b
  <2>1. b_count[b] # 0
    BY DEF FreeBuffers
  <2>2. Holders(b) = {}
    BY DEF Holders
  <2>3. Cardinality(Holders(b)) = 0
    BY <2>2, FS_EmptySet, Zenon
  <2>4. Cardinality(Readers(b)) # 0
    <3>1. b_count[b] = Cardinality(Holders(b)) + Cardinality(Readers(b))
      BY <1>1 DEF RefCount
    <3>. QED
      BY <2>1, <2>3, <3>1
  <2>5. Readers(b) # {}
    BY <2>4, FS_EmptySet
  <2>6. PICK f \in Frames : first[f] = b
    BY <2>5 DEF Readers
  <2>7. op[f] = "breada"
    BY <1>1, <2>6 DEF ControlInv, ControlAt
  <2>8. f[1] \in ReadingAhead /\ f[2] = 0
    BY <2>7 DEF OpsInv, Depth
  <2>9. f = <<f[1], 0>>
    BY <2>8 DEF Frames
  <2>. QED
    BY <2>6, <2>8, <2>9
<1>. DEFINE reader == [b \in Buffers |-> CHOOSE p \in ReadingAhead : first[<<p, 0>>] = b]
<1>3. reader \in [Buffers -> ReadingAhead] /\ \A b \in Buffers : first[<<reader[b], 0>>] = b
  BY <1>2
<1>. HIDE DEF reader
<1>4. IsFiniteSet(ReadingAhead)
  BY FS_Subset DEF ReadingAhead
<1>5. IsFiniteSet(Buffers) /\ Cardinality(Buffers) = NR_BUFFERS
  BY FS_Interval
<1>6. \E b, c \in Buffers : b # c /\ reader[b] = reader[c]
  BY <1>3, <1>4, <1>5, FS_PigeonHole
<1>. QED
  BY <1>3, <1>6

(* A frame is a process and a depth. *)
LEMMA FrameParts ==
  /\ \A f \in Frames : f[1] \in Procs /\ f[2] \in Nat
  /\ \A f, g \in Frames : f[1] = g[1] /\ f[2] = g[2] => f = g
  BY DEF Frames

(* A step in which frame f goes elsewhere, from a place of its own, keeps  *)
(* the stacks.                                                             *)
LEMMA StackGoto ==
  ASSUME TypeOK, StackInv, NEW f \in Frames, pc[f] # "inodes",
         pc[f] # "idle" \/ Depth(f) = 0, NEW l, pc' = [pc EXCEPT ![f] = l]
  PROVE  StackInv'
<1>. USE DEF StackInv, TypeOK, ProcTypeOK, Frames, Depth
<1>. SUFFICES ASSUME NEW d \in Frames, NEW e \in Frames,
                     d[1] = e[1], d[2] < e[2], pc'[e] # "idle"
              PROVE  pc'[d] = "inodes"
  OBVIOUS
<1>1. CASE d = f
  <2>1. pc'[e] = pc[e]
    BY <1>1
  <2>. QED
    BY <1>1, <2>1
<1>2. CASE d # f /\ e = f
  BY <1>2
<1>3. CASE d # f /\ e # f
  BY <1>3
<1>. QED
  BY <1>1, <1>2, <1>3

(* Every step keeps the stacks. *)
LEMMA StackStep ==
  ASSUME IInv, StackInv, [Next]_vars
  PROVE  StackInv'
<1>. TypeOK /\ ProcTypeOK
  BY DEF IInv, TypeOK
<1>. USE DEF ProcTypeOK
<1>1. ASSUME NEW f \in Frames, Call(f) PROVE StackInv'
  <2>1. pc[f] = "idle" /\ Depth(f) = 0
    BY <1>1 DEF Call
  <2>2. \E l : pc' = [pc EXCEPT ![f] = l]
    BY <1>1 DEF Call, Goto
  <2>. QED
    BY <2>1, <2>2, StackGoto
<1>2. ASSUME NEW f \in Frames, HashHit(f) PROVE StackInv'
  BY <1>2, StackGoto DEF HashHit, Goto
<1>3. ASSUME NEW f \in Frames, HashReady(f) PROVE StackInv'
  <2>1. pc[f] \notin {"inodes", "idle"}
    BY <1>3 DEF HashReady
  <2>2. \E l : pc' = [pc EXCEPT ![f] = l]
    BY <1>3 DEF HashReady, Goto
  <2>. QED
    BY <2>1, <2>2, StackGoto
<1>4. ASSUME NEW f \in Frames, SleepForBuffer(f) PROVE StackInv'
  BY <1>4, StackGoto DEF SleepForBuffer, Goto
<1>5. ASSUME NEW f \in Frames, PickVictim(f) PROVE StackInv'
  BY <1>5, StackGoto DEF PickVictim, Goto
<1>6. ASSUME NEW f \in Frames, VictimReady(f) PROVE StackInv'
  <2>1. pc[f] \notin {"inodes", "idle"}
    BY <1>6 DEF VictimReady
  <2>2. \E l : pc' = [pc EXCEPT ![f] = l]
    BY <1>6 DEF VictimReady, Retry, CleanVictim, TakeVictim, Goto
  <2>. QED
    BY <2>1, <2>2, StackGoto
<1>7. ASSUME NEW f \in Frames, SyncRun(f) PROVE StackInv'
  <2>1. pc[f] = "sync"
    BY <1>7 DEF SyncRun
  <2>2. \E l : pc' = [pc EXCEPT ![f] = l]
    <3>1. pc = [pc EXCEPT ![f] = "sync"]
      BY <2>1
    <3>. QED
      BY <1>7, <3>1 DEF SyncRun, Goto
  <2>. QED
    BY <2>1, <2>2, StackGoto
<1>8. ASSUME NEW f \in Frames, Bread(f) PROVE StackInv'
  <2>1. pc[f] \notin {"inodes", "idle"}
    BY <1>8 DEF Bread
  <2>2. \E l : pc' = [pc EXCEPT ![f] = l]
    BY <1>8 DEF Bread, Goto
  <2>. QED
    BY <2>1, <2>2, StackGoto
<1>9. ASSUME NEW f \in Frames, Breada(f) PROVE StackInv'
  BY <1>9, StackGoto DEF Breada, Goto
<1>10. ASSUME NEW f \in Frames, AheadNext(f) PROVE StackInv'
  BY <1>10, StackGoto DEF AheadNext, Goto
<1>11. ASSUME NEW f \in Frames, AheadGot(f) PROVE StackInv'
  BY <1>11, StackGoto DEF AheadGot, Goto
<1>12. ASSUME NEW f \in Frames, AheadDone(f) PROVE StackInv'
  BY <1>12, StackGoto DEF AheadDone, Goto
<1>13. ASSUME NEW f \in Frames, ReadDone(f) PROVE StackInv'
  <2>1. pc[f] \notin {"inodes", "idle"}
    BY <1>13 DEF ReadDone
  <2>2. \E l : pc' = [pc EXCEPT ![f] = l]
    BY <1>13 DEF ReadDone, Goto
  <2>. QED
    BY <2>1, <2>2, StackGoto
<1>14. ASSUME NEW f \in Frames, Overwrite(f) PROVE StackInv'
  BY <1>14, StackGoto DEF Overwrite, Goto
<1>15. ASSUME NEW f \in Frames, Release(f) PROVE StackInv'
  BY <1>15, StackGoto DEF Release, Goto
<1>16. ASSUME NEW f \in Frames, Brelse(f) PROVE StackInv'
  <2>1. /\ pc[f] = "rel_wait"
        /\ pc' = [g \in Frames |-> IF g = f THEN "idle"
                                  ELSE IF pc[g] = "sleep" THEN "repeat" ELSE pc[g]]
    BY <1>16 DEF Brelse
  <2>. SUFFICES ASSUME NEW d \in Frames, NEW e \in Frames,
                       d[1] = e[1], d[2] < e[2], pc'[e] # "idle"
                PROVE  pc'[d] = "inodes"
    BY DEF StackInv
  <2>2. pc[e] # "idle"
    BY <2>1
  <2>3. pc[d] = "inodes"
    BY <2>2 DEF StackInv
  <2>. QED
    BY <2>1, <2>3
<1>17. ASSUME NEW f \in Frames, Modify(f) PROVE StackInv'
  BY <1>17 DEF Modify, procVars, StackInv
<1>22. ASSUME NEW f \in Frames, SyncInodes(f) PROVE StackInv'
  <2>1. pc[f] = "inodes" /\ (Child(f) \in Frames => pc[Child(f)] = "idle")
    BY <1>22 DEF SyncInodes
  <2>2. \A g \in Frames : g[1] = f[1] /\ f[2] < g[2] => pc[g] = "idle"
    <3>. SUFFICES ASSUME NEW g \in Frames, g[1] = f[1], f[2] < g[2], pc[g] # "idle"
                  PROVE  FALSE
      OBVIOUS
    <3>1. Child(f) \in Frames /\ Child(f)[1] = f[1] /\ Child(f)[2] = f[2] + 1
      BY DEF Frames, Child
    <3>2. g = Child(f) \/ Child(f)[2] < g[2]
      BY <3>1 DEF Frames, Child
    <3>3. CASE g = Child(f)
      BY <2>1, <3>1, <3>3
    <3>4. CASE Child(f)[2] < g[2]
      BY <2>1, <3>1, <3>4 DEF StackInv
    <3>. QED
      BY <3>2, <3>3, <3>4
  <2>3. pc' = pc \/ pc' = [pc EXCEPT ![f] = "sync"]
        \/ (Child(f) \in Frames /\ pc' = [pc EXCEPT ![Child(f)] = "lock_inode"])
    BY <1>22 DEF SyncInodes, Goto
  <2>. SUFFICES ASSUME NEW d \in Frames, NEW e \in Frames,
                       d[1] = e[1], d[2] < e[2], pc'[e] # "idle"
                PROVE  pc'[d] = "inodes"
    BY DEF StackInv
  <2>4. CASE pc' = pc
    BY <2>4 DEF StackInv
  <2>5. CASE pc' = [pc EXCEPT ![f] = "sync"]
    <3>1. d # f
      <4>. SUFFICES ASSUME d = f PROVE FALSE
        OBVIOUS
      <4>1. pc[e] = "idle" /\ e # f
        BY <2>2, FrameParts
      <4>. QED
        BY <2>5, <4>1
    <3>2. pc[e] # "idle"
      BY <2>1, <2>5
    <3>. QED
      BY <2>5, <3>1, <3>2 DEF StackInv
  <2>6. CASE Child(f) \in Frames /\ pc' = [pc EXCEPT ![Child(f)] = "lock_inode"]
    <3>1. Child(f)[1] = f[1] /\ Child(f)[2] = f[2] + 1
      BY DEF Child
    <3>2. CASE e = Child(f)
      <4>1. d # Child(f) /\ (d = f \/ d[2] < f[2])
        <5>1. d[2] \in Nat /\ f[2] \in Nat /\ d[2] < f[2] + 1 /\ d[1] = f[1]
          BY <3>1, <3>2, FrameParts
        <5>2. d[2] < f[2] \/ d[2] = f[2]
          BY <5>1
        <5>. QED
          BY <3>1, <5>1, <5>2, FrameParts
      <4>2. pc[d] = "inodes"
        BY <2>1, <3>1, <3>2, <4>1 DEF StackInv
      <4>. QED
        BY <2>6, <4>1, <4>2
    <3>3. CASE e # Child(f)
      <4>1. pc[e] # "idle"
        BY <2>6, <3>3
      <4>2. d # Child(f)
        BY <2>2, <3>1, <4>1 DEF Frames
      <4>. QED
        BY <2>6, <4>1, <4>2 DEF StackInv
    <3>. QED
      BY <3>2, <3>3
  <2>. QED
    BY <2>3, <2>4, <2>5, <2>6
<1>23. ASSUME NEW f \in Frames, LockInode(f) PROVE StackInv'
  <2>1. pc[f] \notin {"inodes", "idle"}
    BY <1>23 DEF LockInode
  <2>2. \E l : pc' = [pc EXCEPT ![f] = l]
    BY <1>23 DEF LockInode, Goto
  <2>. QED
    BY <2>1, <2>2, StackGoto
<1>24. ASSUME NEW f \in Frames, WriteInode(f) PROVE StackInv'
  BY <1>24, StackGoto DEF WriteInode, Goto
<1>25. ASSUME NEW f \in Frames, Chmod(f) PROVE StackInv'
  BY <1>25 DEF Chmod, StackInv
<1>18. ASSUME NEW b \in Buffers, ReadEnds(b) PROVE StackInv'
  BY <1>18 DEF ReadEnds, procVars, StackInv
<1>19. ASSUME NEW b \in Buffers, ReadFails(b) PROVE StackInv'
  BY <1>19 DEF ReadFails, procVars, StackInv
<1>20. ASSUME NEW b \in Buffers, WriteEnds(b) PROVE StackInv'
  BY <1>20 DEF WriteEnds, procVars, StackInv
<1>21. CASE UNCHANGED vars
  BY <1>21 DEF vars, procVars, StackInv
<1>. QED
  BY <1>1, <1>2, <1>3, <1>4, <1>5, <1>6, <1>7, <1>8, <1>9, <1>10, <1>11,
     <1>12, <1>13, <1>14, <1>15, <1>16, <1>17, <1>18, <1>19, <1>20, <1>21,
     <1>22, <1>23, <1>24, <1>25 DEF Next, Continue, Disk

(* Every step but those that sleep on buffer_wait or wake from it is calm. *)
LEMMA CalmStep ==
  ASSUME IInv, [Next]_vars,
         \A f \in Frames : ~SleepForBuffer(f) /\ ~Brelse(f)
  PROVE  Calm
<1>. TypeOK /\ ProcTypeOK
  BY DEF IInv, TypeOK
<1>. USE DEF Calm, Holds, Holding, ProcTypeOK
<1>1. ASSUME NEW f \in Frames, Call(f) PROVE Calm
  BY <1>1 DEF Call, Goto, headVars, dataVars, syncVars
<1>2. ASSUME NEW f \in Frames, HashHit(f) PROVE Calm
  BY <1>2 DEF HashHit, FindBuffer, Goto, dataVars, callVars, syncVars
<1>3. ASSUME NEW f \in Frames, HashReady(f) PROVE Calm
  <2>1. b_ident[bh[f]] = want[f]
    BY <1>3 DEF HashReady, IInv, HolderInv
  <2>. QED
    BY <1>3, <2>1 DEF HashReady, Goto, callVars
<1>5. ASSUME NEW f \in Frames, PickVictim(f) PROVE Calm
  BY <1>5 DEF PickVictim, Goto, headVars, dataVars, callVars, syncVars
<1>6. ASSUME NEW f \in Frames, VictimReady(f) PROVE Calm
  <2>1. pc[f] = "victim_wait" /\ first' = first
    BY <1>6 DEF VictimReady, Retry, CleanVictim, TakeVictim, callVars
  <2>2. \E l \in {"repeat", "sync", "got"} : pc' = [pc EXCEPT ![f] = l]
    BY <1>6 DEF VictimReady, Retry, CleanVictim, TakeVictim, Goto
  <2>. QED
    BY <2>1, <2>2
<1>7. ASSUME NEW f \in Frames, SyncRun(f) PROVE Calm
  <2>1. pc[f] = "sync" /\ first' = first
    BY <1>7 DEF SyncRun
  <2>2. \E l \in {"sync", "idle", "inodes", "victim_wait"} : pc' = [pc EXCEPT ![f] = l]
    <3>1. pc = [pc EXCEPT ![f] = "sync"]
      BY <2>1
    <3>. QED
      BY <1>7, <3>1 DEF SyncRun, Goto
  <2>. QED
    BY <2>1, <2>2
<1>8. ASSUME NEW f \in Frames, Bread(f) PROVE Calm
  BY <1>8 DEF Bread, ReadBlock, Goto, callVars, syncVars
<1>9. ASSUME NEW f \in Frames, Breada(f) PROVE Calm
  <2>1. bh[f] # NULL
    BY <1>9 DEF Breada, IInv, ControlInv, ControlAt, Holding
  <2>. QED
    BY <1>9, <2>1 DEF Breada, Goto
<1>10. ASSUME NEW f \in Frames, AheadNext(f) PROVE Calm
  BY <1>10 DEF AheadNext, Goto, headVars, dataVars, syncVars
<1>11. ASSUME NEW f \in Frames, AheadGot(f) PROVE Calm
  BY <1>11 DEF AheadGot, ReadBlock, Goto, callVars, syncVars
<1>12. ASSUME NEW f \in Frames, AheadDone(f) PROVE Calm
  BY <1>12 DEF AheadDone, Goto, headVars, dataVars, syncVars
<1>13. ASSUME NEW f \in Frames, ReadDone(f) PROVE Calm
  BY <1>13 DEF ReadDone, Goto, headVars, dataVars, callVars, syncVars
<1>14. ASSUME NEW f \in Frames, Overwrite(f) PROVE Calm
  BY <1>14 DEF Overwrite, WriteData, Goto, callVars, syncVars
<1>15. ASSUME NEW f \in Frames, Release(f) PROVE Calm
  BY <1>15 DEF Release, Goto, headVars, dataVars, callVars, syncVars
<1>17. ASSUME NEW f \in Frames, Modify(f) PROVE Calm
  BY <1>17 DEF Modify, WriteData, procVars
<1>18. ASSUME NEW b \in Buffers, ReadEnds(b) PROVE Calm
  BY <1>18 DEF ReadEnds, Unlock, procVars
<1>19. ASSUME NEW b \in Buffers, ReadFails(b) PROVE Calm
  BY <1>19 DEF ReadFails, Unlock, procVars
<1>20. ASSUME NEW b \in Buffers, WriteEnds(b) PROVE Calm
  BY <1>20 DEF WriteEnds, Unlock, procVars
<1>22. ASSUME NEW f \in Frames, SyncInodes(f) PROVE Calm
  BY <1>22 DEF SyncInodes, Goto, headVars, dataVars
<1>23. ASSUME NEW f \in Frames, LockInode(f) PROVE Calm
  BY <1>23 DEF LockInode, Goto, headVars, dataVars
<1>24. ASSUME NEW f \in Frames, WriteInode(f) PROVE Calm
  BY <1>24 DEF WriteInode, WriteData, Goto, callVars
<1>25. ASSUME NEW f \in Frames, Chmod(f) PROVE Calm
  BY <1>25 DEF Chmod, headVars, dataVars, callVars
<1>21. CASE UNCHANGED vars
  BY <1>21 DEF vars, procVars
<1>. QED
  BY <1>1, <1>2, <1>3, <1>5, <1>6, <1>7, <1>8, <1>9, <1>10, <1>11,
     <1>12, <1>13, <1>14, <1>15, <1>17, <1>18, <1>19, <1>20, <1>21,
     <1>22, <1>23, <1>24, <1>25 DEF Next, Continue, Disk

(* No step leaves a sleeper without a process that will wake it. *)
LEMMA WakeStep ==
  ASSUME Cardinality(ReadingAhead) < NR_BUFFERS,
         IInv, OpsInv, StackInv, NoLostWakeup, [Next]_vars
  PROVE  NoLostWakeup'
<1>. TypeOK /\ ProcTypeOK
  BY DEF IInv, TypeOK
<1>. USE DEF ProcTypeOK
<1>1. ASSUME NEW f \in Frames, SleepForBuffer(f) PROVE NoLostWakeup'
  <2>1. pc[f] = "repeat" /\ pc' = [pc EXCEPT ![f] = "sleep"]
    BY <1>1 DEF SleepForBuffer, Goto
  <2>2. PICK g \in Frames : pc[g] \in Holding
    BY <1>1, SomeoneHolds DEF SleepForBuffer
  <2>3. pc'[g] = pc[g]
    BY <2>1, <2>2 DEF Holding
  <2>4. ASSUME NEW h \in Frames, h[1] = g[1], pc'[h] = "sleep" PROVE FALSE
    <3>1. pc[h] \notin {"idle", "inodes"} /\ h # g
      BY <2>1, <2>2, <2>3, <2>4 DEF Holding
    <3>2. h[2] < g[2] \/ g[2] < h[2]
      <4>1. h[2] \in Nat /\ g[2] \in Nat /\ h[2] # g[2]
        BY <2>4, <3>1, FrameParts
      <4>. QED
        BY <4>1
    <3>. QED
      BY <2>2, <2>4, <3>1, <3>2 DEF StackInv, Holding
  <2>. QED
    BY <2>2, <2>3, <2>4 DEF NoLostWakeup, Asleep
<1>2. ASSUME NEW f \in Frames, Brelse(f) PROVE NoLostWakeup'
  <2>1. \A g \in Frames : pc'[g] # "sleep"
    BY <1>2 DEF Brelse
  <2>. QED
    BY <2>1 DEF NoLostWakeup, Asleep
<1>3. CASE \A f \in Frames : ~SleepForBuffer(f) /\ ~Brelse(f)
  <2>1. Calm
    BY <1>3, CalmStep
  <2>2. \A p : Asleep(p)' => Asleep(p)
    BY <2>1 DEF Calm, Asleep
  <2>3. ASSUME NEW p \in Procs, Asleep(p)'
        PROVE  \E g \in Frames : ~Asleep(g[1])' /\ Holds(g)'
    <3>1. PICK g \in Frames : ~Asleep(g[1]) /\ Holds(g)
      BY <2>2, <2>3 DEF NoLostWakeup, Holds
    <3>. QED
      BY <2>1, <2>2, <3>1 DEF Calm
  <2>. QED
    BY <2>3 DEF NoLostWakeup, Holds
<1>. QED
  BY <1>1, <1>2, <1>3

-----------------------------------------------------------------------------
(* The inductive invariant holds at the start. *)
LEMMA InitIInv == Init => IInv /\ DataInv /\ Durable
<1>. SUFFICES ASSUME Init PROVE IInv /\ DataInv /\ Durable
  OBVIOUS
<1>. USE DEF Init
<1>1. TypeOK
  BY DEF TypeOK, HeadTypeOK, DataTypeOK, ProcTypeOK, Labels
<1>2. ControlInv
  BY DEF ControlInv, ControlAt, InGetblk, Holding
<1>3. HeadInv /\ Coherent
  BY DEF HeadInv, Coherent
<1>4. RefCount
  <2>1. \A b \in Buffers : Holders(b) = {} /\ Readers(b) = {}
    BY DEF Holders, Readers, Holding
  <2>2. Cardinality({}) = 0
    BY FS_EmptySet
  <2>. QED
    <3>. SUFFICES ASSUME NEW b \in Buffers
                  PROVE  b_count[b] = Cardinality(Holders(b)) + Cardinality(Readers(b))
      BY DEF RefCount
    <3>1. Cardinality(Holders(b)) = 0 /\ Cardinality(Readers(b)) = 0
      BY <2>1, <2>2, Zenon
    <3>2. b_count[b] = 0
      OBVIOUS
    <3>. QED
      BY <3>1, <3>2
<1>5. HolderInv
  BY DEF HolderInv, HolderKeepsBlock
<1>6. DataInv
  BY DEF DataInv, DataAt
<1>7. Durable
  BY DEF Durable
<1>. QED
  BY <1>1, <1>2, <1>3, <1>4, <1>5, <1>6, <1>7 DEF IInv

(* The inductive invariant holds of every reachable state: its control and *)
(* counting part does not need the data part, which needs it.              *)
THEOREM IInvCorrect == Spec => [](IInv /\ DataInv /\ Durable)
<1>1. IInv /\ DataInv /\ Durable /\ [Next]_vars => (IInv /\ DataInv /\ Durable)'
  <2>. SUFFICES ASSUME IInv, DataInv, Durable, [Next]_vars
                PROVE  IInv' /\ DataInv' /\ Durable'
    OBVIOUS
  <2>1. IInv'
    BY HeadTypeInductive, DataTypeInductive, ProcTypeInductive, ControlInductive,
       HeadInductive, CoherentInductive, RefInductive, HolderInductive
    DEF IInv, TypeOK
  <2>2. DataInv'
    BY DataInductive, UseInductive DEF DataInv
  <2>3. Durable'
    BY DurableInductive
  <2>. QED
    BY <2>1, <2>2, <2>3
<1>. QED
  BY InitIInv, <1>1, PTL DEF Spec

(* Every variable of the cache keeps its type. *)
THEOREM TypeCorrect == Spec => []TypeOK
<1>1. IInv => TypeOK
  BY DEF IInv
<1>. QED
  BY IInvCorrect, <1>1, PTL

(* getblk never brings a block into a second buffer, however the processes *)
(* that miss it together are scheduled (the lookup of line 196).           *)
THEOREM CoherentCorrect == Spec => []Coherent
<1>1. IInv => Coherent
  BY DEF IInv
<1>. QED
  BY IInvCorrect, <1>1, PTL

(* b_count is exactly the number of references; brelse never panics.       *)
THEOREM RefCountCorrect == Spec => []RefCount
<1>1. IInv => RefCount
  BY DEF IInv
<1>. QED
  BY IInvCorrect, <1>1, PTL

(* The buffer a process was given keeps the block the process asked for.   *)
THEOREM HolderKeepsBlockCorrect == Spec => []HolderKeepsBlock
<1>1. IInv => HolderKeepsBlock
  BY DEF IInv, HolderInv
<1>. QED
  BY IInvCorrect, <1>1, PTL

(* Nothing written through the cache is lost by getblk, sync_dev, sys_sync *)
(* or the transfers, save what a READ of a block overwritten without being *)
(* marked up to date replaces.                                             *)
THEOREM DurableCorrect == Spec => []Durable
  BY IInvCorrect, PTL

(* Processes work on what was last written to the block they hold. *)
THEOREM UptodateFreshCorrect == Spec => []UptodateFresh
<1>1. IInv /\ DataInv => UptodateFresh
  <2>. SUFFICES ASSUME IInv, DataInv, NEW f \in Frames, pc[f] = "use"
                PROVE  fresh[bh[f]] \/ b_ident[bh[f]] \in lost
    BY DEF UptodateFresh
  <2>1. bh[f] \in Buffers /\ b_uptodate[bh[f]]
    BY DEF IInv, ControlInv, ControlAt, Holding, DataInv
  <2>. QED
    BY <2>1 DEF DataInv, DataAt
<1>. QED
  BY IInvCorrect, <1>1, PTL

(* No wake-up is lost: while a process sleeps on buffer_wait one that is    *)
(* awake holds a buffer.  A process that reads ahead holds one buffer while *)
(* it sleeps for another (278), so there must be fewer of them than buffers.*)
THEOREM NoLostWakeupCorrect ==
  ASSUME Cardinality(ReadingAhead) < NR_BUFFERS
  PROVE  Spec => []NoLostWakeup
<1>1. Init => OpsInv /\ StackInv /\ NoLostWakeup
  BY DEF Init, OpsInv, StackInv, NoLostWakeup, Asleep
<1>2. IInv /\ OpsInv /\ StackInv /\ NoLostWakeup /\ [Next]_vars
        => (OpsInv /\ StackInv /\ NoLostWakeup)'
  BY OpsStep, StackStep, WakeStep
<1>. QED
  BY IInvCorrect, <1>1, <1>2, PTL DEF Spec
=============================================================================
