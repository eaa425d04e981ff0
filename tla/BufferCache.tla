----------------------------- MODULE BufferCache -----------------------------
(***************************************************************************)
(* The block buffer cache of fs/buffer.c, seen by several processes.       *)
(*                                                                         *)
(* The kernel is uniprocessor and does not preempt a process in kernel     *)
(* mode: between two calls that may sleep a process runs alone, except for *)
(* the disk interrupt.  A step of a process below never spans two places   *)
(* where the code may sleep; it sometimes covers less than the code runs   *)
(* in one go, which only adds interleavings.                               *)
(*                                                                         *)
(* The lists the buffers are on (hash chains, free list ring) are pointers *)
(* in module BufferQueues; here a chain lookup is a search by identity and *)
(* the free list is the order in which getblk walks it.  Of an inode there *)
(* is what write_inode needs: is it dirty, is it locked (see InodeTable).  *)
(***************************************************************************)
EXTENDS Integers, FiniteSets

CONSTANTS NR_BUFFERS,   \* number of buffer heads, set up by buffer_init
          Procs,        \* processes that use the cache
          Blocks,       \* the disk blocks they use, pairs <<dev, block>>
          NoBlock,      \* identity of a buffer never given a block (b_dev = 0)
          NR_INODE,     \* number of inodes in memory, and
          InodeBlock,   \* the block each of them is written to
          Ops           \* what each process does

OpNames == {"bread", "breada", "overwrite", "modify", "sync", "write_inode", "chmod"}

Inodes == 1..NR_INODE

ASSUME ConstantsAssumption ==
  /\ NR_BUFFERS \in Nat \ {0}
  /\ IsFiniteSet(Procs)
  /\ NoBlock \notin Blocks
  /\ NR_INODE \in Nat
  /\ InodeBlock \in [Inodes -> Blocks]
  /\ Ops \in [Procs -> SUBSET OpNames]

Buffers == 1..NR_BUFFERS
NULL == 0
Dev(block) == block[1]

(* sync_dev and sys_sync call sync_inodes, which calls write_inode, which  *)
(* calls bread, getblk and so sync_dev again.  A process is in a stack of  *)
(* frames: its own call at depth 0, and above it the write_inode of each   *)
(* sync_inodes that has not returned.  Each of these holds the lock of an  *)
(* inode of its own, so there are never more than NR_INODE.                *)
Frames == Procs \X (0..NR_INODE)
Depth(f) == f[2]
Child(f) == <<f[1], f[2] + 1>>

VARIABLES
  b_ident,      \* (b_dev, b_blocknr) of each buffer, or NoBlock
  b_count, b_dirt, b_uptodate,
  b_lock,       \* b_lock, with the transfer that holds it: "free", "READ", "WRITE"
  free_list,    \* the buffers in the order of the free list ring
  fresh,        \* does b_data hold what was last written to the block?
  xfer,         \* does the WRITE under way carry what was last written?
  disk,         \* does the disk hold what was last written to the block?
  lost,         \* blocks whose unwritten data a READ has replaced
  i_dirt, i_lock,   \* of each inode
  pc,           \* where each frame is
  op,           \* the operation it is in
  asked,        \* the block the caller asked for
  want,         \* the block getblk is asked for
  bh,           \* getblk's, bread's and brelse's bh
  first,        \* breada's bh, held while it reads ahead
  ahead,        \* breada's remaining arguments
  pass, scan,   \* sync_dev's loop (1, 2) and the buffer it waits for
  sdev,         \* sync_dev's dev
  cursor,       \* sync_inodes' loop
  inode         \* write_inode's inode

headVars == <<b_ident, b_count, b_dirt, b_uptodate, b_lock, free_list>>
dataVars == <<fresh, xfer, disk, lost>>
inodeVars == <<i_dirt, i_lock, cursor, inode>>
syncVars == <<pass, scan, sdev, i_dirt, i_lock, cursor, inode>>
callVars == <<op, asked, want, first, ahead>>
procVars == <<pc, bh, op, asked, want, first, ahead, pass, scan, sdev, i_dirt, i_lock,
              cursor, inode>>
vars == <<headVars, dataVars, procVars>>

Init ==
  /\ b_ident = [b \in Buffers |-> NoBlock]
  /\ b_count = [b \in Buffers |-> 0]
  /\ b_dirt = [b \in Buffers |-> FALSE]
  /\ b_uptodate = [b \in Buffers |-> FALSE]
  /\ b_lock = [b \in Buffers |-> "free"]
  /\ free_list = [i \in Buffers |-> i]
  /\ fresh = [b \in Buffers |-> FALSE]
  /\ xfer = [b \in Buffers |-> FALSE]
  /\ disk = [k \in Blocks |-> TRUE]
  /\ lost = {}
  /\ pc = [f \in Frames |-> "idle"]
  /\ op = [f \in Frames |-> "none"]
  /\ asked = [f \in Frames |-> NoBlock]
  /\ want = [f \in Frames |-> NoBlock]
  /\ bh = [f \in Frames |-> NULL]
  /\ first = [f \in Frames |-> NULL]
  /\ ahead = [f \in Frames |-> {}]
  /\ pass = [f \in Frames |-> 1]
  /\ scan = [f \in Frames |-> 0]
  /\ sdev = [f \in Frames |-> NULL]
  /\ i_dirt = [i \in Inodes |-> FALSE]
  /\ i_lock = [i \in Inodes |-> FALSE]
  /\ cursor = [f \in Frames |-> 1]
  /\ inode = [f \in Frames |-> NULL]

Goto(f, label) == pc' = [pc EXCEPT ![f] = label]

-----------------------------------------------------------------------------
(* What the cache is asked for.                                            *)

(* A call of bread, breada (with the block after it to read ahead), getblk *)
(* for a block to be overwritten whole (block_write), sys_sync, or the     *)
(* write_inode of an iput.                                                 *)
Call(f) ==
  /\ Depth(f) = 0 /\ pc[f] = "idle"
  /\ \/ \E o \in Ops[f[1]] \cap {"bread", "breada", "overwrite"},
            k \in Blocks, rest \in SUBSET Blocks :
          /\ IF o = "breada"
             THEN Cardinality(rest) <= 1 /\ k \notin rest
                  /\ \A r \in rest : Dev(r) = Dev(k)
             ELSE rest = {}
          /\ op' = [op EXCEPT ![f] = o]
          /\ asked' = [asked EXCEPT ![f] = k]
          /\ want' = [want EXCEPT ![f] = k]
          /\ ahead' = [ahead EXCEPT ![f] = rest]
          /\ Goto(f, "repeat")
          /\ UNCHANGED inode
     \/ /\ "sync" \in Ops[f[1]]
        /\ op' = [op EXCEPT ![f] = "sync"]
        /\ Goto(f, "inodes")
        /\ UNCHANGED <<asked, want, ahead, inode>>
     \/ /\ "write_inode" \in Ops[f[1]]
        /\ op' = [op EXCEPT ![f] = "write_inode"]
        /\ \E i \in Inodes : inode' = [inode EXCEPT ![f] = i]
        /\ Goto(f, "lock_inode")
        /\ UNCHANGED <<asked, want, ahead>>
  /\ UNCHANGED <<headVars, dataVars, bh, first, pass, scan, sdev, i_dirt, i_lock, cursor>>

(* A process changes an inode: no lock is taken. *)
Chmod(f) ==
  /\ Depth(f) = 0 /\ pc[f] = "idle" /\ "chmod" \in Ops[f[1]]
  /\ \E i \in Inodes : i_dirt' = [i_dirt EXCEPT ![i] = TRUE]
  /\ UNCHANGED <<headVars, dataVars, pc, bh, callVars, pass, scan, sdev, i_lock, cursor, inode>>

-----------------------------------------------------------------------------
(* getblk.                                                                 *)

FindBuffer(k) == {b \in Buffers : b_ident[b] = k}

(* Faulty variant: the reference is not counted before the wait. *)
HashHitUncounted(f) ==
  /\ pc[f] = "repeat"
  /\ \E b \in FindBuffer(want[f]) : bh' = [bh EXCEPT ![f] = b]
  /\ Goto(f, "hash_wait")
  /\ UNCHANGED <<headVars, dataVars, callVars, syncVars>>

(* get_hash_table up to its wait: the block is in the cache. *)
HashHit(f) ==
  /\ pc[f] = "repeat"
  /\ \E b \in FindBuffer(want[f]) :
       /\ b_count' = [b_count EXCEPT ![b] = @ + 1]
       /\ bh' = [bh EXCEPT ![f] = b]
  /\ Goto(f, "hash_wait")
  /\ UNCHANGED <<b_ident, b_dirt, b_uptodate, b_lock, free_list, dataVars,
                 callVars, syncVars>>

(* get_hash_table after its wait. *)
HashReady(f) ==
  /\ pc[f] = "hash_wait"
  /\ b_lock[bh[f]] = "free"
  /\ IF b_ident[bh[f]] = want[f]
     THEN Goto(f, "got") /\ UNCHANGED <<b_count, bh>>
     ELSE /\ b_count' = [b_count EXCEPT ![bh[f]] = @ - 1]
          /\ bh' = [bh EXCEPT ![f] = NULL]
          /\ Goto(f, "repeat")
  /\ UNCHANGED <<b_ident, b_dirt, b_uptodate, b_lock, free_list, dataVars,
                 callVars, syncVars>>

Badness(b) == (IF b_dirt[b] THEN 2 ELSE 0) + (IF b_lock[b] = "free" THEN 0 ELSE 1)

FreeBuffers == {b \in Buffers : b_count[b] = 0}

(* Every buffer is held: sleep_on(&buffer_wait). *)
SleepForBuffer(f) ==
  /\ pc[f] = "repeat"
  /\ FindBuffer(want[f]) = {}
  /\ FreeBuffers = {}
  /\ Goto(f, "sleep")
  /\ UNCHANGED <<headVars, dataVars, bh, callVars, syncVars>>

(* The walk of the free list: its first buffer of least badness. *)
PickVictim(f) ==
  /\ pc[f] = "repeat"
  /\ FindBuffer(want[f]) = {}
  /\ \E i \in Buffers :
       /\ free_list[i] \in FreeBuffers
       /\ \A j \in Buffers : free_list[j] \in FreeBuffers =>
            \/ Badness(free_list[i]) < Badness(free_list[j])
            \/ Badness(free_list[i]) = Badness(free_list[j]) /\ i <= j
       /\ bh' = [bh EXCEPT ![f] = free_list[i]]
  /\ Goto(f, "victim_wait")
  /\ UNCHANGED <<headVars, dataVars, callVars, syncVars>>

(* Faulty variant: the buffer taken off the list is not put back. *)
MoveToTailLost(list, b) ==
  LET at == CHOOSE i \in Buffers : list[i] = b
  IN  [i \in Buffers |-> IF i < at THEN list[i]
                         ELSE IF i < NR_BUFFERS THEN list[i + 1] ELSE NULL]

(* remove_from_queues then insert_into_queues: b goes to the end of the list. *)
MoveToTail(list, b) ==
  LET at == CHOOSE i \in Buffers : list[i] = b
  IN  [i \in Buffers |-> IF i < at THEN list[i]
                         ELSE IF i < NR_BUFFERS THEN list[i + 1] ELSE b]

(* The victim may not be used: somebody took it, it was written to, or the *)
(* block came into the cache, while this process slept.                    *)
Retry(f) ==
  /\ bh' = [bh EXCEPT ![f] = NULL]
  /\ Goto(f, "repeat")
  /\ UNCHANGED <<headVars, dataVars, callVars, syncVars>>

CleanVictim(f) ==
  /\ sdev' = [sdev EXCEPT ![f] = Dev(b_ident[bh[f]])]
  /\ Goto(f, "sync")
  /\ UNCHANGED <<headVars, dataVars, bh, callVars, pass, scan, inodeVars>>

(* Faulty variant: b_uptodate is not reset for the new block. *)
TakeVictimUptodate(f) ==
  /\ b_count' = [b_count EXCEPT ![bh[f]] = 1]
  /\ b_dirt' = [b_dirt EXCEPT ![bh[f]] = FALSE]
  /\ b_ident' = [b_ident EXCEPT ![bh[f]] = want[f]]
  /\ free_list' = MoveToTail(free_list, bh[f])
  /\ fresh' = [fresh EXCEPT ![bh[f]] = FALSE]
  /\ Goto(f, "got")
  /\ UNCHANGED <<b_uptodate, b_lock, xfer, disk, lost, bh, callVars, syncVars>>

TakeVictim(f) ==
  /\ b_count' = [b_count EXCEPT ![bh[f]] = 1]
  /\ b_dirt' = [b_dirt EXCEPT ![bh[f]] = FALSE]
  /\ b_uptodate' = [b_uptodate EXCEPT ![bh[f]] = FALSE]
  /\ b_ident' = [b_ident EXCEPT ![bh[f]] = want[f]]
  /\ free_list' = MoveToTail(free_list, bh[f])
  /\ fresh' = [fresh EXCEPT ![bh[f]] = FALSE]
  /\ Goto(f, "got")
  /\ UNCHANGED <<b_lock, xfer, disk, lost, bh, callVars, syncVars>>

(* Faulty variants: one of the checks after the waits is missing. *)
VictimReadyNoCount(f) ==
  /\ pc[f] = "victim_wait"
  /\ b_lock[bh[f]] = "free"
  /\ IF b_dirt[bh[f]] THEN CleanVictim(f)
     ELSE IF FindBuffer(want[f]) # {} THEN Retry(f)
     ELSE TakeVictim(f)

VictimReadyNoLookup(f) ==
  /\ pc[f] = "victim_wait"
  /\ b_lock[bh[f]] = "free"
  /\ IF b_count[bh[f]] > 0 THEN Retry(f)
     ELSE IF b_dirt[bh[f]] THEN CleanVictim(f)
     ELSE TakeVictim(f)

VictimReadyNoSync(f) ==
  /\ pc[f] = "victim_wait"
  /\ b_lock[bh[f]] = "free"
  /\ IF b_count[bh[f]] > 0 \/ FindBuffer(want[f]) # {} THEN Retry(f)
     ELSE TakeVictim(f)

(* getblk after a wait for its victim. *)
VictimReady(f) ==
  /\ pc[f] = "victim_wait"
  /\ b_lock[bh[f]] = "free"
  /\ IF b_count[bh[f]] > 0 THEN Retry(f)
     ELSE IF b_dirt[bh[f]] THEN CleanVictim(f)
     ELSE IF FindBuffer(want[f]) # {} THEN Retry(f)
     ELSE TakeVictim(f)

-----------------------------------------------------------------------------
(* sync_dev and sys_sync.                                                  *)

(* The buffers sync_dev looks at: those of its device; sys_sync: all.      *)
Selected(f, b) == op[f] = "sync" \/ (b_ident[b] # NoBlock /\ Dev(b_ident[b]) = sdev[f])

(* One stretch of a loop over the buffers: from the one waited for, now    *)
(* unlocked, to the next selected one that is locked.  Every dirty one met *)
(* is handed to ll_rw_block(WRITE), which locks it and clears b_dirt.      *)
SyncRun(f) ==
  /\ pc[f] = "sync"
  /\ scan[f] # 0 => b_lock[scan[f]] = "free"
  /\ LET rest  == {b \in Buffers : b >= scan[f]}
         stops == {b \in rest : Selected(f, b) /\ b_lock[b] # "free"}
         met   == {b \in rest : \A s \in stops : b < s}
         flush == {b \in met : Selected(f, b) /\ b_dirt[b]}
     IN /\ b_lock' = [b \in Buffers |-> IF b \in flush THEN "WRITE" ELSE b_lock[b]]
        /\ xfer'   = [b \in Buffers |-> IF b \in flush THEN fresh[b] ELSE xfer[b]]
        /\ b_dirt' = [b \in Buffers |-> b_dirt[b] /\ b \notin flush]
        /\ IF stops # {}
           THEN \E s \in stops : /\ \A t \in stops : s <= t
                                 /\ scan' = [scan EXCEPT ![f] = s]
                                 /\ UNCHANGED <<pc, op, pass, sdev>>
           ELSE /\ scan' = [scan EXCEPT ![f] = 0]
                /\ IF op[f] = "sync"
                   THEN Goto(f, "idle") /\ op' = [op EXCEPT ![f] = "none"]
                        /\ UNCHANGED <<pass, sdev>>
                   ELSE IF pass[f] = 1
                   THEN /\ pass' = [pass EXCEPT ![f] = 2]
                        /\ Goto(f, "inodes")
                        /\ UNCHANGED <<op, sdev>>
                   ELSE /\ pass' = [pass EXCEPT ![f] = 1]
                        /\ sdev' = [sdev EXCEPT ![f] = NULL]
                        /\ Goto(f, "victim_wait")
                        /\ UNCHANGED op
  /\ UNCHANGED <<b_ident, b_count, b_uptodate, free_list, fresh, disk, lost,
                 bh, asked, want, first, ahead, inodeVars>>

(* sync_inodes looks at one inode: before the loop of sys_sync, and between *)
(* the two of sync_dev.  A dirty one is written by a frame of its own.      *)
SyncInodes(f) ==
  /\ pc[f] = "inodes"
  /\ Child(f) \in Frames => pc[Child(f)] = "idle"
  /\ IF cursor[f] > NR_INODE
     THEN /\ cursor' = [cursor EXCEPT ![f] = 1]
          /\ Goto(f, "sync")
          /\ UNCHANGED <<op, inode>>
     ELSE /\ ~i_lock[cursor[f]]
          /\ cursor' = [cursor EXCEPT ![f] = @ + 1]
          /\ IF i_dirt[cursor[f]]
             THEN /\ Child(f) \in Frames
                  /\ inode' = [inode EXCEPT ![Child(f)] = cursor[f]]
                  /\ op' = [op EXCEPT ![Child(f)] = "write_inode"]
                  /\ Goto(Child(f), "lock_inode")
             ELSE UNCHANGED <<pc, op, inode>>
  /\ UNCHANGED <<headVars, dataVars, bh, asked, want, first, ahead, pass, scan, sdev,
                 i_dirt, i_lock>>

-----------------------------------------------------------------------------
(* write_inode (fs/inode.c).                                               *)

(* lock_inode; a clean inode is not written; bread of the inode's block. *)
LockInode(f) ==
  /\ pc[f] = "lock_inode"
  /\ ~i_lock[inode[f]]
  /\ IF i_dirt[inode[f]]
     THEN /\ i_lock' = [i_lock EXCEPT ![inode[f]] = TRUE]
          /\ asked' = [asked EXCEPT ![f] = InodeBlock[inode[f]]]
          /\ want' = [want EXCEPT ![f] = InodeBlock[inode[f]]]
          /\ Goto(f, "repeat")
          /\ UNCHANGED <<op, inode>>
     ELSE /\ inode' = [inode EXCEPT ![f] = NULL]
          /\ op' = [op EXCEPT ![f] = "none"]
          /\ Goto(f, "idle")
          /\ UNCHANGED <<asked, want, i_lock>>
  /\ UNCHANGED <<headVars, dataVars, bh, first, ahead, pass, scan, sdev, i_dirt, cursor>>

-----------------------------------------------------------------------------
(* bread, breada, brelse and the block_write of a whole block.             *)

(* ll_rw_block(READ or READA, b): a buffer already up to date is left      *)
(* alone.  What a dirty buffer held and the disk does not is gone.         *)
ReadBlock(b) ==
  IF b_uptodate[b] THEN UNCHANGED <<b_lock, lost>>
  ELSE /\ b_lock' = [b_lock EXCEPT ![b] = "READ"]
       /\ lost' = IF b_dirt[b] /\ ~disk[b_ident[b]] THEN lost \cup {b_ident[b]} ELSE lost

(* bread from getblk's return to its wait. *)
Bread(f) ==
  /\ pc[f] = "got" /\ op[f] \in {"bread", "write_inode"}
  /\ b_uptodate[bh[f]] \/ b_lock[bh[f]] = "free"
  /\ ReadBlock(bh[f])
  /\ Goto(f, IF b_uptodate[bh[f]] THEN "use" ELSE "read_wait")
  /\ UNCHANGED <<b_ident, b_count, b_dirt, b_uptodate, free_list, fresh, xfer,
                 disk, bh, callVars, syncVars>>

(* breada: its own block is requested, then the blocks to read ahead. *)
Breada(f) ==
  /\ pc[f] = "got" /\ op[f] = "breada" /\ first[f] = NULL
  /\ b_uptodate[bh[f]] \/ b_lock[bh[f]] = "free"
  /\ ReadBlock(bh[f])
  /\ first' = [first EXCEPT ![f] = bh[f]]
  /\ bh' = [bh EXCEPT ![f] = NULL]
  /\ Goto(f, "ahead")
  /\ UNCHANGED <<b_ident, b_count, b_dirt, b_uptodate, free_list, fresh, xfer,
                 disk, op, asked, want, ahead, syncVars>>

(* The next argument of breada. *)
AheadNext(f) ==
  /\ pc[f] = "ahead"
  /\ \E k \in ahead[f] : /\ want' = [want EXCEPT ![f] = k]
                         /\ ahead' = [ahead EXCEPT ![f] = @ \ {k}]
  /\ Goto(f, "repeat")
  /\ UNCHANGED <<headVars, dataVars, bh, op, asked, first, syncVars>>

(* getblk returned tmp: the READA is for bh, not for tmp (281); tmp is     *)
(* given back without a wake_up (283).                                     *)
AheadGot(f) ==
  /\ pc[f] = "got" /\ op[f] = "breada" /\ first[f] # NULL
  /\ IF ~b_uptodate[bh[f]] /\ b_lock[first[f]] = "free"
     THEN ReadBlock(first[f])
     ELSE UNCHANGED <<b_lock, lost>>
  /\ b_count' = [b_count EXCEPT ![bh[f]] = @ - 1]
  /\ bh' = [bh EXCEPT ![f] = NULL]
  /\ Goto(f, "ahead")
  /\ UNCHANGED <<b_ident, b_dirt, b_uptodate, free_list, fresh, xfer, disk,
                 callVars, syncVars>>

(* breada has no argument left and waits for bh. *)
AheadDone(f) ==
  /\ pc[f] = "ahead" /\ ahead[f] = {}
  /\ bh' = [bh EXCEPT ![f] = first[f]]
  /\ first' = [first EXCEPT ![f] = NULL]
  /\ Goto(f, "read_wait")
  /\ UNCHANGED <<headVars, dataVars, op, asked, want, ahead, syncVars>>

(* bread and breada after their wait: the block, or a brelse and NULL. *)
ReadDone(f) ==
  /\ pc[f] = "read_wait"
  /\ b_lock[bh[f]] = "free"
  /\ Goto(f, IF b_uptodate[bh[f]] THEN "use" ELSE "rel_wait")
  /\ UNCHANGED <<headVars, dataVars, bh, callVars, syncVars>>

(* The block gets new contents through buffer b: b_data is written, then   *)
(* b_dirt is set.  A WRITE under way carries the new bytes or the old.     *)
(* "now" tells whether b_data then holds all that was written to the block.*)
WriteData(b, now) ==
  /\ fresh' = [c \in Buffers |->
                 IF c = b THEN now ELSE fresh[c] /\ b_ident[c] # b_ident[b]]
  /\ disk' = [disk EXCEPT ![b_ident[b]] = FALSE]
  /\ \E carried \in IF b_lock[b] = "WRITE" THEN {FALSE, now} ELSE {xfer[b]} :
       xfer' = [xfer EXCEPT ![b] = carried]
  /\ b_dirt' = [b_dirt EXCEPT ![b] = TRUE]

(* A caller changes part of the block bread gave it. *)
Modify(f) ==
  /\ pc[f] = "use" /\ op[f] # "write_inode" /\ "modify" \in Ops[f[1]]
  /\ WriteData(bh[f], fresh[bh[f]])
  /\ UNCHANGED <<b_ident, b_count, b_uptodate, b_lock, free_list, lost, procVars>>

(* write_inode copies the inode into its part of the block. *)
WriteInode(f) ==
  /\ pc[f] = "use" /\ op[f] = "write_inode"
  /\ WriteData(bh[f], fresh[bh[f]])
  /\ i_dirt' = [i_dirt EXCEPT ![inode[f]] = FALSE]
  /\ Goto(f, "rel_wait")
  /\ UNCHANGED <<b_ident, b_count, b_uptodate, b_lock, free_list, lost, bh, callVars,
                 pass, scan, sdev, i_lock, cursor, inode>>

(* block_write of BLOCK_SIZE bytes: getblk, no read, b_uptodate not set. *)
Overwrite(f) ==
  /\ pc[f] = "got" /\ op[f] = "overwrite"
  /\ b_lock[bh[f]] = "free"
  /\ WriteData(bh[f], TRUE)
  /\ lost' = lost \ {b_ident[bh[f]]}
  /\ Goto(f, "rel_wait")
  /\ UNCHANGED <<b_ident, b_count, b_uptodate, b_lock, free_list, bh, callVars, syncVars>>

(* The caller is done with the block and calls brelse. *)
Release(f) ==
  /\ pc[f] = "use" /\ op[f] # "write_inode"
  /\ Goto(f, "rel_wait")
  /\ UNCHANGED <<headVars, dataVars, bh, callVars, syncVars>>

(* unlock_inode, when write_inode has released the block. *)
UnlockInode(f) ==
  IF op[f] = "write_inode"
  THEN /\ i_lock' = [i_lock EXCEPT ![inode[f]] = FALSE]
       /\ inode' = [inode EXCEPT ![f] = NULL]
  ELSE UNCHANGED <<i_lock, inode>>

(* Faulty variant: nobody is woken. *)
BrelseNoWakeUp(f) ==
  /\ pc[f] = "rel_wait"
  /\ b_lock[bh[f]] = "free"
  /\ b_count' = [b_count EXCEPT ![bh[f]] = @ - 1]
  /\ Goto(f, "idle")
  /\ op' = [op EXCEPT ![f] = "none"]
  /\ asked' = [asked EXCEPT ![f] = NoBlock]
  /\ want' = [want EXCEPT ![f] = NoBlock]
  /\ bh' = [bh EXCEPT ![f] = NULL]
  /\ UnlockInode(f)
  /\ UNCHANGED <<b_ident, b_dirt, b_uptodate, b_lock, free_list, dataVars,
                 first, ahead, pass, scan, sdev, i_dirt, cursor>>

(* brelse after its wait; wake_up(&buffer_wait). *)
Brelse(f) ==
  /\ pc[f] = "rel_wait"
  /\ b_lock[bh[f]] = "free"
  /\ b_count' = [b_count EXCEPT ![bh[f]] = @ - 1]
  /\ pc' = [g \in Frames |-> IF g = f THEN "idle"
                            ELSE IF pc[g] = "sleep" THEN "repeat" ELSE pc[g]]
  /\ op' = [op EXCEPT ![f] = "none"]
  /\ asked' = [asked EXCEPT ![f] = NoBlock]
  /\ want' = [want EXCEPT ![f] = NoBlock]
  /\ bh' = [bh EXCEPT ![f] = NULL]
  /\ UnlockInode(f)
  /\ UNCHANGED <<b_ident, b_dirt, b_uptodate, b_lock, free_list, dataVars,
                 first, ahead, pass, scan, sdev, i_dirt, cursor>>

-----------------------------------------------------------------------------
(* The disk driver (not in the repository): a transfer ends, the buffer is *)
(* unlocked and those waiting for it may go on.  A READ may fail, but not  *)
(* that of an inode's block: write_inode would panic.                      *)

Unlock(b) == b_lock' = [b_lock EXCEPT ![b] = "free"]

ReadEnds(b) ==
  /\ b_lock[b] = "READ"
  /\ fresh' = [fresh EXCEPT ![b] = disk[b_ident[b]]]
  /\ b_uptodate' = [b_uptodate EXCEPT ![b] = TRUE]
  /\ Unlock(b)
  /\ UNCHANGED <<b_ident, b_count, b_dirt, free_list, xfer, disk, lost, procVars>>

ReadFails(b) ==
  /\ b_lock[b] = "READ"
  /\ \A i \in Inodes : b_ident[b] # InodeBlock[i]
  /\ fresh' = [fresh EXCEPT ![b] = FALSE]
  /\ Unlock(b)
  /\ UNCHANGED <<b_ident, b_count, b_dirt, b_uptodate, free_list, xfer, disk, lost, procVars>>

WriteEnds(b) ==
  /\ b_lock[b] = "WRITE"
  /\ disk' = [disk EXCEPT ![b_ident[b]] = xfer[b]]
  /\ xfer' = [xfer EXCEPT ![b] = FALSE]
  /\ b_uptodate' = [b_uptodate EXCEPT ![b] = TRUE]
  /\ Unlock(b)
  /\ UNCHANGED <<b_ident, b_count, b_dirt, free_list, fresh, lost, procVars>>

Disk(b) == ReadEnds(b) \/ ReadFails(b) \/ WriteEnds(b)

-----------------------------------------------------------------------------
(* What a process does inside a call. *)
Continue(f) ==
  \/ HashHit(f) \/ HashReady(f) \/ SleepForBuffer(f) \/ PickVictim(f)
  \/ VictimReady(f) \/ SyncRun(f) \/ SyncInodes(f) \/ LockInode(f) \/ WriteInode(f)
  \/ Bread(f) \/ Breada(f) \/ AheadNext(f) \/ AheadGot(f) \/ AheadDone(f)
  \/ ReadDone(f) \/ Overwrite(f) \/ Release(f) \/ Brelse(f)

Next ==
  \/ \E f \in Frames : Call(f) \/ Chmod(f) \/ Continue(f) \/ Modify(f)
  \/ \E b \in Buffers : Disk(b)

Spec == Init /\ [][Next]_vars

(* The scheduler runs every runnable process sooner or later and the disk  *)
(* ends every transfer; nothing makes a process ask for blocks.            *)
Fairness ==
  /\ \A f \in Frames : WF_vars(Continue(f))
  /\ \A b \in Buffers : WF_vars(Disk(b))

FairSpec == Spec /\ Fairness

-----------------------------------------------------------------------------
(* Properties.                                                             *)

Labels == {"idle", "repeat", "hash_wait", "sleep", "victim_wait", "sync", "inodes",
           "lock_inode", "got", "read_wait", "ahead", "use", "rel_wait"}

(* The labels at which a frame counts in the b_count of its bh. *)
Holding == {"hash_wait", "got", "read_wait", "use", "rel_wait"}

HeadTypeOK ==
  /\ b_ident \in [Buffers -> Blocks \cup {NoBlock}]
  /\ b_count \in [Buffers -> Int]
  /\ b_dirt \in [Buffers -> BOOLEAN]
  /\ b_uptodate \in [Buffers -> BOOLEAN]
  /\ b_lock \in [Buffers -> {"free", "READ", "WRITE"}]
  /\ free_list \in [Buffers -> Buffers]

DataTypeOK ==
  /\ fresh \in [Buffers -> BOOLEAN]
  /\ xfer \in [Buffers -> BOOLEAN]
  /\ disk \in [Blocks -> BOOLEAN]
  /\ lost \subseteq Blocks

ProcTypeOK ==
  /\ pc \in [Frames -> Labels]
  /\ op \in [Frames -> OpNames \cup {"none"}]
  /\ asked \in [Frames -> Blocks \cup {NoBlock}]
  /\ want \in [Frames -> Blocks \cup {NoBlock}]
  /\ bh \in [Frames -> Buffers \cup {NULL}]
  /\ first \in [Frames -> Buffers \cup {NULL}]
  /\ ahead \in [Frames -> SUBSET Blocks]
  /\ pass \in [Frames -> {1, 2}]
  /\ scan \in [Frames -> Buffers \cup {NULL}]
  /\ i_dirt \in [Inodes -> BOOLEAN] /\ i_lock \in [Inodes -> BOOLEAN]
  /\ cursor \in [Frames -> 1..(NR_INODE + 1)]
  /\ inode \in [Frames -> Inodes \cup {NULL}]

(* Every variable holds a value of its type: the free list holds buffers,  *)
(* a process that names a buffer names a real one.                         *)
TypeOK == HeadTypeOK /\ DataTypeOK /\ ProcTypeOK

(* A block is never in two buffers: getblk looks the block up again after  *)
(* the sleeps in which another process may have brought it in (196).       *)
Coherent ==
  \A b, c \in Buffers : b_ident[b] = b_ident[c] /\ b_ident[b] # NoBlock => b = c

(* The processes that hold b through bh, and as the block breada returns. *)
Holders(b) == {f \in Frames : pc[f] \in Holding /\ bh[f] = b}
Readers(b) == {f \in Frames : first[f] = b}

(* b_count is the number of processes that hold the buffer, through bh or  *)
(* as the block breada will return.  So brelse, which takes one reference  *)
(* off, never meets the free buffer it panics on (215).                    *)
RefCount ==
  \A b \in Buffers : b_count[b] = Cardinality(Holders(b)) + Cardinality(Readers(b))

(* A process that getblk, bread or breada has given a buffer holds, as long*)
(* as it keeps it, the block it asked for and no other.                    *)
HolderKeepsBlock ==
  \A f \in Frames :
    /\ pc[f] = "got" => b_ident[bh[f]] = want[f]
    /\ pc[f] \in {"read_wait", "use", "rel_wait"} => b_ident[bh[f]] = asked[f]
    /\ first[f] # NULL => b_ident[first[f]] = asked[f]

(* What was written to a block is on the disk, or in a dirty buffer, or on *)
(* its way to the disk; only blocks whose new contents a READ replaced     *)
(* (an overwrite leaves b_uptodate clear) are excepted.                    *)
Durable ==
  \A k \in Blocks \ lost :
    \/ disk[k]
    \/ \E b \in Buffers : /\ b_ident[b] = k /\ fresh[b]
                          /\ b_dirt[b] \/ (b_lock[b] = "WRITE" /\ xfer[b])

(* A process that reads or changes a block works on what was last written  *)
(* to it, by whatever process and through whatever buffer.                 *)
UptodateFresh ==
  \A f \in Frames : pc[f] = "use" => fresh[bh[f]] \/ b_ident[bh[f]] \in lost

(* A process sleeps on buffer_wait in the topmost of its frames. *)
Asleep(p) == \E f \in Frames : f[1] = p /\ pc[f] = "sleep"

(* While a process sleeps on buffer_wait some process that is not asleep   *)
(* there holds a buffer, and its brelse will wake the sleeper.             *)
NoLostWakeup ==
  (\E p \in Procs : Asleep(p))
    => \E g \in Frames : /\ ~Asleep(g[1])
                         /\ pc[g] \in Holding \/ first[g] # NULL

(* Frame f waits for the lock of inode i. *)
WaitsForInode(f, i) ==
  /\ i_lock[i]
  /\ \/ pc[f] = "lock_inode" /\ inode[f] = i
     \/ /\ pc[f] = "inodes" /\ cursor[f] = i
        /\ Child(f) \in Frames => pc[Child(f)] = "idle"

(* A process waits for an inode it has locked itself: within its write_inode *)
(* getblk found only dirty buffers, and sync_dev's sync_inodes came to it.   *)
Hangs(p) ==
  \E f, g \in Frames : /\ f[1] = p /\ g[1] = p /\ Depth(g) <= Depth(f)
                       /\ inode[g] # NULL /\ pc[g] # "lock_inode"
                       /\ WaitsForInode(f, inode[g])

(* Once the processes ask for nothing more, either every call ends, so that *)
(* nobody is left asleep on buffer_wait, on a lock or in getblk's loops; or *)
(* some process has hung on an inode of its own.  Nothing else stops them.  *)
CallsEndOrHang ==
  <>[][\A f \in Frames : ~Call(f) /\ ~Chmod(f)]_vars =>
    <>[](\A f \in Frames : pc[f] = "idle") \/ <>[](\E p \in Procs : Hangs(p))
=============================================================================
