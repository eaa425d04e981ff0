----------------------------- MODULE InodeTable -----------------------------
(***************************************************************************)
(* The table of in-memory inodes of fs/inode.c, with the inode bitmap part *)
(* of fs/bitmap.c, used by several processes.                              *)
(*                                                                         *)
(* As in module BufferCache, a process runs alone between two places where *)
(* it may sleep: a wait for i_lock, the bread and brelse of read_inode and *)
(* write_inode, get_super, truncate.  A step never spans two of them.      *)
(*                                                                         *)
(* Inodes 1 .. NR_INODE are the places of inode_table; an element of Inos  *)
(* is an inode of a disk, the pair (i_dev, i_num).  All Inos lie in one    *)
(* block of the disk's inode table.                                        *)
(*                                                                         *)
(* sync_inodes is entered from sys_sync and from the sync_dev of iput.  A  *)
(* getblk that has to clean a buffer enters it too: here getblk finds a    *)
(* clean one while its caller is in a call on the table.  Module           *)
(* BufferCache says what happens otherwise.                                *)
(***************************************************************************)
EXTENDS Integers, FiniteSets

CONSTANTS NR_INODE,
          Procs,
          Inos,
          NoIno,        \* i_dev = 0: a free place, or a pipe
          Fds,          \* what each process may hold inodes in
          Ops,          \* what each process does
          Names,        \* the inodes whose names each process looks up
          Removable,    \* those that are unlinked
          Special,      \* block special files
          MountPoint,   \* inode a file system is mounted on, or NoIno
          MountRoot,    \* and the root of that file system, or NoIno
          LastIno       \* the last inode of its block

OpNames == {"iget", "create", "pipe", "modify", "unlink", "sync"}

ASSUME ConstantsAssumption ==
  /\ NR_INODE \in Nat \ {0, 1}
  /\ IsFiniteSet(Procs)
  /\ IsFiniteSet(UNION {Fds[p] : p \in Procs})
  /\ NoIno \notin Inos
  /\ Ops \in [Procs -> SUBSET OpNames]
  /\ Names \in [Procs -> SUBSET Inos]
  /\ Removable \subseteq Inos /\ Special \subseteq Inos
  /\ {MountPoint, MountRoot} \subseteq Inos \/ {MountPoint, MountRoot} = {NoIno}
  /\ MountPoint # NoIno => MountPoint # MountRoot
  /\ {MountPoint, MountRoot} \cap Special = {}
  /\ LastIno \in Inos

Inodes == 1..NR_INODE
NULL == 0

VARIABLES
  i_ident, i_count, i_dirt, i_lock, i_nlinks, i_pipe,   \* of each place
  last_inode,   \* get_empty_inode's static variable
  fresh,        \* does the place hold what was last written to the inode?
  saved,        \* does the inode's block in the buffer cache?
  d_nlinks,     \* the number of links in that block
  used,         \* the bit of the inode bitmap
  entry,        \* does a directory name the inode?
  pc, op,
  want,         \* iget's dev and nr
  ino,          \* the place get_empty_inode, iget or sync_inodes is at
  empty,        \* iget's and new_inode's empty place
  got,          \* the inode about to be returned
  put, back,    \* iput's argument and where it returns to
  wback,        \* where read_inode or write_inode returns to
  cursor,       \* sync_inodes' loop
  file          \* the inodes a process holds

tableVars == <<i_ident, i_count, i_dirt, i_lock, i_nlinks, i_pipe>>
diskVars == <<saved, d_nlinks, used, entry>>
callVars == <<op, want, empty, got, file>>
putVars == <<put, back>>
procVars == <<pc, callVars, ino, putVars, wback, cursor>>
vars == <<tableVars, last_inode, fresh, diskVars, procVars>>

(* One file system may be mounted: its two inodes are kept by the mount. *)
Pinned == IF MountPoint = NoIno THEN {} ELSE {MountPoint, MountRoot}

Init ==
  /\ i_ident = [i \in Inodes |-> IF Pinned = {} THEN NoIno
                                 ELSE IF i = 1 THEN MountPoint
                                 ELSE IF i = 2 THEN MountRoot ELSE NoIno]
  /\ i_count = [i \in Inodes |-> IF i_ident[i] = NoIno THEN 0 ELSE 1]
  /\ i_dirt = [i \in Inodes |-> FALSE]
  /\ i_lock = [i \in Inodes |-> FALSE]
  /\ i_nlinks = i_count
  /\ i_pipe = [i \in Inodes |-> FALSE]
  /\ last_inode = 1
  /\ fresh = [i \in Inodes |-> i_ident[i] # NoIno]
  /\ saved = [k \in Inos |-> TRUE]
  /\ d_nlinks = [k \in Inos |-> 1]
  /\ used = [k \in Inos |-> TRUE]
  /\ entry = [k \in Inos |-> TRUE]
  /\ pc = [p \in Procs |-> "idle"]
  /\ op = [p \in Procs |-> "none"]
  /\ want = [p \in Procs |-> NoIno]
  /\ ino = [p \in Procs |-> NULL]
  /\ empty = [p \in Procs |-> NULL]
  /\ got = [p \in Procs |-> NULL]
  /\ put = [p \in Procs |-> NULL]
  /\ back = [p \in Procs |-> "idle"]
  /\ wback = [p \in Procs |-> "idle"]
  /\ cursor = [p \in Procs |-> 1]
  /\ file = [p \in Procs |-> [f \in Fds[p] |-> NULL]]

Goto(p, label) == pc' = [pc EXCEPT ![p] = label]

(* panic: the machine stops (see Next). *)
Panic(p) == Goto(p, "panic")

Free(p) == {f \in Fds[p] : file[p][f] = NULL}
Held(p) == Fds[p] \ Free(p)

-----------------------------------------------------------------------------
(* What the table is asked for.                                            *)

(* namei has read the inode's number in a directory and calls iget. *)
CallIget(p) ==
  /\ pc[p] = "idle" /\ "iget" \in Ops[p] /\ Free(p) # {}
  /\ \E k \in Names[p] : entry[k] /\ want' = [want EXCEPT ![p] = k]
  /\ op' = [op EXCEPT ![p] = "iget"]
  /\ Goto(p, "empty")
  /\ UNCHANGED <<tableVars, last_inode, fresh, diskVars, ino, empty, got, putVars,
                 wback, cursor, file>>

(* new_inode, or get_pipe_inode: both start with get_empty_inode. *)
CallNew(p) ==
  /\ pc[p] = "idle"
  /\ \E o \in Ops[p] \cap {"create", "pipe"} :
       /\ Cardinality(Free(p)) >= (IF o = "pipe" THEN 2 ELSE 1)
       /\ op' = [op EXCEPT ![p] = o]
  /\ Goto(p, "empty")
  /\ UNCHANGED <<tableVars, last_inode, fresh, diskVars, want, ino, empty, got,
                 putVars, wback, cursor, file>>

CallIput(p) ==
  /\ pc[p] = "idle"
  /\ \E f \in Held(p) : /\ put' = [put EXCEPT ![p] = file[p][f]]
                              /\ file' = [file EXCEPT ![p][f] = NULL]
  /\ Goto(p, "iput")
  /\ UNCHANGED <<tableVars, last_inode, fresh, diskVars, ino, op, want, empty, got, back,
                 wback, cursor>>

(* sys_unlink removes the directory entry and releases its block; *)
CallUnlink(p) ==
  /\ pc[p] = "idle" /\ "unlink" \in Ops[p]
  /\ \E f \in Held(p) : LET i == file[p][f] IN
       /\ i_ident[i] \in Removable /\ entry[i_ident[i]]
       /\ entry' = [entry EXCEPT ![i_ident[i]] = FALSE]
       /\ put' = [put EXCEPT ![p] = i]
       /\ file' = [file EXCEPT ![p][f] = NULL]
  /\ Goto(p, "unlink")
  /\ UNCHANGED <<tableVars, last_inode, fresh, saved, d_nlinks, used, op, want, ino,
                 empty, got, back, wback, cursor>>

(* the inode loses a link, and is put. *)
Unlinked(p) ==
  /\ pc[p] = "unlink"
  /\ i_nlinks' = [i_nlinks EXCEPT ![put[p]] = 0]
  /\ i_dirt' = [i_dirt EXCEPT ![put[p]] = TRUE]
  /\ saved' = [saved EXCEPT ![i_ident[put[p]]] = FALSE]
  /\ Goto(p, "iput")
  /\ UNCHANGED <<i_ident, i_count, i_lock, i_pipe, last_inode, fresh, d_nlinks, used,
                 entry, callVars, ino, putVars, wback, cursor>>

(* A process changes an inode it holds (a write, chmod, utime ...): no lock *)
(* is taken.                                                                *)
Modify(p) ==
  /\ pc[p] = "idle" /\ "modify" \in Ops[p]
  /\ \E f \in Held(p) : LET i == file[p][f] IN
       /\ ~i_pipe[i]
       /\ i_dirt' = [i_dirt EXCEPT ![i] = TRUE]
       /\ saved' = [saved EXCEPT ![i_ident[i]] = FALSE]
       /\ fresh' = [j \in Inodes |-> fresh[j] /\ (j = i \/ i_ident[j] # i_ident[i])]
  /\ UNCHANGED <<i_ident, i_count, i_lock, i_nlinks, i_pipe, last_inode, d_nlinks,
                 used, entry, procVars>>

(* sys_sync; or, with a block of a directory or file to read, the sync_dev *)
(* of a getblk that finds no clean buffer.                                  *)
CallSync(p) ==
  /\ pc[p] = "idle" /\ "sync" \in Ops[p]
  /\ Goto(p, "sync")
  /\ UNCHANGED <<tableVars, last_inode, fresh, diskVars, callVars, ino, putVars, wback,
                 cursor>>

-----------------------------------------------------------------------------
(* read_inode and write_inode.                                             *)

(* write_inode up to its bread; its callers have just found i free. *)
StartWrite(p, i, return) ==
  /\ i_ident[i] # NoIno
  /\ i_lock' = [i_lock EXCEPT ![i] = TRUE]
  /\ wback' = [wback EXCEPT ![p] = return]
  /\ Goto(p, "write")

(* The inode p reads, or writes: in iput its argument. *)
Subject(p) == IF wback[p] = "repeat" THEN put[p] ELSE ino[p]

(* write_inode after its bread.  The place in the block is computed now: of *)
(* a place that was freed meanwhile i_num is 0, which is the last one.      *)
WriteCopy(p) ==
  /\ pc[p] = "write"
  /\ LET i == Subject(p)
         k == IF i_ident[i] = NoIno THEN LastIno ELSE i_ident[i]
     IN /\ saved' = [saved EXCEPT ![k] = fresh[i] /\ i_ident[i] = k]
        /\ d_nlinks' = [d_nlinks EXCEPT ![k] = i_nlinks[i]]
        /\ i_dirt' = [i_dirt EXCEPT ![i] = FALSE]
  /\ Goto(p, "unlock")
  /\ UNCHANGED <<i_ident, i_count, i_lock, i_nlinks, i_pipe, last_inode, fresh, used,
                 entry, callVars, ino, putVars, wback, cursor>>

(* read_inode after its bread. *)
ReadCopy(p) ==
  /\ pc[p] = "read"
  /\ LET i == ino[p] IN
       /\ fresh' = [fresh EXCEPT ![i] = saved[i_ident[i]]]
       /\ i_nlinks' = [i_nlinks EXCEPT ![i] = d_nlinks[i_ident[i]]]
  /\ Goto(p, "unlock")
  /\ UNCHANGED <<i_ident, i_count, i_dirt, i_lock, i_pipe, last_inode, diskVars,
                 callVars, ino, putVars, wback, cursor>>

(* Faulty variants: the inode is marked clean only now; it stays locked. *)
UnlockCleans(p) ==
  /\ pc[p] = "unlock"
  /\ i_lock' = [i_lock EXCEPT ![Subject(p)] = FALSE]
  /\ i_dirt' = [i_dirt EXCEPT ![Subject(p)] = FALSE]
  /\ Goto(p, wback[p])
  /\ UNCHANGED <<i_ident, i_count, i_nlinks, i_pipe, last_inode, fresh, diskVars,
                 callVars, ino, putVars, wback, cursor>>

UnlockForgotten(p) ==
  /\ pc[p] = "unlock"
  /\ Goto(p, wback[p])
  /\ UNCHANGED <<tableVars, last_inode, fresh, diskVars, callVars, ino, putVars, wback,
                 cursor>>

(* unlock_inode, after the brelse. *)
Unlock(p) ==
  /\ pc[p] = "unlock"
  /\ i_lock' = [i_lock EXCEPT ![Subject(p)] = FALSE]
  /\ wback' = [wback EXCEPT ![p] = "idle"]
  /\ Goto(p, wback[p])
  /\ UNCHANGED <<i_ident, i_count, i_dirt, i_nlinks, i_pipe, last_inode, fresh,
                 diskVars, callVars, ino, putVars, cursor>>

(* sync_inodes looks at one place, for sys_sync or for the sync_dev of iput; *)
(* after the last one sys_sync is done, and iput at its label repeat.        *)
SyncInodes(p) ==
  /\ pc[p] \in {"sync", "sync_dev"}
  /\ IF cursor[p] > NR_INODE
     THEN /\ cursor' = [cursor EXCEPT ![p] = 1]
          /\ ino' = [ino EXCEPT ![p] = NULL]
          /\ Goto(p, IF pc[p] = "sync" THEN "idle" ELSE "repeat")
          /\ UNCHANGED <<i_lock, wback>>
     ELSE LET i == cursor[p] IN
          /\ ~i_lock[i]
          /\ cursor' = [cursor EXCEPT ![p] = i + 1]
          /\ IF i_dirt[i] /\ ~i_pipe[i]
             THEN ino' = [ino EXCEPT ![p] = i] /\ StartWrite(p, i, pc[p])
             ELSE UNCHANGED <<pc, i_lock, ino, wback>>
  /\ UNCHANGED <<i_ident, i_count, i_dirt, i_nlinks, i_pipe, last_inode, fresh,
                 diskVars, callVars, putVars>>

-----------------------------------------------------------------------------
(* get_empty_inode.                                                        *)

(* Steps from last_inode to place i in its round of the table. *)
Turn(i) == (i - last_inode - 1) % NR_INODE

(* Where the round ends: at the first unused place that is clean and       *)
(* unlocked, or else, after the whole table, with the last unused one.     *)
Unused == {i \in Inodes : i_count[i] = 0}
Good == {i \in Unused : ~i_dirt[i] /\ ~i_lock[i]}

RoundEnds(i) ==
  IF Good # {} THEN i \in Good /\ \A j \in Good : Turn(i) <= Turn(j)
               ELSE i \in Unused /\ \A j \in Unused : Turn(j) <= Turn(i)

(* Faulty variant: i_dirt is kept. *)
ClearKeepsDirt(i, count, pipe) ==
  /\ i_ident' = [i_ident EXCEPT ![i] = NoIno]
  /\ i_count' = [i_count EXCEPT ![i] = count]
  /\ i_lock' = [i_lock EXCEPT ![i] = FALSE]
  /\ i_nlinks' = [i_nlinks EXCEPT ![i] = 0]
  /\ i_pipe' = [i_pipe EXCEPT ![i] = pipe]
  /\ fresh' = [fresh EXCEPT ![i] = FALSE]
  /\ UNCHANGED i_dirt

(* memset of a place, then the count and the kind it gets. *)
Clear(i, count, pipe) ==
  /\ i_ident' = [i_ident EXCEPT ![i] = NoIno]
  /\ i_count' = [i_count EXCEPT ![i] = count]
  /\ i_dirt' = [i_dirt EXCEPT ![i] = FALSE]
  /\ i_lock' = [i_lock EXCEPT ![i] = FALSE]
  /\ i_nlinks' = [i_nlinks EXCEPT ![i] = 0]
  /\ i_pipe' = [i_pipe EXCEPT ![i] = pipe]
  /\ fresh' = [fresh EXCEPT ![i] = FALSE]

(* get_pipe_inode: both ends of the pipe, if there is a page for it. *)
TakePipe(p, i) ==
  /\ op' = [op EXCEPT ![p] = "none"]
  /\ Goto(p, "idle")
  /\ UNCHANGED empty
  /\ \/ /\ Clear(i, 2, TRUE)
        /\ \E f, g \in Free(p) : f # g /\ file' = [file EXCEPT ![p][f] = i, ![p][g] = i]
     \/ Clear(i, 0, FALSE) /\ UNCHANGED file

(* The place is taken for iget, new_inode or get_pipe_inode. *)
TakeEmpty(p, i) ==
  /\ ino' = [ino EXCEPT ![p] = NULL]
  /\ UNCHANGED wback
  /\ IF op[p] = "pipe" THEN TakePipe(p, i)
     ELSE /\ Clear(i, 1, FALSE)
          /\ empty' = [empty EXCEPT ![p] = i]
          /\ Goto(p, IF op[p] = "iget" THEN "scan" ELSE "new")
          /\ UNCHANGED <<op, file>>

(* get_empty_inode with the place its round has ended with. *)
UseEmpty(p, i) ==
  IF ~i_lock[i] /\ ~i_dirt[i] /\ i_count[i] = 0 THEN TakeEmpty(p, i)
  ELSE /\ ino' = [ino EXCEPT ![p] = i]
       /\ IF i_lock[i] THEN Goto(p, "empty_wait") /\ UNCHANGED <<i_lock, wback>>
          ELSE IF i_dirt[i] THEN StartWrite(p, i, "empty_wait")
          ELSE Goto(p, "empty") /\ UNCHANGED <<i_lock, wback>>
       /\ UNCHANGED <<i_ident, i_count, i_dirt, i_nlinks, i_pipe, fresh, op, empty, file>>

(* get_empty_inode, from its start or after a wait. *)
GetEmpty(p) ==
  /\ pc[p] \in {"empty", "empty_wait"}
  /\ IF pc[p] = "empty" /\ Unused = {}
     THEN /\ Panic(p)
          /\ UNCHANGED <<tableVars, fresh, last_inode, op, ino, wback, empty, file>>
     ELSE \E i \in Inodes :
            /\ IF pc[p] = "empty" THEN RoundEnds(i) ELSE i = ino[p] /\ ~i_lock[i]
            /\ last_inode' = IF pc[p] = "empty" /\ Good # {} THEN i ELSE last_inode
            /\ UseEmpty(p, i)
  /\ UNCHANGED <<diskVars, want, got, putVars, cursor>>

-----------------------------------------------------------------------------
(* iget and new_inode.                                                     *)

(* The inode is not in the table: it is read into the empty place. *)
Install(p) ==
  /\ i_ident' = [i_ident EXCEPT ![empty[p]] = want[p]]
  /\ i_lock' = [i_lock EXCEPT ![empty[p]] = TRUE]
  /\ ino' = [ino EXCEPT ![p] = empty[p]]
  /\ got' = [got EXCEPT ![p] = empty[p]]
  /\ empty' = [empty EXCEPT ![p] = NULL]
  /\ wback' = [wback EXCEPT ![p] = "hit"]
  /\ Goto(p, "read")

(* Faulty variants: the inode is not counted; the empty place is not put    *)
(* back.                                                                    *)
FoundUncounted(p, i) ==
  /\ ino' = [ino EXCEPT ![p] = i]
  /\ got' = [got EXCEPT ![p] = i]
  /\ put' = [put EXCEPT ![p] = empty[p]]
  /\ empty' = [empty EXCEPT ![p] = NULL]
  /\ back' = [back EXCEPT ![p] = "hit"]
  /\ Goto(p, "iput")
  /\ UNCHANGED <<i_ident, i_count, i_lock, wback, want>>

FoundLeaks(p, i) ==
  /\ i_count' = [i_count EXCEPT ![i] = @ + 1]
  /\ ino' = [ino EXCEPT ![p] = i]
  /\ got' = [got EXCEPT ![p] = i]
  /\ empty' = [empty EXCEPT ![p] = NULL]
  /\ Goto(p, "hit")
  /\ UNCHANGED <<i_ident, i_lock, wback, want, putVars>>

(* The inode found is counted; iget goes on to the root of what is mounted *)
(* on it, or puts its empty place back.                                    *)
Found(p, i) ==
  /\ i_count' = [i_count EXCEPT ![i] = @ + 1]
  /\ ino' = [ino EXCEPT ![p] = i]
  /\ IF want[p] = MountPoint
     THEN /\ put' = [put EXCEPT ![p] = i]
          /\ back' = [back EXCEPT ![p] = "scan"]
          /\ want' = [want EXCEPT ![p] = MountRoot]
          /\ UNCHANGED <<got, empty>>
     ELSE /\ got' = [got EXCEPT ![p] = i]
          /\ put' = [put EXCEPT ![p] = empty[p]]
          /\ empty' = [empty EXCEPT ![p] = NULL]
          /\ back' = [back EXCEPT ![p] = "hit"]
          /\ UNCHANGED want
  /\ Goto(p, "iput")
  /\ UNCHANGED <<i_ident, i_lock, wback>>

(* Faulty variants: iget does not wait for the place it has found; it does *)
(* not search again when the place holds another inode after the wait.     *)
ScanNoWait(p) ==
  /\ pc[p] = "scan"
  /\ LET found == {i \in Inodes : i_ident[i] = want[p]}
     IN IF found = {} THEN Install(p) /\ UNCHANGED <<i_count, want, putVars>>
        ELSE \E i \in found : Found(p, i)
  /\ UNCHANGED <<i_dirt, i_nlinks, i_pipe, last_inode, fresh, diskVars, op, cursor, file>>

ScanReadyNoRescan(p) ==
  /\ pc[p] = "scan_wait"
  /\ ~i_lock[ino[p]]
  /\ IF i_ident[ino[p]] = want[p] THEN Found(p, ino[p])
     ELSE Install(p) /\ UNCHANGED <<i_count, want, putVars>>
  /\ UNCHANGED <<i_dirt, i_nlinks, i_pipe, last_inode, fresh, diskVars, op, cursor, file>>

(* iget's search of the table: the first place with the inode. *)
Scan(p) ==
  /\ pc[p] = "scan"
  /\ LET found == {i \in Inodes : i_ident[i] = want[p]}
     IN IF found = {} THEN Install(p) /\ UNCHANGED <<i_count, want, putVars>>
        ELSE \E i \in found :
               /\ \A j \in found : i <= j
               /\ IF i_lock[i]
                  THEN /\ ino' = [ino EXCEPT ![p] = i]
                       /\ Goto(p, "scan_wait")
                       /\ UNCHANGED <<i_ident, i_count, i_lock, want, got, empty, putVars,
                                      wback>>
                  ELSE Found(p, i)
  /\ UNCHANGED <<i_dirt, i_nlinks, i_pipe, last_inode, fresh, diskVars, op, cursor, file>>

(* iget after its wait: the place may hold another inode by now. *)
ScanReady(p) ==
  /\ pc[p] = "scan_wait"
  /\ ~i_lock[ino[p]]
  /\ IF i_ident[ino[p]] = want[p] THEN Found(p, ino[p])
     ELSE Goto(p, "scan") /\ UNCHANGED <<i_ident, i_count, i_lock, want, ino, empty,
                                         got, putVars, wback>>
  /\ UNCHANGED <<i_dirt, i_nlinks, i_pipe, last_inode, fresh, diskVars, op, cursor, file>>

(* new_inode after get_super: a free bit of the bitmap, or the place is put *)
(* back.                                                                    *)
NewInode(p) ==
  /\ pc[p] = "new"
  /\ IF \A k \in Inos : used[k]
     THEN /\ put' = [put EXCEPT ![p] = empty[p]]
          /\ Goto(p, "iput")
          /\ UNCHANGED <<i_ident, i_nlinks, i_dirt, fresh, saved, used, got, back>>
     ELSE /\ \E k \in {j \in Inos : ~used[j]} :
               /\ used' = [used EXCEPT ![k] = TRUE]
               /\ i_ident' = [i_ident EXCEPT ![empty[p]] = k]
               /\ fresh' = [i \in Inodes |-> i = empty[p] \/ (fresh[i] /\ i_ident[i] # k)]
               /\ saved' = [saved EXCEPT ![k] = FALSE]
          /\ i_nlinks' = [i_nlinks EXCEPT ![empty[p]] = 1]
          /\ i_dirt' = [i_dirt EXCEPT ![empty[p]] = TRUE]
          /\ got' = [got EXCEPT ![p] = empty[p]]
          /\ Goto(p, "hit")
          /\ UNCHANGED putVars
  /\ empty' = [empty EXCEPT ![p] = NULL]
  /\ UNCHANGED <<i_count, i_lock, i_pipe, last_inode, d_nlinks, entry, op, want, ino,
                 wback, cursor, file>>

(* iget and new_inode return; the caller of new_inode names the inode. *)
Hit(p) ==
  /\ pc[p] = "hit"
  /\ \E f \in Free(p) : file' = [file EXCEPT ![p][f] = got[p]]
  /\ got' = [got EXCEPT ![p] = NULL]
  /\ entry' = IF op[p] = "create" THEN [entry EXCEPT ![i_ident[got[p]]] = TRUE] ELSE entry
  /\ op' = [op EXCEPT ![p] = "none"]
  /\ want' = [want EXCEPT ![p] = NoIno]
  /\ ino' = [ino EXCEPT ![p] = NULL]
  /\ Goto(p, "idle")
  /\ UNCHANGED <<tableVars, last_inode, fresh, saved, d_nlinks, used, empty, putVars,
                 wback, cursor>>

-----------------------------------------------------------------------------
(* iput and free_inode.                                                    *)

IputReturns(p) ==
  /\ put' = [put EXCEPT ![p] = NULL]
  /\ back' = [back EXCEPT ![p] = "idle"]
  /\ Goto(p, back[p])

Uncount(i) == i_count' = [i_count EXCEPT ![i] = @ - 1]

(* Faulty variant: a dirty inode is left to get_empty_inode. *)
DropDirty(p) ==
  LET i == put[p] IN
  /\ IF i_count[i] = 1 /\ i_nlinks[i] = 0
     THEN Goto(p, "truncate") /\ UNCHANGED <<i_count, putVars, i_lock, wback>>
     ELSE Uncount(i) /\ IputReturns(p) /\ UNCHANGED <<i_lock, wback>>
  /\ UNCHANGED <<i_dirt, i_pipe>>

(* Faulty variant: the last holder frees the inode whatever its links. *)
DropLinked(p) ==
  LET i == put[p] IN
  /\ IF i_count[i] > 1
     THEN Uncount(i) /\ IputReturns(p) /\ UNCHANGED <<i_lock, wback>>
     ELSE Goto(p, "truncate") /\ UNCHANGED <<i_count, putVars, i_lock, wback>>
  /\ UNCHANGED <<i_dirt, i_pipe>>

(* iput from its label repeat to its next wait, or its end. *)
Drop(p) ==
  LET i == put[p] IN
  /\ IF i_count[i] > 1
     THEN Uncount(i) /\ IputReturns(p) /\ UNCHANGED <<i_lock, wback>>
     ELSE IF i_nlinks[i] = 0
     THEN Goto(p, "truncate") /\ UNCHANGED <<i_count, putVars, i_lock, wback>>
     ELSE IF i_dirt[i]
     THEN StartWrite(p, i, "repeat") /\ UNCHANGED <<i_count, putVars>>
     ELSE Uncount(i) /\ IputReturns(p) /\ UNCHANGED <<i_lock, wback>>
  /\ UNCHANGED <<i_dirt, i_pipe>>

(* iput after its first wait. *)
Iput(p) ==
  /\ pc[p] = "iput"
  /\ LET i == put[p] IN
     /\ ~i_lock[i]
     /\ IF i_count[i] = 0
        THEN Panic(p) /\ UNCHANGED <<i_count, i_dirt, i_lock, i_pipe, putVars, wback>>
        ELSE IF i_pipe[i]
        THEN /\ Uncount(i)
             /\ i_pipe' = [i_pipe EXCEPT ![i] = i_count[i] > 1]
             /\ i_dirt' = [i_dirt EXCEPT ![i] = i_dirt[i] /\ i_count[i] > 1]
             /\ IputReturns(p)
             /\ UNCHANGED <<i_lock, wback>>
        ELSE IF i_ident[i] = NoIno
        THEN Uncount(i) /\ IputReturns(p) /\ UNCHANGED <<i_dirt, i_lock, i_pipe, wback>>
        ELSE IF i_ident[i] \in Special
        THEN /\ Goto(p, "sync_dev")
             /\ UNCHANGED <<i_count, i_dirt, i_lock, i_pipe, putVars, wback>>
        ELSE Drop(p)
  /\ UNCHANGED <<i_ident, i_nlinks, last_inode, fresh, diskVars, callVars, ino, cursor>>

(* iput after a later wait: at label repeat again. *)
Repeat(p) ==
  /\ pc[p] = "repeat"
  /\ ~i_lock[put[p]]
  /\ Drop(p)
  /\ UNCHANGED <<i_ident, i_nlinks, last_inode, fresh, diskVars, callVars, ino, cursor>>

(* truncate has ended; free_inode.  Its memset clears the lock too. *)
FreeInode(p) ==
  /\ pc[p] = "truncate"
  /\ LET i == put[p] IN
       IF i_count[i] > 1 \/ i_nlinks[i] # 0 \/ ~used[i_ident[i]]
       THEN Panic(p) /\ UNCHANGED <<tableVars, fresh, used, putVars>>
       ELSE /\ used' = [used EXCEPT ![i_ident[i]] = FALSE]
            /\ Clear(i, 0, FALSE)
            /\ IputReturns(p)
  /\ UNCHANGED <<last_inode, saved, d_nlinks, entry, callVars, ino, wback, cursor>>

-----------------------------------------------------------------------------
Continue(p) ==
  \/ Unlinked(p) \/ WriteCopy(p) \/ ReadCopy(p) \/ Unlock(p) \/ SyncInodes(p)
  \/ GetEmpty(p) \/ Scan(p) \/ ScanReady(p) \/ NewInode(p) \/ Hit(p)
  \/ Iput(p) \/ Repeat(p) \/ FreeInode(p)

Call(p) ==
  CallIget(p) \/ CallNew(p) \/ CallIput(p) \/ CallUnlink(p) \/ CallSync(p)

(* The system after a panic stops. *)
Running == \A p \in Procs : pc[p] # "panic"

Next == Running /\ \E p \in Procs : Call(p) \/ Modify(p) \/ Continue(p)

Spec == Init /\ [][Next]_vars

(* A runnable process is run sooner or later and every read ends. *)
FairSpec == Spec /\ \A p \in Procs : WF_vars(Running /\ Continue(p))

-----------------------------------------------------------------------------
(* Properties.                                                             *)

Labels == {"idle", "empty", "empty_wait", "write", "unlock", "sync", "sync_dev", "scan",
           "scan_wait", "read", "new", "hit", "unlink", "iput", "repeat", "truncate",
           "panic"}

(* Every variable holds a value of its type: only a place with an identity *)
(* is dirty (write_inode would return at once from a dirty place without   *)
(* device, and get_empty_inode would call it for ever), a pipe has none.   *)
TypeOK ==
  /\ i_ident \in [Inodes -> Inos \cup {NoIno}]
  /\ i_count \in [Inodes -> Nat]
  /\ i_dirt \in [Inodes -> BOOLEAN] /\ i_lock \in [Inodes -> BOOLEAN]
  /\ i_nlinks \in [Inodes -> {0, 1}] /\ i_pipe \in [Inodes -> BOOLEAN]
  /\ last_inode \in Inodes
  /\ fresh \in [Inodes -> BOOLEAN]
  /\ saved \in [Inos -> BOOLEAN] /\ d_nlinks \in [Inos -> {0, 1}]
  /\ used \in [Inos -> BOOLEAN] /\ entry \in [Inos -> BOOLEAN]
  /\ pc \in [Procs -> Labels] /\ op \in [Procs -> OpNames \cup {"none"}]
  /\ want \in [Procs -> Inos \cup {NoIno}]
  /\ ino \in [Procs -> Inodes \cup {NULL}] /\ empty \in [Procs -> Inodes \cup {NULL}]
  /\ got \in [Procs -> Inodes \cup {NULL}] /\ put \in [Procs -> Inodes \cup {NULL}]
  /\ back \in [Procs -> {"idle", "scan", "hit"}]
  /\ wback \in [Procs -> {"idle", "empty_wait", "repeat", "sync", "sync_dev", "hit"}]
  /\ cursor \in [Procs -> 1..(NR_INODE + 1)]
  /\ \A p \in Procs : file[p] \in [Fds[p] -> Inodes \cup {NULL}]
  /\ \A i \in Inodes : /\ i_dirt[i] => i_ident[i] # NoIno
                       /\ i_pipe[i] => i_ident[i] = NoIno /\ i_count[i] > 0

(* An inode of the disk is in one place of the table at most: iget searches *)
(* again after each wait, and sleeps no more between its search and the     *)
(* moment the empty place gets its identity (211 to 259).                   *)
UniqueInode ==
  \A i, j \in Inodes : i_ident[i] = i_ident[j] /\ i_ident[i] # NoIno => i = j

(* Where a process refers to a place: its files, and while a call is under *)
(* way the empty place, the inode to return and iput's argument.           *)
References ==
  (UNION {[kind : {"file"}, by : {p}, fd : Fds[p]] : p \in Procs})
  \cup [kind : {"empty", "got", "put"}, by : Procs, fd : {0}]

Place(r) ==
  CASE r.kind = "file" -> file[r.by][r.fd]
    [] r.kind = "empty" -> empty[r.by]
    [] r.kind = "got" -> got[r.by]
    [] r.kind = "put" -> put[r.by]

(* i_count is the number of references to a place and that of a mount.     *)
RefCount ==
  \A i \in Inodes :
    i_count[i] = Cardinality({r \in References : Place(r) = i})
                 + (IF i_ident[i] \in Pinned THEN 1 ELSE 0)

(* What was last written to an inode is in the buffer cache, or in a dirty *)
(* place of the table.                                                     *)
NoUpdateLost ==
  \A k \in Inos : used[k] =>
    saved[k] \/ \E i \in Inodes : i_ident[i] = k /\ fresh[i] /\ i_dirt[i]

(* A process that holds an inode sees what was last written to it. *)
HolderSeesLast ==
  \A p \in Procs : \A f \in Held(p) :
    LET i == file[p][f] IN i_pipe[i] \/ (i_ident[i] # NoIno /\ fresh[i])

(* A place nobody uses is clean, unlocked and no pipe: iput writes an inode *)
(* before it gives its last reference up, and waits for whoever writes it.  *)
(* So get_empty_inode does not sleep, and iget's search follows its start   *)
(* at once.                                                                 *)
UnusedIsClean ==
  \A i \in Inodes : i_count[i] = 0 => ~i_dirt[i] /\ ~i_lock[i] /\ ~i_pipe[i]

(* iget is looking for an inode: its search may end by reading it. *)
Seeks(p) ==
  \/ pc[p] \in {"scan", "scan_wait"} \/ back[p] = "scan"
  \/ pc[p] \in {"empty", "empty_wait"} /\ op[p] = "iget"

(* An inode is freed alone: while iput truncates and frees it, no iget is   *)
(* looking for it (its entry was found before the unlink) and sync_inodes   *)
(* is not writing it (free_inode's memset takes the lock away).  The code   *)
(* relies on it and nothing in it sees to it (see InodeTableRace.cfg).      *)
FreedAlone ==
  \A p \in Procs : pc[p] = "truncate" =>
    /\ ~i_lock[put[p]]
    /\ \A q \in Procs : Seeks(q) => want[q] # i_ident[put[p]]

(* No panic: iput is not given a free inode (iput: tentative de liberer un  *)
(* inode deja libre), free_inode no inode that others use (tentative de     *)
(* liberer un inode de compteur ...) or that was freed already, and the     *)
(* table never runs out of places.                                          *)
NeverPanics == Running

(* Once the processes call no more, every call ends, the sync_inodes of a   *)
(* closed block special file included, which waits for each inode.  A       *)
(* getblk under a locked inode finds a clean buffer here.                   *)
CallsEnd ==
  <>[][\A p \in Procs : ~Call(p)]_vars => <>[](\A p \in Procs : pc[p] = "idle")
=============================================================================
