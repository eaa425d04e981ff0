------------------------------ MODULE FsAlloc ------------------------------
(***************************************************************************)
(* How the file system hands out and takes back blocks and inodes          *)
(* (fs/bitmap.c), gives a file its blocks (_bmap, fs/inode.c), empties it  *)
(* (fs/truncate.c) and frees it with its last reference (iput).  The       *)
(* operations on names that call these are in Directory.                   *)
(*                                                                         *)
(* The kernel is not preempted: a process runs until it sleeps.  A label   *)
(* of loc[p].pc is a point where p has slept or may have; the labels of    *)
(* Instant are points it passes without sleeping, and while a process is   *)
(* at one of them no other process moves.                                  *)
(*                                                                         *)
(* Inodes and blocks are seen through their caches, which InodeTable and   *)
(* BufferCache model: inode[i] is the one copy of inode i, and the words   *)
(* of a block are the ones in its buffer.  No read fails here.             *)
(***************************************************************************)
EXTENDS Integers, Sequences, FiniteSets, FiniteSetsExt

CONSTANTS Procs,      \* processes
          NINODES,    \* s_ninodes
          NZONES,     \* s_nzones; the zones of data are 1 .. NZONES - 1
          NBITS,      \* bits of the zone bitmap, some of them past the device
          NDIRECT,    \* direct zones of an inode (7)
          POINTERS,   \* zone numbers in an indirect block (512)
          ENTRIES     \* entries of a directory in a block (64)

ASSUME FsAssumption ==
    /\ IsFiniteSet(Procs)
    /\ {NINODES, NZONES, NBITS, NDIRECT, POINTERS, ENTRIES} \subseteq Nat \ {0}
    /\ NZONES <= NBITS + 1

VARIABLES zmap,    \* the bits set in s_zmap
          imap,    \* the bits set in s_imap
          inode,   \* inode[i]: i_count, i_nlinks, i_mode, i_size, i_zone
          word,    \* word[b]: zones of an indirect block, inodes of a directory's
          name,    \* name[b]: the names of a directory's entries
          stuck,   \* blocks whose buffer free_block left counted
          file,    \* file[p]: the inode p has open for writing, or 0
          loc      \* loc[p]: where p is, and its local variables

vars == <<zmap, imap, inode, word, name, stuck, file, loc>>
disk == <<zmap, imap, word, name, stuck>>

Inodes == 1 .. NINODES
Zones == 1 .. NZONES - 1
Junk == NBITS + 1       \* no zone and no inode
IND == NDIRECT          \* the index of the indirect zone in i_zone (7)

Blank == [count |-> 0, nlinks |-> 0, mode |-> "none", size |-> 0,
          zone |-> [k \in 0 .. IND |-> 0]]

\* The routines that are called from several places: back[r] is the label the
\* call of r under way returns to, "idle" if that is out of the kernel.
Routines == {"find", "iget", "create_block", "new_block", "truncate", "iput"}

\* A process outside the kernel.  put and then are the inodes it is giving
\* back; bh, ind and blk the blocks whose buffer it holds.
Idle == [pc |-> "idle", back |-> [r \in Routines |-> "none"], op |-> "none",
         path |-> <<>>, new |-> <<>>, want |-> "", dir |-> 0, ino |-> 0, ref |-> 0,
         put |-> 0, then |-> 0, bh |-> 0, slot |-> 0, blk |-> 0, ind |-> 0, at |-> 0,
         limit |-> 0, f |-> 0, n |-> 0, got |-> 0]

(***************************************************************************)
(* Steps of a process, me being what its local variables become.           *)
(***************************************************************************)
Goto(p, label, me) == loc' = [loc EXCEPT ![p] = [me EXCEPT !.pc = label]]

Call(p, r, label, me) == Goto(p, r, [me EXCEPT !.back[r] = label])

Return(p, r, me) ==
    IF me.back[r] = "idle" THEN loc' = [loc EXCEPT ![p] = Idle]
    ELSE Goto(p, me.back[r], [me EXCEPT !.back[r] = "none"])

Panic(p) == Goto(p, "panic", loc[p])

Instant == {"walk", "resolved", "find", "looked", "step", "old", "oldinode", "opened",
            "unlink", "rmdir", "made", "block", "add", "added", "create_block",
            "new_block", "direct", "indirect", "link", "free_inode"}

At(p, label) ==
    /\ loc[p].pc = label
    /\ \A q \in Procs \ {p} : loc[q].pc \notin Instant

Held(b) == \E q \in Procs : b \in {loc[q].bh, loc[q].ind, loc[q].blk}

(***************************************************************************)
(* Blocks.                                                                 *)
(***************************************************************************)
\* free_block: a block some process holds the buffer of is left alone, its
\* bit set and the buffer counted once more for ever.  A block freed loses
\* its buffer unwritten: what a read would find there is junk.
free_block(p, b, Done) ==
    IF b \notin Zones \/ (~Held(b) /\ b \notin stuck /\ b \notin zmap)
    THEN Panic(p) /\ UNCHANGED <<disk, inode>>
    ELSE /\ Done
         /\ IF Held(b) \/ b \in stuck
            THEN stuck' = stuck \union {b} /\ UNCHANGED <<zmap, word, name>>
            ELSE
              /\ zmap' = zmap \ {b} /\ UNCHANGED stuck
              /\ word' = [word EXCEPT ![b] = [k \in DOMAIN @ |-> Junk]]
              /\ name' = [name EXCEPT ![b] = [k \in DOMAIN @ |-> ""]]
         /\ UNCHANGED imap

\* new_block, up to getblk: the first clear bit is set, and stays set when it
\* is one past the device.
NewBlock(p) ==
    /\ At(p, "new_block")
    /\ LET me == loc[p]
           clear == (1 .. NBITS) \ zmap IN
       IF clear = {} THEN Return(p, "new_block", [me EXCEPT !.got = 0]) /\ UNCHANGED zmap
       ELSE LET j == Min(clear) IN
            /\ zmap' = zmap \union {j}
            /\ IF j >= NZONES THEN Return(p, "new_block", [me EXCEPT !.got = 0])
               ELSE Goto(p, "getblk", [me EXCEPT !.got = j])
    /\ UNCHANGED <<imap, inode, word, name, stuck, file>>

\* The rest of it: nobody else may hold the buffer, which is cleared.
GotBlock(p) ==
    /\ At(p, "getblk")
    /\ UNCHANGED <<inode, file>>
    /\ LET b == loc[p].got IN
       IF Held(b) \/ b \in stuck THEN Panic(p) /\ UNCHANGED disk
       ELSE /\ word' = [word EXCEPT ![b] = [k \in DOMAIN @ |-> 0]]
            /\ name' = [name EXCEPT ![b] = [k \in DOMAIN @ |-> ""]]
            /\ Return(p, "new_block", loc[p])
            /\ UNCHANGED <<zmap, imap, stuck>>

(***************************************************************************)
(* create_block(f, n): the zone of block n of file f, a new one if it has  *)
(* none.  0 in blk says the device is full.  Files of more than            *)
(* NDIRECT + POINTERS blocks are left out.                                 *)
(***************************************************************************)
zoneOf(p, k) == inode[loc[p].f].zone[k]

SetZone(p, k, z) ==
    inode' = [inode EXCEPT ![loc[p].f].zone[k] = z]

CreateBlock(p) ==
    /\ At(p, "create_block")
    /\ LET me == loc[p]
           k == IF me.n < NDIRECT THEN me.n ELSE IND
           z == zoneOf(p, k) IN
       IF z = 0 THEN Call(p, "new_block", IF k = IND THEN "indirect" ELSE "direct", me)
       ELSE IF k = IND THEN Goto(p, "leaf", [me EXCEPT !.ind = z])
       ELSE Return(p, "create_block", [me EXCEPT !.blk = z])
    /\ UNCHANGED <<disk, inode, file>>

DirectZone(p) ==
    /\ At(p, "direct")
    /\ SetZone(p, loc[p].n, loc[p].got)
    /\ Return(p, "create_block", [loc[p] EXCEPT !.blk = loc[p].got])
    /\ UNCHANGED <<disk, file>>

IndirectZone(p) ==
    /\ At(p, "indirect")
    /\ LET me == loc[p] IN
       /\ SetZone(p, IND, me.got)
       /\ IF me.got = 0 THEN Return(p, "create_block", [me EXCEPT !.blk = 0])
          ELSE Goto(p, "leaf", [me EXCEPT !.ind = me.got])
    /\ UNCHANGED <<disk, file>>

\* The indirect block has been read, and is held until the leaf is found.
Leaf(p) ==
    /\ At(p, "leaf")
    /\ LET me == loc[p]
           z == word[me.ind][me.n - NDIRECT] IN
       IF z = 0 THEN Call(p, "new_block", "link", me)
       ELSE Return(p, "create_block", [me EXCEPT !.blk = z, !.ind = 0])
    /\ UNCHANGED <<disk, inode, file>>

LinkLeaf(p) ==
    /\ At(p, "link")
    /\ LET me == loc[p] IN
       /\ word' = IF me.got = 0 THEN word
                  ELSE [word EXCEPT ![me.ind][me.n - NDIRECT] = me.got]
       /\ Return(p, "create_block", [me EXCEPT !.blk = me.got, !.ind = 0])
    /\ UNCHANGED <<zmap, imap, inode, name, stuck, file>>

\* bmap(i, n): the zone of block n of i as it stands, 0 for a hole.
bmap(i, n) ==
    IF n < NDIRECT THEN inode[i].zone[n]
    ELSE IF inode[i].zone[IND] = 0 THEN 0
    ELSE word[inode[i].zone[IND]][n - NDIRECT]

(***************************************************************************)
(* truncate(f): one block freed in a step, for free_block may sleep; the   *)
(* leaves of the indirect block before the indirect block.                 *)
(***************************************************************************)

\* Faulty variant: the zone freed stays in i_zone.
TruncateKeepsZone(p) ==
    /\ At(p, "truncate")
    /\ UNCHANGED file
    /\ LET me == loc[p]
           direct == {k \in me.at .. NDIRECT - 1 : zoneOf(p, k) # 0} IN
       IF direct = {} THEN Return(p, "truncate", me) /\ UNCHANGED <<disk, inode>>
       ELSE free_block(p, zoneOf(p, Min(direct)),
                       /\ Goto(p, "truncate", [me EXCEPT !.at = Min(direct) + 1])
                       /\ UNCHANGED inode)

Truncate(p) ==
    /\ At(p, "truncate")
    /\ UNCHANGED file
    /\ LET me == loc[p]
           direct == {k \in me.at .. NDIRECT - 1 : zoneOf(p, k) # 0} IN
       IF inode[me.f].mode \notin {"reg", "dir"}
       THEN Return(p, "truncate", me) /\ UNCHANGED <<disk, inode>>
       ELSE IF direct # {}
       THEN free_block(p, zoneOf(p, Min(direct)),
                       /\ SetZone(p, Min(direct), 0)
                       /\ Goto(p, "truncate", [me EXCEPT !.at = Min(direct) + 1]))
       ELSE IF zoneOf(p, IND) # 0
       THEN /\ Goto(p, "free_ind", [me EXCEPT !.ind = zoneOf(p, IND), !.at = 0])
            /\ UNCHANGED <<disk, inode>>
       ELSE /\ inode' = [inode EXCEPT ![me.f].size = 0]
            /\ Return(p, "truncate", me)
            /\ UNCHANGED disk

\* Faulty variant: the loop over the leaves starts at 1.
FreeIndFromOne(p) ==
    /\ At(p, "free_ind")
    /\ UNCHANGED file
    /\ LET me == loc[p]
           leaves == {k \in 1 .. POINTERS - 1 : k >= me.at /\ word[me.ind][k] # 0} IN
       IF leaves # {}
       THEN free_block(p, word[me.ind][Min(leaves)],
                       /\ Goto(p, "free_ind", [me EXCEPT !.at = Min(leaves) + 1])
                       /\ UNCHANGED inode)
       ELSE Goto(p, "free_dind", [me EXCEPT !.ind = 0]) /\ UNCHANGED <<disk, inode>>

FreeInd(p) ==
    /\ At(p, "free_ind")
    /\ UNCHANGED file
    /\ LET me == loc[p]
           leaves == {k \in me.at .. POINTERS - 1 : word[me.ind][k] # 0} IN
       IF leaves # {}
       THEN free_block(p, word[me.ind][Min(leaves)],
                       /\ Goto(p, "free_ind", [me EXCEPT !.at = Min(leaves) + 1])
                       /\ UNCHANGED inode)
       ELSE Goto(p, "free_dind", [me EXCEPT !.ind = 0]) /\ UNCHANGED <<disk, inode>>

\* The indirect block itself; then no zone is left (free_dind of 0 returns).
FreeIndBlock(p) ==
    /\ At(p, "free_dind")
    /\ UNCHANGED file
    /\ free_block(p, zoneOf(p, IND),
                  /\ inode' = [inode EXCEPT ![loc[p].f].zone[IND] = 0, ![loc[p].f].size = 0]
                  /\ Return(p, "truncate", loc[p]))

(***************************************************************************)
(* iput of put, and then of then.  The write-back of a dirty inode before  *)
(* the last reference goes is in InodeTable.                               *)
(***************************************************************************)
PutDone(p) ==
    LET me == [loc[p] EXCEPT !.put = loc[p].then, !.then = 0] IN
    IF me.put = 0 THEN Return(p, "iput", me) ELSE Goto(p, "iput", me)

PutLast(p) == Call(p, "truncate", "free_inode", [loc[p] EXCEPT !.f = loc[p].put, !.at = 0])

\* Faulty variant: an inode without links is freed whoever else refers to it.
IputIgnoresOthers(p) ==
    /\ At(p, "iput")
    /\ UNCHANGED <<disk, file>>
    /\ LET i == loc[p].put IN
       IF inode[i].nlinks = 0 THEN PutLast(p) /\ UNCHANGED inode
       ELSE inode' = [inode EXCEPT ![i].count = @ - 1] /\ PutDone(p)

Iput(p) ==
    /\ At(p, "iput")
    /\ UNCHANGED <<disk, file>>
    /\ LET i == loc[p].put IN
       IF i = 0 THEN PutDone(p) /\ UNCHANGED inode
       ELSE IF inode[i].count = 0 THEN Panic(p) /\ UNCHANGED inode
       ELSE IF inode[i].count = 1 /\ inode[i].nlinks = 0 THEN PutLast(p) /\ UNCHANGED inode
       ELSE inode' = [inode EXCEPT ![i].count = @ - 1] /\ PutDone(p)

FreeInode(p) ==
    /\ At(p, "free_inode")
    /\ UNCHANGED <<zmap, word, name, stuck, file>>
    /\ LET i == loc[p].put IN
       IF inode[i].count > 1 \/ inode[i].nlinks # 0 \/ i \notin imap
       THEN Panic(p) /\ UNCHANGED <<imap, inode>>
       ELSE /\ imap' = imap \ {i}
            /\ inode' = [inode EXCEPT ![i] = Blank]
            /\ PutDone(p)

\* new_inode: the first free inode, or none, when the empty inode taken from
\* the table for it goes back.
NewInode(p) ==
    /\ At(p, "new_inode")
    /\ IF Inodes \subseteq imap
       THEN Goto(p, "made", [loc[p] EXCEPT !.ino = 0]) /\ UNCHANGED <<imap, inode>>
       ELSE LET i == Min(Inodes \ imap) IN
            /\ imap' = imap \union {i}
            /\ inode' = [inode EXCEPT ![i] = [Blank EXCEPT !.count = 1, !.nlinks = 1]]
            /\ Goto(p, "made", [loc[p] EXCEPT !.ino = i])
    /\ UNCHANGED <<zmap, word, name, stuck, file>>

AllocStep(p) ==
    \/ NewBlock(p) \/ GotBlock(p) \/ CreateBlock(p) \/ DirectZone(p)
    \/ IndirectZone(p) \/ Leaf(p) \/ LinkLeaf(p) \/ Truncate(p) \/ FreeInd(p)
    \/ FreeIndBlock(p) \/ Iput(p) \/ FreeInode(p) \/ NewInode(p)
=============================================================================
