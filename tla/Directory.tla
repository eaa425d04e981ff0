----------------------------- MODULE Directory -----------------------------
(***************************************************************************)
(* The calls that work on names (fs/namei.c): open with O_CREAT|O_EXCL and *)
(* with O_TRUNC, mknod, mkdir, rmdir, unlink and link, from the walk down  *)
(* the path to the last iput, with the write and the close of a file.      *)
(* They run over the allocation of FsAlloc, a step from one sleep to the   *)
(* next.  Every process is the superuser, its root and its working         *)
(* directory are the root inode, and the file system is mounted alone.     *)
(***************************************************************************)
EXTENDS FsAlloc

CONSTANTS Scenarios,  \* the calls each process makes, records of op, and of path
                      \* and new, or of n, the block of the file that is written:
                      \* a set of functions from Procs, one for a behaviour
          Stored,     \* Stored[n]: the name add_entry leaves for name n
          Image       \* the file system at mount: its inodes, words and names

VARIABLE calls        \* the scenario

Root == 1             \* ROOT_INO
Pins == 2             \* current->root and current->pwd, one root for everyone

\* What is mounted: inodes of the device, the root allocated, and nothing open
\* but the root.
ASSUME ImageAssumption ==
    /\ Image.inode \in [Inodes -> [count : Nat, nlinks : Nat, mode : {"none", "reg", "dir"},
                                   size : Nat, zone : [0 .. IND -> Nat]]]
    /\ \A i \in Inodes : Image.inode[i].count = IF i = Root THEN Pins ELSE 0
    /\ Root \in Image.imap /\ Image.imap \subseteq Inodes

Init ==
    /\ inode = Image.inode
    /\ word = Image.word
    /\ name = Image.name
    /\ zmap = Image.zmap
    /\ imap = Image.imap
    /\ stuck = {}
    /\ file = [p \in Procs |-> 0]
    /\ loc = [p \in Procs |-> Idle]
    /\ calls \in Scenarios

(***************************************************************************)
(* Entries.  Slot s of directory d is cell s % ENTRIES of its block        *)
(* s \div ENTRIES.                                                         *)
(***************************************************************************)
cell(s) == s % ENTRIES
NextBlock(s) == ENTRIES * (s \div ENTRIES + 1)
ToEnd(s, limit) == s .. Min({limit, NextBlock(s)}) - 1

\* permission: a directory that lost its last link grants nothing; the mode
\* bits never stop the superuser.
permission(i) == inode[i].nlinks # 0
IsDir(i) == inode[i].mode = "dir"

\* The way out of a call: its references are put back, i before j, and bh is
\* the buffer it keeps until then.
Exit(p, i, j, bh) ==
    Call(p, "iput", "idle",
         IF i # 0 THEN [Idle EXCEPT !.put = i, !.then = j, !.bh = bh]
         ELSE [Idle EXCEPT !.put = j, !.bh = bh])

\* The directory is put back in the middle of a call.
PutDir(p, label, me) ==
    Call(p, "iput", label, [me EXCEPT !.put = me.dir, !.dir = 0, !.bh = 0])

(***************************************************************************)
(* get_dir and dir_namei: down path to the directory of its last name.     *)
(***************************************************************************)
Start(p) ==
    /\ At(p, "idle")
    /\ \E c \in calls[p] :
          \/ /\ c.op \notin {"write", "close"}
             /\ c.op \in {"create", "trunc"} => file[p] = 0
             /\ inode' = [inode EXCEPT ![Root].count = @ + 1]
             /\ Goto(p, "walk", [Idle EXCEPT !.op = c.op, !.path = c.path, !.new = c.new,
                                             !.dir = Root])
             /\ UNCHANGED file
          \/ /\ c.op = "write" /\ file[p] # 0
             /\ Call(p, "create_block", "idle", [Idle EXCEPT !.f = file[p], !.n = c.n])
             /\ UNCHANGED <<inode, file>>
          \/ /\ c.op = "close" /\ file[p] # 0
             /\ file' = [file EXCEPT ![p] = 0]
             /\ Exit(p, file[p], 0, 0)
             /\ UNCHANGED inode
    /\ UNCHANGED disk

Walk(p) ==
    /\ At(p, "walk")
    /\ LET me == loc[p]
           next == [me EXCEPT !.want = me.path[1]] IN
       IF ~IsDir(me.dir) \/ ~permission(me.dir) THEN Exit(p, me.dir, me.ino, 0)
       ELSE IF Len(me.path) = 1 THEN Goto(p, "resolved", next)
       ELSE Call(p, "find", "step", next)
    /\ UNCHANGED <<disk, inode, file>>

\* One name of the path has been looked up: the directory is given back and
\* the inode the entry named is fetched.
StepDown(p) ==
    /\ At(p, "step")
    /\ LET me == loc[p] IN
       IF me.ref = 0 THEN Exit(p, me.dir, me.ino, 0)
       ELSE PutDir(p, "iget_dir", [me EXCEPT !.path = Tail(me.path)])
    /\ UNCHANGED <<disk, inode, file>>

\* iget, once the inode is in the table and read.
Iget(p) ==
    LET me == loc[p] IN
    /\ \/ At(p, "iget_dir") /\ Goto(p, "walk", [me EXCEPT !.dir = me.ref, !.ref = 0])
       \/ At(p, "iget") /\ Return(p, "iget", [me EXCEPT !.ino = me.ref, !.ref = 0])
    /\ inode' = [inode EXCEPT ![me.ref].count = @ + 1]
    /\ UNCHANGED <<disk, file>>

(***************************************************************************)
(* find_entry: the buffer and slot of the entry named want, and the inode  *)
(* it held when it was found, in ref.                                      *)
(***************************************************************************)
Find(p) ==
    /\ At(p, "find")
    /\ LET me == loc[p]
           first == inode[me.dir].zone[0] IN
       IF me.want = "" \/ first = 0 THEN Return(p, "find", [me EXCEPT !.bh = 0, !.ref = 0])
       ELSE Goto(p, "scan",
                 [me EXCEPT !.blk = first, !.at = 0, !.limit = inode[me.dir].size,
                            !.want = IF @ = ".." /\ me.dir = Root THEN "." ELSE @])
    /\ UNCHANGED <<disk, inode, file>>

NotFound(me) == [me EXCEPT !.blk = 0, !.bh = 0, !.ref = 0, !.at = 0, !.limit = 0]

\* Block blk has been read; slots at and after are looked at.
Scan(p) ==
    /\ At(p, "scan")
    /\ LET me == loc[p]
           hits == {s \in ToEnd(me.at, me.limit) :
                       /\ word[me.blk][cell(s)] # 0
                       /\ name[me.blk][cell(s)] = me.want} IN
       IF hits # {}
       THEN Return(p, "find", [NotFound(me) EXCEPT !.bh = me.blk, !.slot = Min(hits),
                                                   !.ref = word[me.blk][cell(Min(hits))]])
       ELSE IF NextBlock(me.at) < me.limit
       THEN Goto(p, "bmap", [me EXCEPT !.at = NextBlock(@), !.blk = 0])
       ELSE Return(p, "find", NotFound(me))
    /\ UNCHANGED <<disk, inode, file>>

\* bmap of the next block, which may read the indirect block.  No directory made
\* here has a hole; past one, find_entry would go on with no buffer (bh = NULL).
NextToScan(p) ==
    /\ At(p, "bmap")
    /\ LET me == loc[p]
           z == bmap(me.dir, me.at \div ENTRIES) IN
       IF z # 0 THEN Goto(p, "scan", [me EXCEPT !.blk = z])
       ELSE IF NextBlock(me.at) < me.limit THEN Goto(p, "bmap", [me EXCEPT !.at = NextBlock(@)])
       ELSE Return(p, "find", NotFound(me))
    /\ UNCHANGED <<disk, inode, file>>

(***************************************************************************)
(* add_entry: the first slot without an inode, in a new block if all are   *)
(* taken, gets the name; bh = 0 when there is none.                        *)
(***************************************************************************)
AddEntry(p) ==
    /\ At(p, "add")
    /\ LET me == loc[p] IN
       Goto(p, "slot", [me EXCEPT !.at = 0, !.blk = IF me.want = "" THEN 0
                                                    ELSE inode[me.dir].zone[0]])
    /\ UNCHANGED <<disk, inode, file>>

\* Block blk has been read; create_block said 0 when there was none to get.
Slot(p) ==
    /\ At(p, "slot")
    /\ UNCHANGED <<zmap, imap, stuck, file>>
    /\ LET me == loc[p]
           d == me.dir
           next == NextBlock(me.at)
           empty == {s \in me.at .. next - 1 :
                        s >= inode[d].size \/ word[me.blk][cell(s)] = 0}
           s == Min(empty) IN
       IF me.blk = 0 THEN Goto(p, "added", NotFound(me)) /\ UNCHANGED <<inode, word, name>>
       ELSE IF empty = {}
       THEN /\ Call(p, "create_block", "slot",
                    [me EXCEPT !.blk = 0, !.at = next, !.f = d, !.n = next \div ENTRIES])
            /\ UNCHANGED <<inode, word, name>>
       ELSE /\ name' = [name EXCEPT ![me.blk][cell(s)] = Stored[me.want]]
            /\ IF s >= inode[d].size
               THEN /\ word' = [word EXCEPT ![me.blk][cell(s)] = 0]
                    /\ inode' = [inode EXCEPT ![d].size = s + 1]
               ELSE UNCHANGED <<word, inode>>
            /\ Goto(p, "added", [NotFound(me) EXCEPT !.bh = me.blk, !.slot = s])

SetEntry(p, i) == word' = [word EXCEPT ![loc[p].bh][cell(loc[p].slot)] = i]

(***************************************************************************)
(* The calls, from the directory on: which of them ask for the right to    *)
(* write it before the name is looked up.                                  *)
(***************************************************************************)
Resolved(p) ==
    /\ At(p, "resolved")
    /\ LET me == loc[p]
           opens == me.op \in {"create", "trunc"}
           old == me.op = "link" /\ me.ino = 0 IN
       IF ~old /\ (me.want = "" \/ (~opens /\ ~permission(me.dir)))
       THEN Exit(p, me.dir, me.ino, 0)
       ELSE Call(p, "find", IF old THEN "old" ELSE "looked", me)
    /\ UNCHANGED <<disk, inode, file>>

\* link: namei(oldname) ends, and dir_namei(newname) starts.
Old(p) ==
    /\ At(p, "old")
    /\ LET me == loc[p] IN
       IF me.ref = 0 THEN Exit(p, me.dir, me.ino, 0)
       ELSE PutDir(p, "iget", [me EXCEPT !.back["iget"] = "oldinode"])
    /\ UNCHANGED <<disk, inode, file>>

OldInode(p) ==
    /\ At(p, "oldinode")
    /\ LET me == loc[p] IN
       IF IsDir(me.ino) THEN Exit(p, me.dir, me.ino, 0) /\ UNCHANGED inode
       ELSE /\ inode' = [inode EXCEPT ![Root].count = @ + 1]
            /\ Goto(p, "walk", [me EXCEPT !.dir = Root, !.path = me.new, !.new = <<>>])
    /\ UNCHANGED <<disk, file>>

\* The name has been looked up in the directory.
Looked(p) ==
    /\ At(p, "looked")
    /\ LET me == loc[p]
           found == me.ref # 0 IN
       CASE ~found /\ (me.op \in {"mknod", "mkdir"} \/ (me.op = "create" /\ permission(me.dir))) ->
              Goto(p, "new_inode", me)
         [] ~found /\ me.op = "link" -> Goto(p, "add", me)
         [] found /\ me.op = "trunc" -> PutDir(p, "iget", [me EXCEPT !.back["iget"] = "opened"])
         [] found /\ me.op \in {"unlink", "rmdir"} -> Call(p, "iget", me.op, me)
         [] OTHER -> Exit(p, me.dir, me.ino, 0)
    /\ UNCHANGED <<disk, inode, file>>

\* The new inode is there or not; mkdir gets a block for its entries.  A node
\* made by mknod is a regular file, as one of a device holds no block.
Made(p) ==
    /\ At(p, "made")
    /\ LET me == loc[p] IN
       IF me.ino = 0 THEN Exit(p, me.dir, 0, 0) /\ UNCHANGED inode
       ELSE IF me.op = "mkdir"
       THEN /\ inode' = [inode EXCEPT ![me.ino].size = 2]
            /\ Call(p, "new_block", "block", me)
       ELSE /\ inode' = [inode EXCEPT ![me.ino].mode = "reg"]
            /\ Goto(p, "add", me)
    /\ UNCHANGED <<disk, file>>

MkdirBlock(p) ==
    /\ At(p, "block")
    /\ LET me == loc[p] IN
       IF me.got = 0
       THEN /\ inode' = [inode EXCEPT ![me.ino].nlinks = @ - 1]
            /\ Exit(p, me.dir, me.ino, 0)
       ELSE /\ inode' = [inode EXCEPT ![me.ino].zone[0] = me.got]
            /\ Goto(p, "dots", [me EXCEPT !.blk = me.got])
    /\ UNCHANGED <<disk, file>>

\* The block has been read: "." and "..", and a directory.
MkdirDots(p) ==
    /\ At(p, "dots")
    /\ LET me == loc[p]
           b == me.blk IN
       /\ word' = [word EXCEPT ![b][0] = me.ino, ![b][1] = me.dir]
       /\ name' = [name EXCEPT ![b][0] = ".", ![b][1] = ".."]
       /\ inode' = [inode EXCEPT ![me.ino].nlinks = 2, ![me.ino].mode = "dir"]
       /\ Goto(p, "add", [me EXCEPT !.blk = 0])
    /\ UNCHANGED <<zmap, imap, stuck, file>>

\* add_entry is back with a slot: the entry gets its inode.
Added(p) ==
    /\ At(p, "added")
    /\ loc[p].bh # 0
    /\ SetEntry(p, loc[p].ino)
    /\ LET me == loc[p] IN
       \/ /\ me.op = "create"
          /\ file' = [file EXCEPT ![p] = me.ino]
          /\ Exit(p, me.dir, 0, 0)
          /\ UNCHANGED inode
       \/ /\ me.op \in {"mknod", "mkdir"}
          /\ inode' = IF me.op = "mknod" THEN inode
                      ELSE [inode EXCEPT ![me.dir].nlinks = @ + 1]
          /\ Exit(p, me.dir, me.ino, me.bh)
          /\ UNCHANGED file
       \/ /\ me.op = "link"
          /\ PutDir(p, "relink", me)
          /\ UNCHANGED <<inode, file>>
    /\ UNCHANGED <<zmap, imap, name, stuck>>

\* Faulty variant: link gives only the directory back when there is no slot.
NotAddedKeepsOld(p) ==
    /\ At(p, "added")
    /\ loc[p].bh = 0 /\ loc[p].op = "link"
    /\ Exit(p, loc[p].dir, 0, 0)
    /\ UNCHANGED <<disk, inode, file>>

\* No slot, for want of a block: the call undoes what it did.
NotAdded(p) ==
    /\ At(p, "added")
    /\ loc[p].bh = 0
    /\ LET me == loc[p] IN
       \/ /\ me.op = "create"
          /\ inode' = [inode EXCEPT ![me.ino].nlinks = @ - 1]
          /\ Exit(p, me.ino, me.dir, 0)
       \/ /\ me.op \in {"mknod", "mkdir"}
          /\ PutDir(p, "undo", me)
          /\ UNCHANGED inode
       \/ /\ me.op = "link"
          /\ Exit(p, me.dir, me.ino, 0)
          /\ UNCHANGED inode
    /\ UNCHANGED <<disk, file>>

\* mkdir frees the block here and leaves it in i_zone[0] for iput.
Undo(p) ==
    /\ At(p, "undo")
    /\ UNCHANGED file
    /\ LET i == loc[p].ino
           Drop == inode' = [inode EXCEPT ![i].nlinks = 0] /\ Exit(p, i, 0, 0) IN
       IF loc[p].op = "mkdir" THEN free_block(p, inode[i].zone[0], Drop)
       ELSE Drop /\ UNCHANGED disk

Relink(p) ==
    /\ At(p, "relink")
    /\ inode' = [inode EXCEPT ![loc[p].ino].nlinks = @ + 1]
    /\ Exit(p, loc[p].ino, 0, 0)
    /\ UNCHANGED <<disk, file>>

\* unlink, with the inode of the entry: nothing checks the entry again.
Unlink(p) ==
    /\ At(p, "unlink")
    /\ LET me == loc[p] IN
       IF IsDir(me.ino)
       THEN Exit(p, me.ino, me.dir, me.bh) /\ UNCHANGED <<word, inode>>
       ELSE /\ SetEntry(p, 0)
            /\ inode' = [inode EXCEPT ![me.ino].nlinks = IF @ = 0 THEN 1 ELSE @]
            /\ Goto(p, "unlinked", me)
    /\ UNCHANGED <<zmap, imap, name, stuck, file>>

\* The buffer of the entry, got before iget, may have been locked: brelse sleeps.
Unlinked(p) ==
    /\ At(p, "unlinked")
    /\ inode' = [inode EXCEPT ![loc[p].ino].nlinks = @ - 1]
    /\ Exit(p, loc[p].ino, loc[p].dir, 0)
    /\ UNCHANGED <<disk, file>>

\* rmdir: refused while another reference to the directory is counted.
Rmdir(p) ==
    /\ At(p, "rmdir")
    /\ LET me == loc[p]
           i == me.ino IN
       IF inode[i].count > 1 THEN Exit(p, me.dir, i, me.bh)
       ELSE IF i = me.dir \/ ~IsDir(i) THEN Exit(p, i, me.dir, me.bh)
       ELSE Goto(p, "empty_dir", [me EXCEPT !.blk = inode[i].zone[0], !.at = 2])
    /\ UNCHANGED <<disk, inode, file>>

\* empty_dir, a block read in each step, and the entry cleared when it is.  That
\* the directory starts with "." and ".." is so of every one made here.
EmptyDir(p) ==
    /\ At(p, "empty_dir")
    /\ LET me == loc[p]
           i == me.ino
           limit == inode[i].size
           used == {s \in ToEnd(me.at, limit) :
                       me.blk # 0 /\ word[me.blk][cell(s)] # 0}
           next == NextBlock(me.at) IN
       IF used # {}
       THEN Exit(p, i, me.dir, me.bh) /\ UNCHANGED <<word, inode>>
       ELSE IF next < limit
       THEN /\ Goto(p, "empty_dir", [me EXCEPT !.blk = bmap(i, next \div ENTRIES), !.at = next])
            /\ UNCHANGED <<word, inode>>
       ELSE /\ SetEntry(p, 0)
            /\ Goto(p, "removed", [me EXCEPT !.blk = 0])
            /\ UNCHANGED inode
    /\ UNCHANGED <<zmap, imap, name, stuck, file>>

\* Faulty variant: the directory keeps the link of the ".." that went.
RemovedKeepsLink(p) ==
    /\ At(p, "removed")
    /\ inode' = [inode EXCEPT ![loc[p].ino].nlinks = 0]
    /\ Exit(p, loc[p].dir, loc[p].ino, 0)
    /\ UNCHANGED <<disk, file>>

\* rmdir after its brelse, which may sleep as unlink's does.
Removed(p) ==
    /\ At(p, "removed")
    /\ LET me == loc[p] IN
       /\ inode' = [inode EXCEPT ![me.ino].nlinks = 0, ![me.dir].nlinks = @ - 1]
       /\ Exit(p, me.dir, me.ino, 0)
    /\ UNCHANGED <<disk, file>>

\* open of a name that exists, with O_TRUNC.
Opened(p) ==
    /\ At(p, "opened")
    /\ LET me == loc[p] IN
       IF IsDir(me.ino) \/ ~permission(me.ino) THEN Exit(p, me.ino, 0, 0)
       ELSE Call(p, "truncate", "opened_fd", [me EXCEPT !.f = me.ino, !.at = 0])
    /\ UNCHANGED <<disk, inode, file>>

OpenedFd(p) ==
    /\ At(p, "opened_fd")
    /\ file' = [file EXCEPT ![p] = loc[p].ino]
    /\ loc' = [loc EXCEPT ![p] = Idle]
    /\ UNCHANGED <<disk, inode>>

Step(p) ==
    \/ Start(p) \/ Walk(p) \/ StepDown(p) \/ Iget(p) \/ Find(p) \/ Scan(p)
    \/ NextToScan(p) \/ AddEntry(p) \/ Slot(p) \/ Resolved(p) \/ Old(p)
    \/ OldInode(p) \/ Looked(p) \/ Made(p) \/ MkdirBlock(p) \/ MkdirDots(p)
    \/ Added(p) \/ NotAdded(p) \/ Undo(p) \/ Relink(p) \/ Unlink(p) \/ Unlinked(p)
    \/ Rmdir(p) \/ EmptyDir(p) \/ Removed(p) \/ Opened(p) \/ OpenedFd(p) \/ AllocStep(p)

Next == UNCHANGED calls /\ \E p \in Procs : Step(p)

Spec == Init /\ [][Next]_<<vars, calls>>

(***************************************************************************)
(* What must hold.                                                         *)
(***************************************************************************)
\* The entries of live directories: directory, slot, and the inode named.
Entries ==
    LET dirs == {d \in Inodes : IsDir(d) /\ permission(d)}
        slots == UNION {{d} \X (0 .. inode[d].size - 1) : d \in dirs}
        target(e) == LET b == bmap(e[1], e[2] \div ENTRIES) IN
                     IF b = 0 THEN 0 ELSE word[b][cell(e[2])]
    IN  {<<e[1], e[2], target(e)>> : e \in slots}

\* Links counted before their entry is written or after it has been cleared,
\* and entries written before they are counted.
Making(p) == loc[p].op \in {"create", "mknod", "mkdir"} /\ loc[p].ino # 0
Relinking(p) == "relink" \in {loc[p].pc, loc[p].back["iput"]}
Clearing(p) == loc[p].pc \in {"unlinked", "removed"}
Ahead(i) == {p \in Procs : (Making(p) \/ Clearing(p)) /\ loc[p].ino = i}
Behind(i) ==
    {p \in Procs :
        \/ Making(p) /\ loc[p].dir = i /\ IsDir(loc[p].ino)
        \/ Relinking(p) /\ loc[p].ino = i}

\* i_nlinks is the number of entries that name the inode, once the calls on
\* their way are allowed for: a link too many is a file never freed, a link
\* too few a file freed under an entry.  (i_nlinks in namei.c)
LinksMatch ==
    LET entries == Entries IN
    \A i \in Inodes :
        inode[i].nlinks + Cardinality(Behind(i))
            = Cardinality({e \in entries : e[3] = i}) + Cardinality(Ahead(i))

\* i_count is the number of references held, root and working directory
\* included, whichever way each call leaves: the open files, and what the
\* calls have or have yet to put back.  (the iputs of namei.c)
CountsMatch ==
    \A i \in Inodes :
        inode[i].count = Cardinality({p \in Procs : file[p] = i})
                             + Cardinality({p \in Procs : loc[p].dir = i})
                             + Cardinality({p \in Procs : loc[p].ino = i})
                             + Cardinality({p \in Procs : loc[p].put = i})
                             + Cardinality({p \in Procs : loc[p].then = i})
                             + (IF i = Root THEN Pins ELSE 0)

\* The places a zone number is kept: i_zone and the leaves of the indirect
\* block, but for the leaves a truncation has freed and not erased.
Freed(i, k) ==
    \E p \in Procs :
        /\ loc[p].f = i
        /\ (loc[p].pc = "free_ind" /\ k < loc[p].at) \/ loc[p].pc = "free_dind"
Places(i) ==
    {<<i, "zone", k>> : k \in {k \in 0 .. IND : inode[i].zone[k] # 0}}
    \union {<<i, "leaf", k>> : k \in {k \in 0 .. POINTERS - 1 :
                /\ inode[i].zone[IND] # 0 /\ ~Freed(i, k)
                /\ word[inode[i].zone[IND]][k] # 0}}
ZoneAt(q) == IF q[2] = "zone" THEN inode[q[1]].zone[q[3]]
             ELSE word[inode[q[1]].zone[IND]][q[3]]
AllPlaces == UNION {Places(i) : i \in Inodes}

\* The blocks a new_block has taken and its caller not yet put in its place.
InHand == {loc[p].got : p \in {p \in Procs :
              loc[p].pc \in {"getblk", "direct", "indirect", "link", "block"}}} \ {0}

\* No block belongs to two files or to one file twice, or to a file and to an
\* allocation under way.  (new_block and free_block against _bmap, truncate)
OneOwner ==
    LET owned == {ZoneAt(q) : q \in AllPlaces} IN
    /\ Cardinality(owned) = Cardinality(AllPlaces)
    /\ owned \intersect InHand = {}

\* What a process is about to fetch is allocated.  Nothing in iget sees to it:
\* the entry was read before a sleep, and another process may have freed its
\* inode since.
FollowsLive == \A p \in Procs : loc[p].pc \in {"iget", "iget_dir"} => loc[p].ref \in imap

\* The bitmaps say what is in use, neither less nor more: a set bit has an
\* owner, a zone in a file is set, and so for inodes, those about to be fetched
\* with them.  (clear_bit in free_block and free_inode, set_bit in new_block
\* and new_inode)
BitmapsMatch ==
    /\ FollowsLive
    /\ zmap \intersect Zones = {ZoneAt(q) : q \in AllPlaces} \union InHand
    /\ imap = {i \in Inodes : inode[i].nlinks > 0 \/ inode[i].count > 0}

\* No call runs into the panics of bitmap.c and inode.c.
NeverPanics == \A p \in Procs : loc[p].pc # "panic"
=============================================================================
