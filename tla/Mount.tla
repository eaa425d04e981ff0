------------------------------- MODULE Mount -------------------------------
(***************************************************************************)
(* The table of superblocks (fs/super.c): get_super and its wait,          *)
(* read_super, put_super, sys_mount and sys_umount, and the step iget      *)
(* takes from a mount point to the root of what is mounted on it           *)
(* (fs/inode.c).  A step of a process goes from one sleep to the next.     *)
(* Any read may fail, and the directories mounted on are on the root       *)
(* device.                                                                 *)
(***************************************************************************)
EXTENDS Integers, FiniteSets, FiniteSetsExt

CONSTANTS Procs,
          Devs,        \* device numbers
          ROOT_DEV,
          Dirs,        \* directories a device may be mounted on
          RootDir,     \* the inode of the root directory
          None,        \* no device, no inode, no process
          NR_SUPER,    \* entries of super_block (8)
          MAPS,        \* blocks of bitmaps of a device, s_imap and s_zmap
          Scenarios    \* the calls each process makes, of op, dev and dir:
                       \* a set of functions from Procs, one for a behaviour

Calls == [op : {"mount"}, dev : Devs, dir : Dirs] \union [op : {"umount"}, dev : Devs]
         \union [op : {"enter"}, dir : Dirs]

ASSUME MountAssumption ==
    /\ IsFiniteSet(Procs)
    /\ NR_SUPER \in Nat \ {0} /\ MAPS \in Nat \ {0}
    /\ Scenarios \subseteq [Procs -> SUBSET Calls]
    /\ ROOT_DEV \in Devs /\ RootDir \notin Dirs
    /\ None \notin Devs \union Dirs \union {RootDir} \union Procs

VARIABLES s_dev, s_lock, s_imount,   \* of each entry; s_lock: who holds it
          i_mount, i_count,          \* of each directory of Dirs
          held,     \* held[d]: the map blocks of d whose buffer is counted
          inside,   \* inside[p]: the device whose root p has open, or None
          pc, loc,  \* where a process is; its device, directory and entry,
                    \* the entry it waits for, the blocks it has read
          calls     \* the scenario

entries == <<s_dev, s_lock, s_imount>>
dirs == <<i_mount, i_count>>
vars == <<entries, dirs, held, inside, pc, loc, calls>>

Entries == 1 .. NR_SUPER
NoLoc == [dev |-> None, dir |-> None, e |-> 0, wait |-> 0, n |-> 0]

\* After mount_root: the root device is in the first entry.
Init ==
    /\ s_dev = [e \in Entries |-> IF e = 1 THEN ROOT_DEV ELSE None]
    /\ s_lock = [e \in Entries |-> None]
    /\ s_imount = [e \in Entries |-> IF e = 1 THEN RootDir ELSE None]
    /\ i_mount = [d \in Dirs |-> FALSE]
    /\ i_count = [d \in Dirs |-> 0]
    /\ held = [d \in Devs |-> IF d = ROOT_DEV THEN MAPS ELSE 0]
    /\ inside = [p \in Procs |-> None]
    /\ pc = [p \in Procs |-> "idle"]
    /\ loc = [p \in Procs |-> NoLoc]
    /\ calls \in Scenarios

Goto(p, label) == pc' = [pc EXCEPT ![p] = label] /\ UNCHANGED calls
Done(p) == Goto(p, "idle") /\ loc' = [loc EXCEPT ![p] = NoLoc]

dev(p) == loc[p].dev
dir(p) == loc[p].dir
sb(p) == loc[p].e

free_super(e) == s_lock' = [s_lock EXCEPT ![e] = None]
iput(d) == i_count' = [i_count EXCEPT ![d] = @ - 1]

(***************************************************************************)
(* get_super: the first entry of the device.  A locked one is waited for,  *)
(* and looked at again from the start of the table if it has changed.      *)
(***************************************************************************)
Having(d) == {e \in Entries : s_dev[e] = d}

\* Faulty variants: an entry waited for is not looked at again; a locked entry
\* is passed over.
GetSuperNoRecheck(d, w) ==
    IF w # 0 THEN w ELSE IF Having(d) = {} THEN 0 ELSE Min(Having(d))
GetSuperSkipsLocked(d, w) ==
    LET free == {e \in Having(d) : s_lock[e] = None} IN
    IF free = {} THEN 0 ELSE Min(free)

\* Where the search for d stands when p, who has slept for entry w or has not
\* (w = 0), runs: the awaited entry if it is still d's, or the first of d.
get_super(d, w) ==
    IF w # 0 /\ s_dev[w] = d THEN w
    ELSE IF Having(d) = {} THEN 0 ELSE Min(Having(d))

\* get_super in the call that is at `label': not before the entry it sleeps for
\* is unlocked.  The call then sleeps for the entry the search is at, if that is
\* locked, and otherwise goes on with it, or with none.
Searching(p, label) ==
    /\ pc[p] = label
    /\ loc[p].wait # 0 => s_lock[loc[p].wait] = None

Entry(p) == get_super(dev(p), loc[p].wait)
Found(p, e) == e # 0 /\ Entry(p) = e /\ s_lock[e] = None
Missing(p) == Entry(p) = 0

wait_on_super(p) ==
    /\ Entry(p) # 0
    /\ s_lock[Entry(p)] # None
    /\ loc' = [loc EXCEPT ![p].wait = Entry(p)]
    /\ UNCHANGED <<entries, dirs, held, inside, pc, calls>>

(***************************************************************************)
(* sys_mount, from namei(dir_name) on: the directory must be nobody else's *)
(* and no device's root, which is what namei finds at a mount point.  The  *)
(* call that is refused for that changes nothing, and is left out.         *)
(***************************************************************************)
Mount(p) ==
    /\ pc[p] = "idle"
    /\ \E c \in calls[p] :
          /\ c.op = "mount" /\ ~i_mount[c.dir] /\ i_count[c.dir] = 0
          /\ i_count' = [i_count EXCEPT ![c.dir] = 1]
          /\ loc' = [loc EXCEPT ![p] = [NoLoc EXCEPT !.dev = c.dev, !.dir = c.dir]]
    /\ Goto(p, "read_super")
    /\ UNCHANGED <<entries, i_mount, held, inside>>

\* sb is read, or was there: the directory and the entry point at each other.
Attach(p, e) ==
    IF s_imount[e] # None \/ i_mount[dir(p)]
    THEN iput(dir(p)) /\ UNCHANGED <<s_imount, i_mount>>
    ELSE /\ s_imount' = [s_imount EXCEPT ![e] = dir(p)]
         /\ i_mount' = [i_mount EXCEPT ![dir(p)] = TRUE]
         /\ UNCHANGED i_count

\* read_super's first stretch: a device not in the table gets a free entry,
\* which shows its number from here on, and is locked at once unless put_super
\* still holds it.
ReadSuper(p) ==
    /\ Searching(p, "read_super")
    /\ \/ wait_on_super(p)
       \/ \E e \in Entries :
             Found(p, e) /\ Attach(p, e) /\ Done(p) /\ UNCHANGED <<s_dev, s_lock, held, inside>>
       \/ /\ Missing(p) /\ Having(None) = {}
          /\ iput(dir(p)) /\ Done(p)
          /\ UNCHANGED <<entries, i_mount, held, inside>>
       \/ /\ Missing(p) /\ Having(None) # {}
          /\ LET e == Min(Having(None)) IN
             /\ s_dev' = [s_dev EXCEPT ![e] = dev(p)]
             /\ s_imount' = [s_imount EXCEPT ![e] = None]
             /\ loc' = [loc EXCEPT ![p].e = e, ![p].wait = 0]
             /\ IF s_lock[e] = None
                THEN s_lock' = [s_lock EXCEPT ![e] = p] /\ Goto(p, "bread")
                ELSE Goto(p, "lock") /\ UNCHANGED s_lock
          /\ UNCHANGED <<dirs, held, inside>>

\* lock_super after a sleep.
LockSuper(p) ==
    /\ pc[p] = "lock" /\ s_lock[sb(p)] = None
    /\ s_lock' = [s_lock EXCEPT ![sb(p)] = p]
    /\ Goto(p, "bread")
    /\ UNCHANGED <<s_dev, s_imount, dirs, held, inside, loc>>

\* The superblock, then the blocks of the maps one by one.
ReadBlock(p) ==
    /\ pc[p] = "bread" /\ loc[p].n < MAPS + 1
    /\ loc' = [loc EXCEPT ![p].n = @ + 1]
    /\ held' = [held EXCEPT ![dev(p)] = IF loc[p].n = 0 THEN @ ELSE @ + 1]
    /\ UNCHANGED <<entries, dirs, inside, pc, calls>>

\* Faulty variants: the directory is kept; the maps are kept; the entry stays
\* locked.
ReadFailsKeepsDir(p) ==
    /\ pc[p] = "bread" /\ loc[p].n < MAPS + 1
    /\ held' = [held EXCEPT ![dev(p)] = IF loc[p].n = 0 THEN @ ELSE @ - (loc[p].n - 1)]
    /\ s_dev' = [s_dev EXCEPT ![sb(p)] = None]
    /\ free_super(sb(p))
    /\ Done(p)
    /\ UNCHANGED <<s_imount, dirs, inside>>
ReadFailsKeepsMaps(p) ==
    /\ pc[p] = "bread" /\ loc[p].n < MAPS + 1
    /\ s_dev' = [s_dev EXCEPT ![sb(p)] = None]
    /\ free_super(sb(p))
    /\ iput(dir(p))
    /\ Done(p)
    /\ UNCHANGED <<s_imount, i_mount, held, inside>>
ReadFailsLocked(p) ==
    /\ pc[p] = "bread" /\ loc[p].n < MAPS + 1
    /\ held' = [held EXCEPT ![dev(p)] = IF loc[p].n = 0 THEN @ ELSE @ - (loc[p].n - 1)]
    /\ s_dev' = [s_dev EXCEPT ![sb(p)] = None]
    /\ iput(dir(p))
    /\ Done(p)
    /\ UNCHANGED <<s_lock, s_imount, i_mount, inside>>

\* A read failed, or s_magic is not SUPER_MAGIC: what was read is given back.  A
\* map block that cannot be read does not end the call at once: what n counts
\* may have been read before it or after it.
ReadFails(p) ==
    /\ pc[p] = "bread" /\ loc[p].n < MAPS + 1
    /\ held' = [held EXCEPT ![dev(p)] = IF loc[p].n = 0 THEN @ ELSE @ - (loc[p].n - 1)]
    /\ s_dev' = [s_dev EXCEPT ![sb(p)] = None]
    /\ free_super(sb(p))
    /\ iput(dir(p))
    /\ Done(p)
    /\ UNCHANGED <<s_imount, i_mount, inside>>

ReadDone(p) ==
    /\ pc[p] = "bread" /\ loc[p].n = MAPS + 1
    /\ free_super(sb(p))
    /\ Attach(p, sb(p))
    /\ Done(p)
    /\ UNCHANGED <<s_dev, held, inside>>

(***************************************************************************)
(* sys_umount: refused while an inode of the device is in use.  The root   *)
(* device is refused before get_super.                                     *)
(***************************************************************************)
Umount(p) ==
    /\ pc[p] = "idle"
    /\ \E c \in calls[p] :
          /\ c.op = "umount" /\ c.dev # ROOT_DEV
          /\ loc' = [loc EXCEPT ![p] = [NoLoc EXCEPT !.dev = c.dev]]
    /\ Goto(p, "umount")
    /\ UNCHANGED <<entries, dirs, held, inside>>

InUse(d) == \E q \in Procs : inside[q] = d

\* i_mount goes; iput of the directory may sleep with s_imount still there.
Detach(p) ==
    /\ Searching(p, "umount")
    /\ \/ wait_on_super(p)
       \/ Missing(p) /\ Done(p) /\ UNCHANGED <<entries, dirs, held, inside>>
       \/ \E e \in Entries :
             /\ Found(p, e)
             /\ IF s_imount[e] = None \/ InUse(dev(p))
                THEN Done(p) /\ UNCHANGED i_mount
                ELSE /\ i_mount' = [i_mount EXCEPT ![s_imount[e]] = FALSE]
                     /\ loc' = [loc EXCEPT ![p].e = e, ![p].dir = s_imount[e], ![p].wait = 0]
                     /\ Goto(p, "iput")
             /\ UNCHANGED <<entries, i_count, held, inside>>

DetachDone(p) ==
    /\ pc[p] = "iput"
    /\ iput(dir(p))
    /\ s_imount' = [s_imount EXCEPT ![sb(p)] = None]
    /\ Goto(p, "put_super")
    /\ UNCHANGED <<s_dev, s_lock, i_mount, held, inside, loc>>

\* put_super: the entry is found again, and left if it is mounted by now.
PutSuper(p) ==
    /\ Searching(p, "put_super")
    /\ \/ wait_on_super(p)
       \/ Missing(p) /\ Done(p) /\ UNCHANGED <<entries, dirs, held, inside>>
       \/ \E e \in Entries :
             /\ Found(p, e)
             /\ IF s_imount[e] # None THEN Done(p) /\ UNCHANGED <<s_dev, s_lock>>
                ELSE /\ s_lock' = [s_lock EXCEPT ![e] = p]
                     /\ s_dev' = [s_dev EXCEPT ![e] = None]
                     /\ loc' = [loc EXCEPT ![p].e = e]
                     /\ Goto(p, "brelse")
             /\ UNCHANGED <<s_imount, dirs, held, inside>>

\* The maps are given back, each brelse waiting for its buffer.
PutMaps(p) ==
    /\ pc[p] = "brelse"
    /\ held' = [held EXCEPT ![dev(p)] = @ - MAPS]
    /\ free_super(sb(p))
    /\ Done(p)
    /\ UNCHANGED <<s_dev, s_imount, dirs, inside>>

(***************************************************************************)
(* iget of a directory, by a walk down a path.  From a mount point it goes *)
(* on to the root of the device of the entry that points at it.            *)
(***************************************************************************)
MountedOn(d) == {e \in Entries : s_imount[e] = d}

Iget(p) ==
    /\ pc[p] = "idle" /\ inside[p] = None
    /\ \E c \in calls[p] :
          /\ c.op = "enter" /\ i_mount[c.dir] /\ MountedOn(c.dir) # {}
          /\ i_count' = [i_count EXCEPT ![c.dir] = @ + 1]
          /\ loc' = [loc EXCEPT ![p] = [NoLoc EXCEPT !.dir = c.dir,
                                                     !.e = Min(MountedOn(c.dir))]]
    /\ Goto(p, "cross")
    /\ UNCHANGED <<entries, i_mount, held, inside>>

\* The mount point has been put back, and the entry's device is read.
Cross(p) ==
    /\ pc[p] = "cross"
    /\ iput(dir(p))
    /\ inside' = [inside EXCEPT ![p] = s_dev[sb(p)]]
    /\ Done(p)
    /\ UNCHANGED <<entries, i_mount, held>>

Leave(p) ==
    /\ pc[p] = "idle" /\ inside[p] # None
    /\ inside' = [inside EXCEPT ![p] = None]
    /\ UNCHANGED <<entries, dirs, held, pc, loc, calls>>

Step(p) ==
    \/ Mount(p) \/ ReadSuper(p) \/ LockSuper(p) \/ ReadBlock(p) \/ ReadFails(p)
    \/ ReadDone(p) \/ Umount(p) \/ Detach(p) \/ DetachDone(p) \/ PutSuper(p)
    \/ PutMaps(p) \/ Iget(p) \/ Cross(p) \/ Leave(p)

Next == \E p \in Procs : Step(p)

Fairness == \A p \in Procs : WF_vars(pc[p] # "idle" /\ Step(p))

Spec == Init /\ [][Next]_vars
FairSpec == Spec /\ Fairness

(***************************************************************************)
(* What must hold.                                                         *)
(***************************************************************************)
\* If a device is unmounted at all, each device but the root's is mounted and
\* unmounted by one process, and others do not walk through where it mounts.
\* (sys_umount and get_super do not see to this: an entry given up while it is
\* locked may be taken, and found by a second mount before it is read; a walk
\* may be on its way from a directory to what is being unmounted)
Apart(s) ==
    (\E p \in Procs : \E c \in s[p] : c.op = "umount" /\ c.dev # ROOT_DEV) =>
        \A p, q \in Procs : p # q =>
            \A c \in s[p], b \in s[q] :
                /\ c.op # "enter" /\ b.op # "enter" /\ c.dev = b.dev => c.dev = ROOT_DEV
                /\ c.op = "mount" /\ b.op = "enter" => c.dir # b.dir

\* No device is in two entries, though read_super sleeps on the way to a new
\* one: its blocks would be handed out from two bitmaps.  (read_super)
DeviceOnce == \A e, f \in Entries : s_dev[e] = s_dev[f] /\ s_dev[e] # None => e = f

Ready(e) == s_lock[e] = None /\ s_dev[e] # None /\ held[s_dev[e]] = MAPS

\* What is mounted has been read: an entry that points at a directory has its
\* device and all of its maps, and so has the entry a walk is going through.
\* (get_super's second look, the failures of read_super, put_super)
MountedReady ==
    /\ \A e \in Entries : s_imount[e] # None => Ready(e)
    /\ \A p \in Procs : pc[p] = "cross" => Ready(sb(p)) /\ s_imount[sb(p)] = dir(p)

\* A directory is marked i_mount while one entry points at it, and its count
\* is the reference of that entry and those of the calls under way.
\* (the exits of sys_mount and sys_umount, iget at a mount point)
DirsMatch ==
    \A d \in Dirs :
        LET detaching == {p \in Procs : pc[p] = "iput" /\ dir(p) = d}
            passing == {p \in Procs : pc[p] \in {"read_super", "lock", "bread", "cross"} /\ dir(p) = d}
        IN  /\ i_mount[d] <=> MountedOn(d) # {} /\ detaching = {}
            /\ i_count[d] = Cardinality(MountedOn(d)) + Cardinality(passing)

\* The buffers of a device's maps are counted for its entry and for no other
\* reason, however far read_super came.  (the brelse of read_super, put_super)
MapsBalance ==
    \A d \in Devs :
        LET reading == {p \in Procs : pc[p] \in {"lock", "bread"} /\ dev(p) = d}
            putting == {p \in Procs : pc[p] = "brelse" /\ dev(p) = d}
            whole == {e \in Having(d) : \A p \in reading : sb(p) # e}
            read == {x \in reading \X (1 .. MAPS) : x[2] < loc[x[1]].n}
        IN  held[d] = MAPS * Cardinality(whole) + MAPS * Cardinality(putting) + Cardinality(read)

\* A locked entry is unlocked, whatever fails meanwhile: nobody sleeps for
\* ever in lock_super or wait_on_super for want of a wake_up.  (free_super on
\* every exit of read_super and put_super)
LocksEnd == \A e \in Entries : s_lock[e] # None ~> s_lock[e] = None
=============================================================================
