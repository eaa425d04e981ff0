----------------------------- MODULE MountProofs -----------------------------
(***************************************************************************)
(* Theorems about Mount, for every finite set of processes, all sets of    *)
(* devices and directories, every size of the table and of the maps.  That *)
(* no device is in two entries holds whatever the processes call; the rest *)
(* for every behaviour whose calls are apart.                              *)
(***************************************************************************)
EXTENDS Mount, FiniteSetsExt, FiniteSetTheorems, WellFoundedInduction, TLAPS

(***************************************************************************)
(* Lemmas about sets.                                                      *)
(***************************************************************************)
(* A set of natural numbers that is not empty has a least element.         *)
LEMMA MinNat ==
    ASSUME NEW S, S \subseteq Nat, S # {}
    PROVE  Min(S) \in S /\ \A y \in S : Min(S) =< y
<1>. DEFINE R == OpToRel(<, Nat)
<1>1. IsWellFoundedOn(R, Nat)
  BY NatLessThanWellFounded
<1>. HIDE DEF R
<1>2. PICK x \in S : \A y \in S : ~ (<<y, x>> \in R)
  BY <1>1, WFMin
<1>3. \A y \in S : ~ (y < x)
  BY <1>2 DEF R, OpToRel
<1>4. \A y \in S : x =< y
  BY <1>3
<1>. QED
  BY <1>4 DEF Min

(* Sizes of finite sets.                                                   *)
LEMMA CardType ==
    ASSUME NEW S, IsFiniteSet(S)
    PROVE  Cardinality(S) \in Nat /\ (Cardinality(S) = 0 <=> S = {})
BY FS_CardinalityType, FS_EmptySet

LEMMA CardAdd ==
    ASSUME NEW S, NEW x, IsFiniteSet(S), x \notin S
    PROVE  IsFiniteSet(S \union {x}) /\ Cardinality(S \union {x}) = Cardinality(S) + 1
BY FS_AddElement

LEMMA CardRemove ==
    ASSUME NEW S, NEW x, IsFiniteSet(S), x \in S
    PROVE  IsFiniteSet(S \ {x}) /\ Cardinality(S \ {x}) = Cardinality(S) - 1
BY FS_RemoveElement

(* Two subsets of a finite set that differ at most in x.                   *)
In(x, S) == IF x \in S THEN 1 ELSE 0

LEMMA CardDiffer ==
    ASSUME NEW S, IsFiniteSet(S), NEW A \in SUBSET S, NEW B \in SUBSET S, NEW x \in S,
           \A y \in S : y # x => (y \in A <=> y \in B)
    PROVE  /\ Cardinality(A) \in Nat /\ Cardinality(B) \in Nat
           /\ Cardinality(B) = Cardinality(A) + In(x, B) - In(x, A)
<1>1. IsFiniteSet(A) /\ IsFiniteSet(B)
  BY FS_Subset
<1>2. Cardinality(A) \in Nat /\ Cardinality(B) \in Nat
  BY <1>1, CardType
<1>3. CASE x \in A /\ x \notin B
  <2>1. B = A \ {x}
    BY <1>3
  <2>. QED
    BY <1>1, <1>2, <1>3, <2>1, CardRemove DEF In
<1>4. CASE x \notin A /\ x \in B
  <2>1. B = A \union {x}
    BY <1>4
  <2>. QED
    BY <1>1, <1>2, <1>4, <2>1, CardAdd DEF In
<1>5. CASE x \in A <=> x \in B
  <2>1. B = A
    BY <1>5
  <2>. QED
    BY <1>2, <2>1 DEF In
<1>. QED
  BY <1>2, <1>3, <1>4, <1>5

Reading == {"lock", "bread"}
Mounting == Reading \union {"read_super"}
Unmounting == {"umount", "iput", "put_super", "brelse"}
Labels == Mounting \union Unmounting \union {"idle", "cross"}

Points == Dirs \union {RootDir, None}
Locals == [dev : Devs \union {None}, dir : Points, e : 0 .. NR_SUPER, wait : 0 .. NR_SUPER, n : Nat]

TypeOK ==
    /\ s_dev \in [Entries -> Devs \union {None}]
    /\ s_lock \in [Entries -> Procs \union {None}]
    /\ s_imount \in [Entries -> Points]
    /\ i_mount \in [Dirs -> BOOLEAN]
    /\ i_count \in [Dirs -> Int]
    /\ held \in [Devs -> Int]
    /\ pc \in [Procs -> Labels]
    /\ loc \in [Procs -> Locals]
    /\ calls \in [Procs -> SUBSET Calls]

(* The call a process is in is one of its scenario.                        *)
CallInv ==
    \A p \in Procs :
        /\ pc[p] \in Mounting => [op |-> "mount", dev |-> dev(p), dir |-> dir(p)] \in calls[p]
        /\ pc[p] \in Unmounting => [op |-> "umount", dev |-> dev(p)] \in calls[p]
                                   /\ dev(p) # ROOT_DEV
        /\ pc[p] = "cross" => [op |-> "enter", dir |-> dir(p)] \in calls[p]
        /\ pc[p] \in {"lock", "bread", "iput", "brelse", "cross"} => sb(p) \in Entries

(* The first entry is the root's for ever.                                 *)
RootInv ==
    /\ s_dev[1] = ROOT_DEV /\ s_imount[1] = RootDir
    /\ \A e \in Entries : s_imount[e] = RootDir => e = 1
    /\ \A p \in Procs : pc[p] \in {"lock", "bread", "iput", "brelse"} => sb(p) # 1

(* What holds whatever the processes call.                                 *)
AnyInv == TypeOK /\ CallInv /\ RootInv /\ DeviceOnce

(* An entry is locked by the process that reads or gives up what is in it. *)
LockInv ==
    \A e \in Entries : s_lock[e] # None =>
        pc[s_lock[e]] \in {"bread", "brelse"} /\ sb(s_lock[e]) = e

(* A process in read_super has its entry to itself, and its directory; it  *)
(* has found its entry locked only if somebody unmounts.                   *)
Unmounts == \E p \in Procs : \E c \in calls[p] : c.op = "umount" /\ c.dev # ROOT_DEV

ReadInv ==
    \A p \in Procs : pc[p] \in Reading =>
        /\ s_dev[sb(p)] = dev(p) /\ s_imount[sb(p)] = None
        /\ pc[p] = "lock" => Unmounts
        /\ pc[p] = "bread" => s_lock[sb(p)] = p /\ loc[p].n =< MAPS + 1
        /\ \A q \in Procs : pc[q] \in Reading /\ sb(q) = sb(p) => q = p

MountInv ==
    \A p \in Procs : pc[p] \in Mounting =>
        /\ pc[p] \in {"read_super", "lock"} => loc[p].n = 0
        /\ MountedOn(dir(p)) = {}
        /\ \A q \in Procs : q # p /\ pc[q] \in Mounting \union {"cross"} => dir(q) # dir(p)

(* An umount under way, and a walk, have the entry they have found.        *)
UnmountInv ==
    \A p \in Procs :
        /\ pc[p] = "iput" => /\ s_dev[sb(p)] = dev(p) /\ s_imount[sb(p)] = dir(p)
                             /\ dir(p) \in Dirs
        /\ pc[p] = "brelse" => s_lock[sb(p)] = p /\ Having(dev(p)) = {}
        /\ pc[p] = "cross" => s_imount[sb(p)] = dir(p)

(* A directory is mounted on once, by a call of somebody.                  *)
PointInv ==
    /\ \A e, f \in Entries : s_imount[e] = s_imount[f] /\ s_imount[e] # None => e = f
    /\ \A e \in Entries : s_imount[e] \in Dirs =>
          \E p \in Procs : [op |-> "mount", dev |-> s_dev[e], dir |-> s_imount[e]] \in calls[p]

(* The maps of a device are all there, or as many as have been read.       *)
BeingRead(e) == \E p \in Procs : pc[p] \in Reading /\ sb(p) = e
Putting(d) == {p \in Procs : pc[p] = "brelse" /\ dev(p) = d}

HeldInv ==
    \A d \in Devs :
        /\ \A e \in Having(d) : ~BeingRead(e) => held[d] = MAPS
        /\ \A p \in Procs : pc[p] \in Reading /\ dev(p) = d =>
               held[d] = IF loc[p].n = 0 THEN 0 ELSE loc[p].n - 1
        /\ \A p \in Putting(d) : held[d] = MAPS
        /\ Having(d) = {} /\ Putting(d) = {} => held[d] = 0

ApartInv == LockInv /\ ReadInv /\ MountInv /\ UnmountInv /\ PointInv /\ HeldInv
            /\ MountedReady /\ DirsMatch

IInv == AnyInv /\ (Apart(calls) => ApartInv)

-----------------------------------------------------------------------------
(***************************************************************************)
(* What get_super returns, and the values a step gives the locals.         *)
(***************************************************************************)
LEMMA EntriesAre ==
    /\ Entries \subseteq Nat /\ 0 \notin Entries /\ 1 \in Entries /\ IsFiniteSet(Entries)
    /\ 0 .. NR_SUPER = Entries \union {0}
BY MountAssumption, FS_Interval DEF Entries

LEMMA LeastHaving ==
    ASSUME NEW d
    PROVE  Having(d) # {} => Min(Having(d)) \in Entries /\ s_dev[Min(Having(d))] = d
<1>1. Having(d) \subseteq Nat /\ Having(d) \subseteq Entries
  BY EntriesAre DEF Having
<1>2. Having(d) # {} => Min(Having(d)) \in Having(d)
  BY <1>1, MinNat
<1>. QED
  BY <1>2 DEF Having

LEMMA EntryIs ==
    ASSUME TypeOK, NEW p \in Procs
    PROVE  /\ Missing(p) => Having(dev(p)) = {}
           /\ ~Missing(p) => Entry(p) \in Entries /\ s_dev[Entry(p)] = dev(p)
<1>1. loc[p].wait \in Entries \union {0}
  BY EntriesAre DEF TypeOK, Locals
<1>. QED
  BY <1>1, LeastHaving, EntriesAre DEF Missing, Entry, get_super

LEMMA FoundIs ==
    ASSUME TypeOK, NEW p \in Procs, NEW e \in Entries, Found(p, e)
    PROVE  s_dev[e] = dev(p) /\ s_lock[e] = None
BY EntryIs DEF Found, Missing

LEMMA NoLocIs ==
    /\ NoLoc \in Locals /\ NoLoc.dev = None /\ NoLoc.dir = None /\ NoLoc.e = 0
    /\ NoLoc.wait = 0 /\ NoLoc.n = 0
BY EntriesAre DEF NoLoc, Locals, Points

(* The calls of a scenario, told apart.                                    *)
LEMMA CallIs ==
    ASSUME TypeOK, NEW p \in Procs, NEW c \in calls[p]
    PROVE  /\ c.op = "mount" => c.dev \in Devs /\ c.dir \in Dirs
                                /\ c = [op |-> "mount", dev |-> c.dev, dir |-> c.dir]
           /\ c.op = "umount" => c.dev \in Devs /\ c = [op |-> "umount", dev |-> c.dev]
           /\ c.op = "enter" => c.dir \in Dirs /\ c = [op |-> "enter", dir |-> c.dir]
           /\ c.op \in {"mount", "umount", "enter"}
<1>1. c \in Calls
  BY DEF TypeOK
<1>2. CASE c \in [op : {"mount"}, dev : Devs, dir : Dirs]
  BY <1>2
<1>3. CASE c \in [op : {"umount"}, dev : Devs]
  BY <1>3
<1>4. CASE c \in [op : {"enter"}, dir : Dirs]
  BY <1>4
<1>. QED
  BY <1>1, <1>2, <1>3, <1>4 DEF Calls

(* What a process in a call works on.                                      *)
LEMMA WorksOn ==
    ASSUME TypeOK, CallInv, NEW p \in Procs
    PROVE  /\ pc[p] \in Mounting => dev(p) \in Devs /\ dir(p) \in Dirs
           /\ pc[p] \in Unmounting => dev(p) \in Devs /\ dev(p) # ROOT_DEV
           /\ pc[p] = "cross" => dir(p) \in Dirs
<1>1. ASSUME pc[p] \in Mounting PROVE dev(p) \in Devs /\ dir(p) \in Dirs
  <2>. DEFINE c == [op |-> "mount", dev |-> dev(p), dir |-> dir(p)]
  <2>1. c \in calls[p] /\ c.op = "mount" /\ c.dev = dev(p) /\ c.dir = dir(p)
    BY <1>1 DEF CallInv
  <2>. HIDE DEF c
  <2>. QED
    BY <2>1, CallIs
<1>2. ASSUME pc[p] \in Unmounting PROVE dev(p) \in Devs /\ dev(p) # ROOT_DEV
  <2>. DEFINE c == [op |-> "umount", dev |-> dev(p)]
  <2>1. c \in calls[p] /\ c.op = "umount" /\ c.dev = dev(p) /\ dev(p) # ROOT_DEV
    BY <1>2 DEF CallInv
  <2>. HIDE DEF c
  <2>. QED
    BY <2>1, CallIs
<1>3. ASSUME pc[p] = "cross" PROVE dir(p) \in Dirs
  <2>. DEFINE c == [op |-> "enter", dir |-> dir(p)]
  <2>1. c \in calls[p] /\ c.op = "enter" /\ c.dir = dir(p)
    BY <1>3 DEF CallInv
  <2>. HIDE DEF c
  <2>. QED
    BY <2>1, CallIs
<1>. QED
  BY <1>1, <1>2, <1>3

-----------------------------------------------------------------------------
(***************************************************************************)
(* The steps, with the alternatives of those that search told apart.       *)
(***************************************************************************)
Waits(p) == pc[p] \in {"read_super", "umount", "put_super"} /\ wait_on_super(p)

(* The call is over, and has changed nothing.                              *)
GivesUp(p) == /\ pc[p] \in {"umount", "put_super"}
              /\ Done(p) /\ UNCHANGED <<entries, dirs, held>>

(* read_super finds the device in e, finds no room for it, or takes e.     *)
ReadFound(p, e) ==
    /\ pc[p] = "read_super" /\ s_dev[e] = dev(p) /\ s_lock[e] = None
    /\ Attach(p, e) /\ Done(p) /\ UNCHANGED <<s_dev, s_lock, held>>

ReadFull(p) ==
    /\ pc[p] = "read_super"
    /\ iput(dir(p)) /\ Done(p) /\ UNCHANGED <<entries, i_mount, held>>

ReadNew(p, e) ==
    /\ pc[p] = "read_super" /\ Having(dev(p)) = {} /\ s_dev[e] = None
    /\ s_dev' = [s_dev EXCEPT ![e] = dev(p)]
    /\ s_imount' = [s_imount EXCEPT ![e] = None]
    /\ loc' = [loc EXCEPT ![p].e = e, ![p].wait = 0]
    /\ \/ s_lock[e] = None /\ s_lock' = [s_lock EXCEPT ![e] = p] /\ Goto(p, "bread")
       \/ s_lock[e] # None /\ Goto(p, "lock") /\ UNCHANGED s_lock
    /\ UNCHANGED <<dirs, held>>

DetachFrom(p, e) ==
    /\ pc[p] = "umount" /\ s_dev[e] = dev(p) /\ s_lock[e] = None /\ s_imount[e] # None
    /\ i_mount' = [i_mount EXCEPT ![s_imount[e]] = FALSE]
    /\ loc' = [loc EXCEPT ![p].e = e, ![p].dir = s_imount[e], ![p].wait = 0]
    /\ Goto(p, "iput")
    /\ UNCHANGED <<entries, i_count, held>>

PutEntry(p, e) ==
    /\ pc[p] = "put_super" /\ s_dev[e] = dev(p) /\ s_lock[e] = None /\ s_imount[e] = None
    /\ s_lock' = [s_lock EXCEPT ![e] = p]
    /\ s_dev' = [s_dev EXCEPT ![e] = None]
    /\ loc' = [loc EXCEPT ![p].e = e]
    /\ Goto(p, "brelse")
    /\ UNCHANGED <<s_imount, dirs, held>>

LEMMA SearchIs ==
    ASSUME TypeOK, NEW p \in Procs, ReadSuper(p) \/ Detach(p) \/ PutSuper(p)
    PROVE  \/ Waits(p) \/ GivesUp(p) \/ ReadFull(p)
           \/ \E e \in Entries : ReadFound(p, e) \/ ReadNew(p, e) \/ DetachFrom(p, e) \/ PutEntry(p, e)
<1>1. CASE ReadSuper(p)
  <2>1. CASE wait_on_super(p)
    BY <1>1, <2>1 DEF ReadSuper, Searching, Waits
  <2>2. ASSUME NEW e \in Entries, Found(p, e), Attach(p, e), Done(p),
               UNCHANGED <<s_dev, s_lock, held, inside>>
        PROVE  ReadFound(p, e)
    BY <1>1, <2>2, FoundIs DEF ReadSuper, Searching, ReadFound
  <2>3. CASE iput(dir(p)) /\ Done(p) /\ UNCHANGED <<entries, i_mount, held, inside>>
    BY <1>1, <2>3 DEF ReadSuper, Searching, ReadFull
  <2>4. ASSUME Missing(p), Having(None) # {},
               LET e == Min(Having(None)) IN
               /\ s_dev' = [s_dev EXCEPT ![e] = dev(p)]
               /\ s_imount' = [s_imount EXCEPT ![e] = None]
               /\ loc' = [loc EXCEPT ![p].e = e, ![p].wait = 0]
               /\ IF s_lock[e] = None
                  THEN s_lock' = [s_lock EXCEPT ![e] = p] /\ Goto(p, "bread")
                  ELSE Goto(p, "lock") /\ UNCHANGED s_lock,
               UNCHANGED <<dirs, held, inside>>
        PROVE  ReadNew(p, Min(Having(None))) /\ Min(Having(None)) \in Entries
    <3>1. Min(Having(None)) \in Entries /\ s_dev[Min(Having(None))] = None
      BY SMTT(60), <2>4, LeastHaving
    <3>. QED
      BY SMTT(60), <1>1, <2>4, <3>1, EntryIs DEF ReadSuper, Searching, ReadNew
  <2>. QED
    BY <1>1, <2>1, <2>2, <2>3, <2>4 DEF ReadSuper
<1>2. CASE Detach(p)
  <2>1. CASE wait_on_super(p)
    BY SMTT(60), <1>2, <2>1 DEF Detach, Searching, Waits
  <2>2. CASE Done(p) /\ UNCHANGED <<entries, dirs, held, inside>>
    BY ZenonT(60), <1>2, <2>2 DEF Detach, Searching, GivesUp
  <2>3. ASSUME NEW e \in Entries, Found(p, e),
               IF s_imount[e] = None \/ InUse(dev(p))
               THEN Done(p) /\ UNCHANGED i_mount
               ELSE /\ i_mount' = [i_mount EXCEPT ![s_imount[e]] = FALSE]
                    /\ loc' = [loc EXCEPT ![p].e = e, ![p].dir = s_imount[e], ![p].wait = 0]
                    /\ Goto(p, "iput"),
               UNCHANGED <<entries, i_count, held, inside>>
        PROVE  GivesUp(p) \/ DetachFrom(p, e)
    BY ZenonT(60), <1>2, <2>3, FoundIs DEF Detach, Searching, GivesUp, DetachFrom, dirs
  <2>. QED
    BY ZenonT(60), <1>2, <2>1, <2>2, <2>3 DEF Detach
<1>3. CASE PutSuper(p)
  <2>1. CASE wait_on_super(p)
    BY <1>3, <2>1 DEF PutSuper, Searching, Waits
  <2>2. CASE Done(p) /\ UNCHANGED <<entries, dirs, held, inside>>
    BY <1>3, <2>2 DEF PutSuper, Searching, GivesUp
  <2>3. ASSUME NEW e \in Entries, Found(p, e),
               IF s_imount[e] # None THEN Done(p) /\ UNCHANGED <<s_dev, s_lock>>
               ELSE /\ s_lock' = [s_lock EXCEPT ![e] = p]
                    /\ s_dev' = [s_dev EXCEPT ![e] = None]
                    /\ loc' = [loc EXCEPT ![p].e = e]
                    /\ Goto(p, "brelse"),
               UNCHANGED <<s_imount, dirs, held, inside>>
        PROVE  GivesUp(p) \/ PutEntry(p, e)
    BY <1>3, <2>3, FoundIs DEF PutSuper, Searching, GivesUp, PutEntry, entries
  <2>. QED
    BY <1>3, <2>1, <2>2, <2>3 DEF PutSuper
<1>. QED
  BY <1>1, <1>2, <1>3

(* The step of p is one of these.                                          *)
Acts(p) ==
    \/ Mount(p) \/ LockSuper(p) \/ ReadBlock(p) \/ ReadFails(p) \/ ReadDone(p)
    \/ Umount(p) \/ DetachDone(p) \/ PutMaps(p) \/ Iget(p) \/ Cross(p) \/ Leave(p)
    \/ Waits(p) \/ GivesUp(p) \/ ReadFull(p)
    \/ \E e \in Entries : ReadFound(p, e) \/ ReadNew(p, e) \/ DetachFrom(p, e) \/ PutEntry(p, e)

LEMMA StepActs ==
    ASSUME TypeOK, NEW p \in Procs, Step(p)
    PROVE  Acts(p)
BY SearchIs DEF Step, Acts

(* What a step leaves alone, and the types.                                *)
Others(p) == /\ \A q \in Procs \ {p} : pc'[q] = pc[q] /\ loc'[q] = loc[q]
             /\ calls' = calls

LEMMA OthersStay ==
    ASSUME TypeOK, NEW p \in Procs, Acts(p)
    PROVE  Others(p)
<1>. pc \in [Procs -> Labels] /\ loc \in [Procs -> Locals]
  BY DEF TypeOK
<1>. USE DEF Others, Goto, Done
<1>1. CASE Mount(p) \/ Umount(p) \/ Iget(p)
  BY ZenonT(60), <1>1 DEF Mount, Umount, Iget
<1>2. CASE LockSuper(p) \/ ReadBlock(p) \/ ReadFails(p) \/ ReadDone(p)
  BY <1>2 DEF LockSuper, ReadBlock, ReadFails, ReadDone
<1>3. CASE DetachDone(p) \/ PutMaps(p) \/ Cross(p) \/ Leave(p)
  BY <1>3 DEF DetachDone, PutMaps, Cross, Leave
<1>4. CASE Waits(p) \/ GivesUp(p) \/ ReadFull(p)
  BY <1>4 DEF Waits, wait_on_super, GivesUp, ReadFull
<1>5. ASSUME NEW e \in Entries,
             ReadFound(p, e) \/ ReadNew(p, e) \/ DetachFrom(p, e) \/ PutEntry(p, e)
      PROVE  Others(p)
  BY <1>5 DEF ReadFound, ReadNew, DetachFrom, PutEntry
<1>. QED
  BY <1>1, <1>2, <1>3, <1>4, <1>5 DEF Acts

(* Where the steps that start a call, or go on with it, lead.              *)
LEMMA StartsAt ==
    ASSUME TypeOK, NEW p \in Procs, NEW label, NEW l \in Locals,
           Goto(p, label), loc' = [loc EXCEPT ![p] = l]
    PROVE  pc'[p] = label /\ loc'[p] = l
BY DEF TypeOK, Goto

LEMMA NewMount ==
    ASSUME NEW v \in Devs, NEW d \in Dirs
    PROVE  \E l \in Locals : /\ l = [NoLoc EXCEPT !.dev = v, !.dir = d]
                             /\ l.dev = v /\ l.dir = d /\ l.n = 0
<1>. DEFINE l == [NoLoc EXCEPT !.dev = v, !.dir = d]
<1>1. l \in Locals /\ l.dev = v /\ l.dir = d /\ l.n = 0
  BY NoLocIs DEF Locals, Points
<1>. QED
  BY <1>1

LEMMA MountStarts ==
    ASSUME TypeOK, NEW p \in Procs, Mount(p)
    PROVE  \E v \in Devs, d \in Dirs, l \in Locals :
             /\ [op |-> "mount", dev |-> v, dir |-> d] \in calls[p]
             /\ ~i_mount[d] /\ i_count[d] = 0 /\ i_count' = [i_count EXCEPT ![d] = 1]
             /\ loc' = [loc EXCEPT ![p] = l] /\ l.dev = v /\ l.dir = d /\ l.n = 0
<1>1. PICK c \in calls[p] :
          /\ c.op = "mount" /\ ~i_mount[c.dir] /\ i_count[c.dir] = 0
          /\ i_count' = [i_count EXCEPT ![c.dir] = 1]
          /\ loc' = [loc EXCEPT ![p] = [NoLoc EXCEPT !.dev = c.dev, !.dir = c.dir]]
  BY ZenonT(60) DEF Mount
<1>2. /\ c.dev \in Devs /\ c.dir \in Dirs
      /\ c = [op |-> "mount", dev |-> c.dev, dir |-> c.dir]
  BY <1>1, CallIs
<1>3. PICK l \in Locals : /\ l = [NoLoc EXCEPT !.dev = c.dev, !.dir = c.dir]
                         /\ l.dev = c.dev /\ l.dir = c.dir /\ l.n = 0
  <2>1. PICK v \in Devs, d \in Dirs : v = c.dev /\ d = c.dir
    BY <1>2
  <2>2. PICK l \in Locals : /\ l = [NoLoc EXCEPT !.dev = v, !.dir = d]
                            /\ l.dev = v /\ l.dir = d /\ l.n = 0
    BY NewMount
  <2>. QED
    BY <2>1, <2>2
<1>. QED
  BY <1>1, <1>2, <1>3

LEMMA UmountStarts ==
    ASSUME TypeOK, NEW p \in Procs, Umount(p)
    PROVE  \E v \in Devs \ {ROOT_DEV}, l \in Locals :
             /\ [op |-> "umount", dev |-> v] \in calls[p]
             /\ loc' = [loc EXCEPT ![p] = l] /\ l.dev = v
<1>1. PICK c \in calls[p] :
          /\ c.op = "umount" /\ c.dev # ROOT_DEV
          /\ loc' = [loc EXCEPT ![p] = [NoLoc EXCEPT !.dev = c.dev]]
  BY DEF Umount
<1>2. c.dev \in Devs /\ c = [op |-> "umount", dev |-> c.dev]
  BY <1>1, CallIs
<1>3. [NoLoc EXCEPT !.dev = c.dev] \in Locals /\ [NoLoc EXCEPT !.dev = c.dev].dev = c.dev
  BY <1>2, NoLocIs DEF Locals
<1>. QED
  BY <1>1, <1>2, <1>3

LEMMA IgetStarts ==
    ASSUME TypeOK, NEW p \in Procs, Iget(p)
    PROVE  \E d \in Dirs, e \in Entries, l \in Locals :
             /\ [op |-> "enter", dir |-> d] \in calls[p]
             /\ i_mount[d] /\ s_imount[e] = d /\ i_count' = [i_count EXCEPT ![d] = i_count[d] + 1]
             /\ loc' = [loc EXCEPT ![p] = l] /\ l.dir = d /\ l.e = e
<1>1. PICK c \in calls[p] :
          /\ c.op = "enter" /\ i_mount[c.dir] /\ MountedOn(c.dir) # {}
          /\ i_count' = [i_count EXCEPT ![c.dir] = i_count[c.dir] + 1]
          /\ loc' = [loc EXCEPT ![p] = [NoLoc EXCEPT !.dir = c.dir, !.e = Min(MountedOn(c.dir))]]
  BY ZenonT(60) DEF Iget
<1>2. c.dir \in Dirs /\ c = [op |-> "enter", dir |-> c.dir]
  BY <1>1, CallIs
<1>3. MountedOn(c.dir) \subseteq Nat /\ MountedOn(c.dir) \subseteq Entries
  BY EntriesAre DEF MountedOn
<1>4. Min(MountedOn(c.dir)) \in MountedOn(c.dir)
  BY <1>1, <1>3, MinNat
<1>5. PICK e \in Entries : e = Min(MountedOn(c.dir)) /\ s_imount[e] = c.dir
  BY <1>3, <1>4 DEF MountedOn
<1>. DEFINE l == [NoLoc EXCEPT !.dir = c.dir, !.e = e]
<1>6. l \in Locals /\ l.dir = c.dir /\ l.e = e
  BY <1>2, <1>5, NoLocIs, EntriesAre DEF Locals, Points
<1>7. loc' = [loc EXCEPT ![p] = l]
  BY <1>1, <1>5
<1>. HIDE DEF l
<1>8. PICK d \in Dirs : d = c.dir
  BY <1>2
<1>9. /\ [op |-> "enter", dir |-> d] \in calls[p]
      /\ i_mount[d] /\ s_imount[e] = d /\ i_count' = [i_count EXCEPT ![d] = i_count[d] + 1]
  BY <1>1, <1>2, <1>5, <1>8
<1>. QED
  BY <1>6, <1>7, <1>8, <1>9

(* The call of p, and the entry it works on, follow from where it goes.    *)
Sound(p) ==
    /\ pc[p] \in Labels /\ loc[p] \in Locals
    /\ pc[p] \in Mounting => [op |-> "mount", dev |-> dev(p), dir |-> dir(p)] \in calls[p]
    /\ pc[p] \in Unmounting => [op |-> "umount", dev |-> dev(p)] \in calls[p] /\ dev(p) # ROOT_DEV
    /\ pc[p] = "cross" => [op |-> "enter", dir |-> dir(p)] \in calls[p]
    /\ pc[p] \in {"lock", "bread", "iput", "brelse", "cross"} => sb(p) \in Entries
    /\ pc[p] \in {"lock", "bread", "iput", "brelse"} => sb(p) # 1

LEMMA SoundStep ==
    ASSUME AnyInv, NEW p \in Procs, Acts(p)
    PROVE  Sound(p)'
<1>. /\ pc \in [Procs -> Labels] /\ loc \in [Procs -> Locals] /\ loc[p] \in Locals
     /\ TypeOK /\ calls' = calls /\ Sound(p)
     /\ s_dev[1] = ROOT_DEV /\ s_imount \in [Entries -> Points] /\ s_dev[1] # None
  BY OthersStay, MountAssumption DEF AnyInv, TypeOK, Others, Sound, CallInv, RootInv
<1>. USE DEF Sound, Mounting, Reading, Unmounting, Labels, dev, dir, sb
<1>0. ASSUME pc'[p] = "idle", loc'[p] = NoLoc PROVE Sound(p)'
  BY <1>0, NoLocIs
<1>1. CASE Mount(p)
  <2>1. PICK v \in Devs, d \in Dirs, l \in Locals :
             /\ [op |-> "mount", dev |-> v, dir |-> d] \in calls[p]
             /\ ~i_mount[d] /\ i_count[d] = 0 /\ i_count' = [i_count EXCEPT ![d] = 1]
             /\ loc' = [loc EXCEPT ![p] = l] /\ l.dev = v /\ l.dir = d /\ l.n = 0
    BY <1>1, MountStarts
  <2>2. pc'[p] = "read_super" /\ loc'[p] = l
    BY <1>1, <2>1 DEF Mount, Goto
  <2>. QED
    BY <2>1, <2>2
<1>2. CASE Umount(p)
  <2>1. PICK v \in Devs \ {ROOT_DEV}, l \in Locals :
             /\ [op |-> "umount", dev |-> v] \in calls[p]
             /\ loc' = [loc EXCEPT ![p] = l] /\ l.dev = v
    BY <1>2, UmountStarts
  <2>2. pc'[p] = "umount" /\ loc'[p] = l
    BY <1>2, <2>1 DEF Umount, Goto
  <2>. QED
    BY <2>1, <2>2
<1>3. CASE Iget(p)
  <2>1. PICK d \in Dirs, e \in Entries, l \in Locals :
             /\ [op |-> "enter", dir |-> d] \in calls[p]
             /\ i_mount[d] /\ s_imount[e] = d /\ i_count' = [i_count EXCEPT ![d] = i_count[d] + 1]
             /\ loc' = [loc EXCEPT ![p] = l] /\ l.dir = d /\ l.e = e
    BY <1>3, IgetStarts
  <2>2. pc'[p] = "cross" /\ loc'[p] = l
    BY <1>3, <2>1 DEF Iget, Goto
  <2>. QED
    BY <2>1, <2>2
<1>4. CASE ReadFails(p) \/ ReadDone(p) \/ PutMaps(p) \/ Cross(p) \/ GivesUp(p) \/ ReadFull(p)
  BY <1>0, <1>4 DEF ReadFails, ReadDone, PutMaps, Cross, GivesUp, ReadFull, Done, Goto
<1>5. CASE LockSuper(p) \/ DetachDone(p)
  BY <1>5 DEF LockSuper, DetachDone, Goto
<1>6. CASE Leave(p)
  BY <1>6 DEF Leave
<1>7. CASE ReadBlock(p)
  <2>1. loc'[p] = [loc[p] EXCEPT !.n = loc[p].n + 1] /\ pc'[p] = pc[p] /\ pc[p] = "bread"
    BY <1>7 DEF ReadBlock
  <2>2. /\ loc'[p] \in Locals /\ loc'[p].dev = dev(p) /\ loc'[p].dir = dir(p) /\ loc'[p].e = sb(p)
    BY <2>1 DEF Locals
  <2>. QED
    BY <2>1, <2>2
<1>8. CASE Waits(p)
  <2>1. Entry(p) \in Entries /\ loc' = [loc EXCEPT ![p].wait = Entry(p)] /\ pc' = pc
    BY <1>8, EntryIs DEF Waits, wait_on_super, Missing
  <2>. DEFINE w == Entry(p)
  <2>. HIDE DEF w
  <2>2. loc'[p] = [loc[p] EXCEPT !.wait = w] /\ w \in 0 .. NR_SUPER
    BY <2>1, EntriesAre DEF w
  <2>3. /\ loc'[p] \in Locals /\ loc'[p].dev = dev(p) /\ loc'[p].dir = dir(p) /\ loc'[p].e = sb(p)
    BY <2>2 DEF Locals
  <2>. QED
    BY <1>8, <2>1, <2>3 DEF Waits
<1>9. ASSUME NEW e \in Entries, ReadFound(p, e) PROVE Sound(p)'
  BY <1>0, <1>9 DEF ReadFound, Done, Goto
<1>10. ASSUME NEW e \in Entries, ReadNew(p, e) PROVE Sound(p)'
  <2>1. loc'[p] = [loc[p] EXCEPT !.e = e, !.wait = 0] /\ pc'[p] \in Reading /\ e # 1
    BY <1>10, MountAssumption DEF ReadNew, Goto
  <2>2. /\ loc'[p] \in Locals /\ loc'[p].dev = dev(p) /\ loc'[p].dir = dir(p) /\ loc'[p].e = e
    BY <2>1, EntriesAre DEF Locals
  <2>. QED
    BY <1>10, <2>1, <2>2 DEF ReadNew
<1>11. ASSUME NEW e \in Entries, DetachFrom(p, e) PROVE Sound(p)'
  <2>1. loc'[p] = [loc[p] EXCEPT !.e = e, !.dir = s_imount[e], !.wait = 0] /\ pc'[p] = "iput"
    BY <1>11 DEF DetachFrom, Goto
  <2>2. e # 1
    BY <1>11 DEF DetachFrom
  <2>3. /\ loc'[p] \in Locals /\ loc'[p].dev = dev(p) /\ loc'[p].e = e
    BY <2>1, EntriesAre DEF Locals
  <2>. QED
    BY <1>11, <2>1, <2>2, <2>3 DEF DetachFrom
<1>12. ASSUME NEW e \in Entries, PutEntry(p, e) PROVE Sound(p)'
  <2>1. loc'[p] = [loc[p] EXCEPT !.e = e] /\ pc'[p] = "brelse"
    BY <1>12 DEF PutEntry, Goto
  <2>2. e # 1
    BY <1>12 DEF PutEntry
  <2>3. /\ loc'[p] \in Locals /\ loc'[p].dev = dev(p) /\ loc'[p].e = e
    BY <2>1, EntriesAre DEF Locals
  <2>. QED
    BY <1>12, <2>1, <2>2, <2>3 DEF PutEntry
<1>. QED
  BY <1>1, <1>2, <1>3, <1>4, <1>5, <1>6, <1>7, <1>8, <1>9, <1>10, <1>11, <1>12 DEF Acts

LEMMA FunctionsStay ==
    ASSUME TypeOK, NEW p \in Procs, Acts(p)
    PROVE  pc' = [q \in Procs |-> pc'[q]] /\ loc' = [q \in Procs |-> loc'[q]]
<1>. pc = [q \in Procs |-> pc[q]] /\ loc = [q \in Procs |-> loc[q]]
  BY DEF TypeOK
<1>. USE DEF Goto, Done
<1>1. CASE Mount(p)
  BY ZenonT(60), <1>1, MountStarts DEF Mount
<1>2. CASE Umount(p)
  BY <1>2, UmountStarts DEF Umount
<1>3. CASE Iget(p)
  BY ZenonT(60), <1>3, IgetStarts DEF Iget
<1>4. CASE LockSuper(p) \/ ReadBlock(p) \/ ReadFails(p) \/ ReadDone(p)
  BY <1>4 DEF LockSuper, ReadBlock, ReadFails, ReadDone
<1>5. CASE DetachDone(p) \/ PutMaps(p) \/ Cross(p) \/ Leave(p)
  BY <1>5 DEF DetachDone, PutMaps, Cross, Leave
<1>6. CASE Waits(p) \/ GivesUp(p) \/ ReadFull(p)
  BY <1>6 DEF Waits, wait_on_super, GivesUp, ReadFull
<1>7. ASSUME NEW e \in Entries,
             ReadFound(p, e) \/ ReadNew(p, e) \/ DetachFrom(p, e) \/ PutEntry(p, e)
      PROVE  pc' = [q \in Procs |-> pc'[q]] /\ loc' = [q \in Procs |-> loc'[q]]
  BY <1>7 DEF ReadFound, ReadNew, DetachFrom, PutEntry
<1>. QED
  BY <1>1, <1>2, <1>3, <1>4, <1>5, <1>6, <1>7 DEF Acts

(* What the steps do to the table and the directories.                     *)
LEMMA AttachIs ==
    ASSUME TypeOK, NEW p \in Procs, NEW e \in Entries, dir(p) \in Dirs, Attach(p, e)
    PROVE  \/ /\ s_imount' = s_imount /\ i_mount' = i_mount
              /\ i_count' = [i_count EXCEPT ![dir(p)] = i_count[dir(p)] - 1]
           \/ /\ s_imount' = [s_imount EXCEPT ![e] = dir(p)] /\ s_imount[e] = None
              /\ i_mount' = [i_mount EXCEPT ![dir(p)] = TRUE] /\ i_count' = i_count
BY DEF Attach, iput

LEMMA TablesTyped ==
    ASSUME AnyInv, NEW p \in Procs, Acts(p)
    PROVE  /\ s_dev' \in [Entries -> Devs \union {None}]
           /\ s_lock' \in [Entries -> Procs \union {None}]
           /\ s_imount' \in [Entries -> Points]
           /\ i_mount' \in [Dirs -> BOOLEAN]
           /\ i_count' \in [Dirs -> Int]
           /\ held' \in [Devs -> Int]
<1>. /\ s_dev \in [Entries -> Devs \union {None}]
     /\ s_lock \in [Entries -> Procs \union {None}]
     /\ s_imount \in [Entries -> Points]
     /\ i_mount \in [Dirs -> BOOLEAN]
     /\ i_count \in [Dirs -> Int]
     /\ held \in [Devs -> Int]
     /\ loc[p].n \in Nat /\ MAPS \in Nat
     /\ TypeOK /\ CallInv
  BY MountAssumption DEF AnyInv, TypeOK, Locals
<1>. /\ pc[p] \in Mounting => dev(p) \in Devs /\ dir(p) \in Dirs
     /\ pc[p] \in Unmounting => dev(p) \in Devs
     /\ pc[p] = "cross" => dir(p) \in Dirs
     /\ pc[p] \in {"lock", "bread", "iput", "brelse", "cross"} => sb(p) \in Entries
  BY WorksOn DEF CallInv
<1>0. ASSUME NEW e \in Entries, dir(p) \in Dirs, Attach(p, e)
      PROVE  /\ s_imount' \in [Entries -> Points] /\ i_mount' \in [Dirs -> BOOLEAN]
             /\ i_count' \in [Dirs -> Int]
  <2>1. dir(p) \in Points
    BY <1>0 DEF Points
  <2>2. CASE /\ s_imount' = s_imount /\ i_mount' = i_mount
             /\ i_count' = [i_count EXCEPT ![dir(p)] = i_count[dir(p)] - 1]
    BY <1>0, <2>2
  <2>3. CASE /\ s_imount' = [s_imount EXCEPT ![e] = dir(p)]
             /\ i_mount' = [i_mount EXCEPT ![dir(p)] = TRUE] /\ i_count' = i_count
    BY <2>1, <2>3
  <2>. QED
    BY <1>0, <2>2, <2>3, AttachIs
<1>. USE DEF entries, dirs, iput, free_super, Mounting, Unmounting, Reading
<1>1. CASE Mount(p)
  <2>1. \E d \in Dirs : i_count' = [i_count EXCEPT ![d] = 1]
    BY <1>1, MountStarts
  <2>2. UNCHANGED <<s_dev, s_lock, s_imount, i_mount, held>>
    BY <1>1 DEF Mount
  <2>. QED
    BY <2>1, <2>2
<1>2. CASE Umount(p)
  BY <1>2 DEF Umount
<1>3. CASE Iget(p)
  <2>1. \E d \in Dirs : i_count' = [i_count EXCEPT ![d] = i_count[d] + 1]
    BY <1>3, IgetStarts
  <2>. QED
    BY <1>3, <2>1 DEF Iget
<1>4. CASE LockSuper(p)
  BY <1>4 DEF LockSuper
<1>5. CASE ReadBlock(p)
  BY <1>5 DEF ReadBlock
<1>6. CASE ReadFails(p)
  BY <1>6 DEF ReadFails
<1>7. CASE ReadDone(p)
  <2>1. sb(p) \in Entries /\ dir(p) \in Dirs /\ Attach(p, sb(p))
    BY <1>7 DEF ReadDone
  <2>. QED
    BY <1>7, <2>1, <1>0 DEF ReadDone
<1>8. CASE DetachDone(p)
  <2>1. None \in Points /\ dir(p) \in Points
    BY DEF Points, TypeOK, Locals, dir
  <2>2. s_imount' \in [Entries -> Points]
    BY <1>8, <2>1 DEF DetachDone
  <2>3. i_count' \in [Dirs -> Int]
    <3>1. i_count' = [i_count EXCEPT ![dir(p)] = i_count[dir(p)] - 1]
      BY <1>8 DEF DetachDone
    <3>2. CASE dir(p) \in Dirs
      BY <3>1, <3>2
    <3>3. CASE dir(p) \notin Dirs
      BY <3>1, <3>3
    <3>. QED
      BY <3>2, <3>3
  <2>. QED
    BY <1>8, <2>2, <2>3 DEF DetachDone
<1>9. CASE PutMaps(p)
  BY <1>9 DEF PutMaps
<1>10. CASE Cross(p)
  BY <1>10 DEF Cross
<1>11. CASE Leave(p) \/ Waits(p) \/ GivesUp(p)
  BY <1>11 DEF Leave, Waits, wait_on_super, GivesUp
<1>12. CASE ReadFull(p)
  BY <1>12 DEF ReadFull
<1>13. ASSUME NEW e \in Entries, ReadFound(p, e)
      PROVE  /\ UNCHANGED <<s_dev, s_lock, held>>
             /\ s_imount' \in [Entries -> Points] /\ i_mount' \in [Dirs -> BOOLEAN]
             /\ i_count' \in [Dirs -> Int]
  <2>1. dir(p) \in Dirs /\ Attach(p, e) /\ UNCHANGED <<s_dev, s_lock, held>>
    BY <1>13 DEF ReadFound
  <2>. QED
    BY <2>1, <1>0
<1>14. ASSUME NEW e \in Entries, ReadNew(p, e)
       PROVE  /\ UNCHANGED <<dirs, held>> /\ s_dev' \in [Entries -> Devs \union {None}]
              /\ s_lock' \in [Entries -> Procs \union {None}] /\ s_imount' \in [Entries -> Points]
  BY <1>14 DEF ReadNew, Points
<1>15. ASSUME NEW e \in Entries, DetachFrom(p, e)
       PROVE  UNCHANGED <<entries, i_count, held>> /\ i_mount' \in [Dirs -> BOOLEAN]
  BY <1>15 DEF DetachFrom
<1>16. ASSUME NEW e \in Entries, PutEntry(p, e)
       PROVE  /\ UNCHANGED <<s_imount, dirs, held>> /\ s_dev' \in [Entries -> Devs \union {None}]
              /\ s_lock' \in [Entries -> Procs \union {None}]
  BY <1>16 DEF PutEntry
<1>. QED
  BY <1>1, <1>2, <1>3, <1>4, <1>5, <1>6, <1>7, <1>8, <1>9, <1>10, <1>11, <1>12,
     <1>13, <1>14, <1>15, <1>16 DEF Acts

(* A device enters the table where there was none, and leaves it where the *)
(* process at work on the entry puts it back.                              *)
LEMMA DevChanges ==
    ASSUME AnyInv, NEW p \in Procs, Acts(p)
    PROVE  \/ s_dev' = s_dev
           \/ \E e \in Entries : ReadNew(p, e)
           \/ \E e \in Entries : e # 1 /\ s_dev' = [s_dev EXCEPT ![e] = None]
<1>. TypeOK /\ CallInv /\ RootInv
  BY DEF AnyInv
<1>. USE DEF entries, dirs
<1>1. CASE Mount(p) \/ Umount(p) \/ Iget(p)
  BY ZenonT(60), <1>1 DEF Mount, Umount, Iget
<1>2. CASE LockSuper(p) \/ ReadBlock(p) \/ ReadDone(p) \/ DetachDone(p) \/ PutMaps(p)
  BY <1>2 DEF LockSuper, ReadBlock, ReadDone, DetachDone, PutMaps
<1>3. CASE Cross(p) \/ Leave(p) \/ Waits(p) \/ GivesUp(p) \/ ReadFull(p)
  BY <1>3 DEF Cross, Leave, Waits, wait_on_super, GivesUp, ReadFull
<1>4. CASE ReadFails(p)
  <2>1. sb(p) \in Entries /\ sb(p) # 1 /\ s_dev' = [s_dev EXCEPT ![sb(p)] = None]
    BY <1>4 DEF ReadFails, CallInv, RootInv
  <2>. QED
    BY <2>1
<1>5. ASSUME NEW e \in Entries, ReadFound(p, e) \/ DetachFrom(p, e)
      PROVE  s_dev' = s_dev
  BY <1>5 DEF ReadFound, DetachFrom
<1>6. ASSUME NEW e \in Entries, PutEntry(p, e)
      PROVE  e # 1 /\ s_dev' = [s_dev EXCEPT ![e] = None]
  BY <1>6, WorksOn DEF PutEntry, RootInv, Unmounting
<1>. QED
  BY <1>1, <1>2, <1>3, <1>4, <1>5, <1>6 DEF Acts

LEMMA OnceStep ==
    ASSUME AnyInv, NEW p \in Procs, Acts(p)
    PROVE  DeviceOnce' /\ s_dev'[1] = ROOT_DEV
<1>. /\ s_dev \in [Entries -> Devs \union {None}] /\ DeviceOnce /\ s_dev[1] = ROOT_DEV
     /\ 1 \in Entries /\ ROOT_DEV # None
  BY EntriesAre, MountAssumption DEF AnyInv, TypeOK, RootInv
<1>1. CASE s_dev' = s_dev
  BY <1>1 DEF DeviceOnce
<1>2. ASSUME NEW e \in Entries, ReadNew(p, e) PROVE DeviceOnce' /\ s_dev'[1] = ROOT_DEV
  <2>1. /\ s_dev' = [s_dev EXCEPT ![e] = dev(p)] /\ s_dev[e] = None
        /\ \A f \in Entries : s_dev[f] # dev(p)
    BY <1>2 DEF ReadNew, Having
  <2>. QED
    BY <2>1 DEF DeviceOnce
<1>3. ASSUME NEW e \in Entries, e # 1, s_dev' = [s_dev EXCEPT ![e] = None]
      PROVE  DeviceOnce' /\ s_dev'[1] = ROOT_DEV
  BY <1>3 DEF DeviceOnce
<1>. QED
  BY <1>1, <1>2, <1>3, DevChanges

(* What is mounted on an entry changes when its entry is taken, when a     *)
(* mount ends well and when its umount is past iput.                       *)
LEMMA PointChanges ==
    ASSUME AnyInv, NEW p \in Procs, Acts(p)
    PROVE  \/ s_imount' = s_imount
           \/ \E e \in Entries : ReadNew(p, e)
           \/ DetachDone(p)
           \/ \E e \in Entries :
                 /\ (ReadDone(p) /\ e = sb(p)) \/ ReadFound(p, e)
                 /\ s_imount[e] = None /\ s_imount' = [s_imount EXCEPT ![e] = dir(p)]
                 /\ i_mount' = [i_mount EXCEPT ![dir(p)] = TRUE] /\ i_count' = i_count
<1>. TypeOK /\ CallInv
  BY DEF AnyInv
<1>. USE DEF entries, dirs
<1>1. CASE Mount(p) \/ Umount(p) \/ Iget(p)
  BY ZenonT(60), <1>1 DEF Mount, Umount, Iget
<1>2. CASE LockSuper(p) \/ ReadBlock(p) \/ ReadFails(p) \/ PutMaps(p)
  BY <1>2 DEF LockSuper, ReadBlock, ReadFails, PutMaps
<1>3. CASE Cross(p) \/ Leave(p) \/ Waits(p) \/ GivesUp(p) \/ ReadFull(p)
  BY <1>3 DEF Cross, Leave, Waits, wait_on_super, GivesUp, ReadFull
<1>4. CASE ReadDone(p)
  <2>1. sb(p) \in Entries /\ dir(p) \in Dirs /\ Attach(p, sb(p))
    BY <1>4, WorksOn DEF ReadDone, CallInv, Mounting, Reading
  <2>. QED
    BY <1>4, <2>1, AttachIs
<1>5. ASSUME NEW e \in Entries, ReadFound(p, e)
      PROVE  \/ s_imount' = s_imount
             \/ /\ s_imount[e] = None /\ s_imount' = [s_imount EXCEPT ![e] = dir(p)]
                /\ i_mount' = [i_mount EXCEPT ![dir(p)] = TRUE] /\ i_count' = i_count
  <2>1. dir(p) \in Dirs /\ Attach(p, e)
    BY <1>5, WorksOn DEF ReadFound, Mounting
  <2>. QED
    BY <2>1, AttachIs
<1>6. ASSUME NEW e \in Entries, DetachFrom(p, e) \/ PutEntry(p, e)
      PROVE  s_imount' = s_imount
  BY <1>6 DEF DetachFrom, PutEntry
<1>. QED
  BY <1>1, <1>2, <1>3, <1>4, <1>5, <1>6 DEF Acts

LEMMA RootStep ==
    ASSUME AnyInv, NEW p \in Procs, Acts(p)
    PROVE  /\ s_imount'[1] = RootDir
           /\ \A e \in Entries : s_imount'[e] = RootDir => e = 1
<1>. /\ s_imount \in [Entries -> Points] /\ s_imount[1] = RootDir /\ s_dev[1] = ROOT_DEV
     /\ \A e \in Entries : s_imount[e] = RootDir => e = 1
     /\ 1 \in Entries /\ ROOT_DEV # None /\ RootDir # None /\ RootDir \notin Dirs
     /\ TypeOK /\ CallInv
  BY EntriesAre, MountAssumption DEF AnyInv, TypeOK, RootInv
<1>. DEFINE Goal == /\ s_imount'[1] = RootDir
                    /\ \A e \in Entries : s_imount'[e] = RootDir => e = 1
<1>1. CASE s_imount' = s_imount
  BY <1>1
<1>2. ASSUME NEW e \in Entries, ReadNew(p, e) PROVE Goal
  <2>1. s_dev[e] = None /\ s_imount' = [s_imount EXCEPT ![e] = None]
    BY <1>2 DEF ReadNew
  <2>. QED
    BY <2>1
<1>3. CASE DetachDone(p)
  <2>1. sb(p) \in Entries /\ sb(p) # 1 /\ s_imount' = [s_imount EXCEPT ![sb(p)] = None]
    BY <1>3 DEF DetachDone, AnyInv, CallInv, RootInv
  <2>. QED
    BY <2>1
<1>4. ASSUME NEW e \in Entries, ReadDone(p) \/ ReadFound(p, e), s_imount[e] = None,
             s_imount' = [s_imount EXCEPT ![e] = dir(p)]
      PROVE  Goal
  <2>1. dir(p) \in Dirs
    BY <1>4, WorksOn DEF ReadDone, ReadFound, Mounting, Reading
  <2>. QED
    BY <1>4, <2>1
<1>. QED
  BY <1>1, <1>2, <1>3, <1>4, PointChanges

LEMMA AnyInit == Init => AnyInv
<1>. SUFFICES ASSUME Init PROVE AnyInv
  OBVIOUS
<1>. /\ 1 \in Entries /\ ROOT_DEV \in Devs /\ MAPS \in Int /\ RootDir # None /\ ROOT_DEV # None
  BY EntriesAre, MountAssumption
<1>1. TypeOK
  <2>1. calls \in [Procs -> SUBSET Calls] /\ NoLoc \in Locals
    BY MountAssumption, NoLocIs DEF Init
  <2>. QED
    BY <2>1 DEF Init, TypeOK, Points, Labels, Mounting, Unmounting
<1>2. CallInv /\ RootInv
  BY DEF Init, CallInv, RootInv, Mounting, Reading, Unmounting
<1>3. DeviceOnce
  BY DEF Init, DeviceOnce
<1>. QED
  BY <1>1, <1>2, <1>3 DEF AnyInv

LEMMA AnyStep ==
    ASSUME AnyInv, NEW p \in Procs, Acts(p)
    PROVE  AnyInv'
<1>. TypeOK /\ CallInv /\ RootInv
  BY DEF AnyInv
<1>. Others(p) /\ Sound(p)' /\ calls' = calls
  BY OthersStay, SoundStep DEF Others
<1>1. TypeOK'
  <2>1. \A q \in Procs : pc'[q] \in Labels /\ loc'[q] \in Locals
    BY DEF Others, Sound, TypeOK
  <2>2. pc' \in [Procs -> Labels] /\ loc' \in [Procs -> Locals]
    BY <2>1, FunctionsStay
  <2>. QED
    BY <2>2, TablesTyped DEF TypeOK
<1>2. CallInv'
  BY DEF Others, Sound, CallInv, dev, dir, sb
<1>3. RootInv'
  <2>1. \A q \in Procs : pc'[q] \in {"lock", "bread", "iput", "brelse"} => sb(q)' # 1
    BY DEF Others, Sound, RootInv, sb
  <2>. QED
    BY <2>1, RootStep, OnceStep DEF RootInv
<1>. QED
  BY <1>1, <1>2, <1>3, OnceStep DEF AnyInv

LEMMA AnyStutter == AnyInv /\ UNCHANGED vars => AnyInv'
<1>. SUFFICES ASSUME AnyInv, UNCHANGED vars PROVE AnyInv'
  OBVIOUS
<1>. USE DEF vars, entries, dirs
<1>1. TypeOK'
  BY DEF AnyInv, TypeOK
<1>2. CallInv'
  BY DEF AnyInv, CallInv, dev, dir, sb
<1>3. RootInv' /\ DeviceOnce'
  BY DEF AnyInv, RootInv, DeviceOnce, sb
<1>. QED
  BY <1>1, <1>2, <1>3 DEF AnyInv

(* No device is ever in two entries, whatever calls are made at once.      *)
(* (read_super looks for the device before it takes an entry, and does not *)
(* sleep in between.)                                                      *)
THEOREM DeviceOnceCorrect == Spec => []DeviceOnce
<1>1. Init => AnyInv
  BY AnyInit
<1>2. AnyInv /\ [Next]_vars => AnyInv'
  <2>1. ASSUME AnyInv, NEW p \in Procs, Step(p) PROVE AnyInv'
    BY <2>1, StepActs, AnyStep DEF AnyInv
  <2>. QED
    BY <2>1, AnyStutter DEF Next
<1>3. AnyInv => DeviceOnce
  BY DEF AnyInv
<1>. QED
  BY <1>1, <1>2, <1>3, PTL DEF Spec

-----------------------------------------------------------------------------
(***************************************************************************)
(* From here on the calls are apart.  The steps once more, by what they    *)
(* change, at p only.                                                      *)
(***************************************************************************)
(* Nothing, but for a search or a call that has not begun.                 *)
Calm == {"idle", "read_super", "umount", "put_super"}
Quiet(p) ==
    /\ pc[p] \in Calm /\ pc'[p] \in Calm
    /\ pc[p] = "read_super" <=> pc'[p] = "read_super"
    /\ pc[p] = "read_super" => /\ loc'[p].dev = dev(p) /\ loc'[p].dir = dir(p)
                               /\ loc'[p].n = loc[p].n
    /\ UNCHANGED <<entries, dirs, held>>

Starts(p, d) ==
    /\ pc[p] = "idle" /\ pc'[p] = "read_super" /\ loc'[p].dir = d /\ loc'[p].n = 0
    /\ ~i_mount[d] /\ i_count[d] = 0 /\ i_count' = [i_count EXCEPT ![d] = 1]
    /\ UNCHANGED <<entries, i_mount, held>>

(* A mount that comes to its end, with the entry it has found or read.     *)
Ends(p, e) ==
    /\ pc'[p] = "idle"
    /\ \/ pc[p] = "read_super" /\ s_dev[e] = dev(p) /\ s_lock[e] = None /\ s_lock' = s_lock
       \/ pc[p] = "bread" /\ sb(p) = e /\ loc[p].n = MAPS + 1
          /\ s_lock' = [s_lock EXCEPT ![e] = None]
    /\ UNCHANGED <<s_dev, held>>

Mounts(p, e) ==
    /\ Ends(p, e) /\ s_imount[e] = None
    /\ s_imount' = [s_imount EXCEPT ![e] = dir(p)]
    /\ i_mount' = [i_mount EXCEPT ![dir(p)] = TRUE] /\ i_count' = i_count

DropsDir(p) == i_count' = [i_count EXCEPT ![dir(p)] = i_count[dir(p)] - 1]

Refused(p, e) == Ends(p, e) /\ DropsDir(p) /\ UNCHANGED <<s_imount, i_mount>>

NoRoom(p) ==
    /\ pc[p] = "read_super" /\ pc'[p] = "idle" /\ DropsDir(p)
    /\ UNCHANGED <<entries, i_mount, held>>

Takes(p, e) ==
    /\ pc[p] = "read_super" /\ Having(dev(p)) = {} /\ s_dev[e] = None
    /\ loc'[p].dev = dev(p) /\ loc'[p].dir = dir(p) /\ loc'[p].e = e /\ loc'[p].n = loc[p].n
    /\ s_dev' = [s_dev EXCEPT ![e] = dev(p)] /\ s_imount' = [s_imount EXCEPT ![e] = None]
    /\ \/ s_lock[e] = None /\ s_lock' = [s_lock EXCEPT ![e] = p] /\ pc'[p] = "bread"
       \/ s_lock[e] # None /\ s_lock' = s_lock /\ pc'[p] = "lock"
    /\ UNCHANGED <<dirs, held>>

Locks(p) ==
    /\ pc[p] = "lock" /\ pc'[p] = "bread" /\ loc'[p] = loc[p]
    /\ s_lock[sb(p)] = None /\ s_lock' = [s_lock EXCEPT ![sb(p)] = p]
    /\ UNCHANGED <<s_dev, s_imount, dirs, held>>

Reads(p) ==
    /\ pc[p] = "bread" /\ pc'[p] = "bread" /\ loc[p].n < MAPS + 1 /\ loc'[p].n = loc[p].n + 1
    /\ loc'[p].dev = dev(p) /\ loc'[p].dir = dir(p) /\ loc'[p].e = sb(p)
    /\ held' = [held EXCEPT ![dev(p)] = IF loc[p].n = 0 THEN held[dev(p)] ELSE held[dev(p)] + 1]
    /\ UNCHANGED <<entries, dirs>>

Fails(p) ==
    /\ pc[p] = "bread" /\ pc'[p] = "idle" /\ DropsDir(p)
    /\ held' = [held EXCEPT ![dev(p)] = IF loc[p].n = 0 THEN held[dev(p)]
                                        ELSE held[dev(p)] - (loc[p].n - 1)]
    /\ s_dev' = [s_dev EXCEPT ![sb(p)] = None] /\ s_lock' = [s_lock EXCEPT ![sb(p)] = None]
    /\ UNCHANGED <<s_imount, i_mount>>

Detaches(p, e) ==
    /\ pc[p] = "umount" /\ pc'[p] = "iput"
    /\ loc'[p].dev = dev(p) /\ loc'[p].dir = s_imount[e] /\ loc'[p].e = e
    /\ s_dev[e] = dev(p) /\ s_lock[e] = None /\ s_imount[e] # None
    /\ i_mount' = [i_mount EXCEPT ![s_imount[e]] = FALSE]
    /\ UNCHANGED <<entries, i_count, held>>

Detached(p) ==
    /\ pc[p] = "iput" /\ pc'[p] = "put_super" /\ DropsDir(p)
    /\ s_imount' = [s_imount EXCEPT ![sb(p)] = None]
    /\ UNCHANGED <<s_dev, s_lock, i_mount, held>>

Puts(p, e) ==
    /\ pc[p] = "put_super" /\ pc'[p] = "brelse" /\ loc'[p].dev = dev(p) /\ loc'[p].e = e
    /\ s_dev[e] = dev(p) /\ s_lock[e] = None /\ s_imount[e] = None
    /\ s_lock' = [s_lock EXCEPT ![e] = p] /\ s_dev' = [s_dev EXCEPT ![e] = None]
    /\ UNCHANGED <<s_imount, dirs, held>>

Frees(p) ==
    /\ pc[p] = "brelse" /\ pc'[p] = "idle"
    /\ held' = [held EXCEPT ![dev(p)] = held[dev(p)] - MAPS]
    /\ s_lock' = [s_lock EXCEPT ![sb(p)] = None]
    /\ UNCHANGED <<s_dev, s_imount, dirs>>

Enters(p, d, e) ==
    /\ pc[p] = "idle" /\ pc'[p] = "cross" /\ loc'[p].dir = d /\ loc'[p].e = e
    /\ i_mount[d] /\ s_imount[e] = d /\ i_count' = [i_count EXCEPT ![d] = i_count[d] + 1]
    /\ UNCHANGED <<entries, i_mount, held>>

Crosses(p) ==
    /\ pc[p] = "cross" /\ pc'[p] = "idle" /\ DropsDir(p)
    /\ UNCHANGED <<entries, i_mount, held>>

Does(p) ==
    \/ Quiet(p) \/ NoRoom(p) \/ Locks(p) \/ Reads(p) \/ Fails(p) \/ Detached(p)
    \/ Frees(p) \/ Crosses(p)
    \/ \E d \in Dirs : Starts(p, d)
    \/ \E e \in Entries : Mounts(p, e) \/ Refused(p, e) \/ Takes(p, e) \/ Detaches(p, e) \/ Puts(p, e)
    \/ \E d \in Dirs, e \in Entries : Enters(p, d, e)

LEMMA ActDoes ==
    ASSUME AnyInv, NEW p \in Procs, Acts(p)
    PROVE  Does(p)
<1>. /\ pc \in [Procs -> Labels] /\ loc \in [Procs -> Locals] /\ loc[p] \in Locals
     /\ TypeOK /\ CallInv
  BY DEF AnyInv, TypeOK
<1>. /\ pc[p] \in Mounting => dir(p) \in Dirs
     /\ pc[p] \in {"lock", "bread", "iput", "brelse", "cross"} => sb(p) \in Entries
  BY WorksOn DEF CallInv
<1>. USE DEF Goto, entries, dirs
<1>1. CASE Mount(p)
  <2>1. PICK v \in Devs, d \in Dirs, l \in Locals :
             /\ [op |-> "mount", dev |-> v, dir |-> d] \in calls[p]
             /\ ~i_mount[d] /\ i_count[d] = 0 /\ i_count' = [i_count EXCEPT ![d] = 1]
             /\ loc' = [loc EXCEPT ![p] = l] /\ l.dev = v /\ l.dir = d /\ l.n = 0
    BY <1>1, MountStarts
  <2>2. /\ pc[p] = "idle" /\ pc'[p] = "read_super"
        /\ UNCHANGED <<s_dev, s_lock, s_imount, i_mount, held>>
    BY <1>1 DEF Mount
  <2>3. Starts(p, d)
    BY <2>1, <2>2 DEF Starts
  <2>. QED
    BY <2>3 DEF Does
<1>2. CASE Iget(p)
  <2>1. PICK d \in Dirs, e \in Entries, l \in Locals :
             /\ [op |-> "enter", dir |-> d] \in calls[p]
             /\ i_mount[d] /\ s_imount[e] = d /\ i_count' = [i_count EXCEPT ![d] = i_count[d] + 1]
             /\ loc' = [loc EXCEPT ![p] = l] /\ l.dir = d /\ l.e = e
    BY <1>2, IgetStarts
  <2>2. /\ pc[p] = "idle" /\ pc'[p] = "cross"
        /\ UNCHANGED <<s_dev, s_lock, s_imount, i_mount, held>>
    BY <1>2 DEF Iget
  <2>3. Enters(p, d, e)
    BY <2>1, <2>2 DEF Enters
  <2>. QED
    BY <2>3 DEF Does
<1>3. CASE Umount(p) \/ Leave(p) \/ GivesUp(p)
  <2>1. pc[p] \in {"idle", "umount", "put_super"} /\ pc'[p] \in {"idle", "umount"}
    BY <1>3 DEF Umount, Leave, GivesUp, Done
  <2>2. UNCHANGED <<s_dev, s_lock, s_imount, i_mount, i_count, held>>
    BY <1>3 DEF Umount, Leave, GivesUp
  <2>3. Quiet(p)
    BY <2>1, <2>2 DEF Quiet, Calm
  <2>. QED
    BY <2>3 DEF Does
<1>4. CASE Waits(p)
  <2>1. /\ pc[p] \in {"read_super", "umount", "put_super"} /\ pc' = pc
        /\ UNCHANGED <<s_dev, s_lock, s_imount, i_mount, i_count, held>>
    BY <1>4 DEF Waits, wait_on_super
  <2>2. loc'[p] = [loc[p] EXCEPT !.wait = Entry(p)]
    BY <1>4 DEF Waits, wait_on_super
  <2>3. loc'[p].dev = dev(p) /\ loc'[p].dir = dir(p) /\ loc'[p].n = loc[p].n
    BY <2>2 DEF Locals, dev, dir
  <2>4. Quiet(p)
    BY <2>1, <2>3 DEF Quiet, Calm
  <2>. QED
    BY <2>4 DEF Does
<1>5. CASE ReadFull(p)
  <2>1. NoRoom(p)
    BY <1>5 DEF ReadFull, NoRoom, Done, DropsDir, iput
  <2>. QED
    BY <2>1 DEF Does
<1>6. CASE LockSuper(p)
  <2>1. Locks(p)
    BY <1>6 DEF LockSuper, Locks
  <2>. QED
    BY <2>1 DEF Does
<1>7. CASE ReadBlock(p)
  <2>1. loc'[p] = [loc[p] EXCEPT !.n = loc[p].n + 1]
    BY <1>7 DEF ReadBlock
  <2>2. /\ loc'[p].n = loc[p].n + 1 /\ loc'[p].dev = dev(p) /\ loc'[p].dir = dir(p)
        /\ loc'[p].e = sb(p)
    BY <2>1 DEF Locals, dev, dir, sb
  <2>3. Reads(p)
    BY <1>7, <2>2 DEF ReadBlock, Reads
  <2>. QED
    BY <2>3 DEF Does
<1>8. CASE ReadFails(p)
  <2>1. Fails(p)
    BY <1>8 DEF ReadFails, Fails, Done, DropsDir, iput, free_super
  <2>. QED
    BY <2>1 DEF Does
<1>9. CASE DetachDone(p)
  <2>1. Detached(p)
    BY <1>9 DEF DetachDone, Detached, DropsDir, iput
  <2>. QED
    BY <2>1 DEF Does
<1>10. CASE PutMaps(p)
  <2>1. Frees(p)
    BY <1>10 DEF PutMaps, Frees, Done, free_super
  <2>. QED
    BY <2>1 DEF Does
<1>11. CASE Cross(p)
  <2>1. Crosses(p)
    BY <1>11 DEF Cross, Crosses, Done, DropsDir, iput
  <2>. QED
    BY <2>1 DEF Does
<1>12. ASSUME NEW e \in Entries, Ends(p, e), Attach(p, e), dir(p) \in Dirs
       PROVE  Does(p)
  <2>1. Mounts(p, e) \/ Refused(p, e)
    BY <1>12, AttachIs DEF Mounts, Refused, DropsDir
  <2>. QED
    BY <2>1 DEF Does
<1>13. CASE ReadDone(p)
  <2>1. Ends(p, sb(p)) /\ Attach(p, sb(p)) /\ pc[p] = "bread"
    BY <1>13 DEF ReadDone, Ends, Done, free_super
  <2>. QED
    BY <1>12, <2>1 DEF Mounting, Reading
<1>14. ASSUME NEW e \in Entries, ReadFound(p, e) PROVE Does(p)
  <2>1. Ends(p, e) /\ Attach(p, e) /\ pc[p] = "read_super"
    BY <1>14 DEF ReadFound, Ends, Done
  <2>. QED
    BY <1>12, <2>1 DEF Mounting, Reading
<1>15. ASSUME NEW e \in Entries, ReadNew(p, e) PROVE Does(p)
  <2>1. loc'[p] = [loc[p] EXCEPT !.e = e, !.wait = 0]
    BY <1>15 DEF ReadNew
  <2>2. /\ loc'[p].dev = dev(p) /\ loc'[p].dir = dir(p) /\ loc'[p].e = e
        /\ loc'[p].n = loc[p].n
    BY <2>1 DEF Locals, dev, dir
  <2>3. /\ \/ s_lock[e] = None /\ s_lock' = [s_lock EXCEPT ![e] = p] /\ pc'[p] = "bread"
           \/ s_lock[e] # None /\ s_lock' = s_lock /\ pc'[p] = "lock"
        /\ UNCHANGED <<dirs, held>>
    BY <1>15 DEF ReadNew
  <2>4. /\ pc[p] = "read_super" /\ Having(dev(p)) = {} /\ s_dev[e] = None
        /\ s_dev' = [s_dev EXCEPT ![e] = dev(p)] /\ s_imount' = [s_imount EXCEPT ![e] = None]
    BY <1>15 DEF ReadNew
  <2>5. Takes(p, e)
    BY <2>2, <2>3, <2>4 DEF Takes
  <2>. QED
    BY <2>5 DEF Does
<1>16. ASSUME NEW e \in Entries, DetachFrom(p, e) PROVE Does(p)
  <2>1. loc'[p] = [loc[p] EXCEPT !.e = e, !.dir = s_imount[e], !.wait = 0]
    BY <1>16 DEF DetachFrom
  <2>2. /\ loc'[p].dev = dev(p) /\ loc'[p].dir = s_imount[e] /\ loc'[p].e = e
    BY <2>1 DEF Locals, dev
  <2>3. Detaches(p, e)
    BY <1>16, <2>2 DEF DetachFrom, Detaches
  <2>. QED
    BY <2>3 DEF Does
<1>17. ASSUME NEW e \in Entries, PutEntry(p, e) PROVE Does(p)
  <2>1. loc'[p] = [loc[p] EXCEPT !.e = e]
    BY <1>17 DEF PutEntry
  <2>2. loc'[p].dev = dev(p) /\ loc'[p].e = e
    BY <2>1 DEF Locals, dev
  <2>3. Puts(p, e)
    BY <1>17, <2>2 DEF PutEntry, Puts
  <2>. QED
    BY <2>3 DEF Does
<1>. QED
  BY <1>1, <1>2, <1>3, <1>4, <1>5, <1>6, <1>7, <1>8, <1>9, <1>10, <1>11, <1>13,
     <1>14, <1>15, <1>16, <1>17 DEF Acts

-----------------------------------------------------------------------------
(***************************************************************************)
(* What Apart says of the processes in the middle of their calls.          *)
(***************************************************************************)
LEMMA CallsApart ==
    ASSUME Apart(calls), Unmounts, NEW p \in Procs, NEW q \in Procs, p # q,
           NEW c \in calls[p], NEW b \in calls[q]
    PROVE  /\ c.op # "enter" /\ b.op # "enter" /\ c.dev = b.dev => c.dev = ROOT_DEV
           /\ c.op = "mount" /\ b.op = "enter" => c.dir # b.dir
BY DEF Apart, Unmounts

(* An umount and a mount, or two umounts, are of two devices, and so are   *)
(* two mounts if anything is unmounted at all.                             *)
LEMMA DevsApart ==
    ASSUME AnyInv, Apart(calls), NEW p \in Procs, NEW q \in Procs, p # q,
           pc[q] \in Mounting \union Unmounting,
           pc[p] \in Unmounting \/ (pc[p] \in Mounting /\ Unmounts /\ dev(p) # ROOT_DEV)
    PROVE  dev(p) # dev(q)
<1>. CallInv
  BY DEF AnyInv
<1>1. Unmounts /\ dev(p) # ROOT_DEV
  <2>1. ASSUME pc[p] \in Unmounting PROVE Unmounts /\ dev(p) # ROOT_DEV
    <3>. DEFINE c == [op |-> "umount", dev |-> dev(p)]
    <3>1. c \in calls[p] /\ dev(p) # ROOT_DEV
      BY <2>1 DEF CallInv
    <3>2. c.op = "umount" /\ c.dev = dev(p)
      OBVIOUS
    <3>. HIDE DEF c
    <3>. QED
      BY <3>1, <3>2 DEF Unmounts
  <2>. QED
    BY <2>1
<1>2. ASSUME NEW r \in Procs, pc[r] \in Mounting \union Unmounting
      PROVE  \E c \in calls[r] : c.op # "enter" /\ c.dev = dev(r)
  <2>1. CASE pc[r] \in Mounting
    <3>. DEFINE c == [op |-> "mount", dev |-> dev(r), dir |-> dir(r)]
    <3>1. c \in calls[r] /\ c.op # "enter" /\ c.dev = dev(r)
      BY <2>1 DEF CallInv
    <3>. QED
      BY <3>1
  <2>2. CASE pc[r] \in Unmounting
    <3>. DEFINE c == [op |-> "umount", dev |-> dev(r)]
    <3>1. c \in calls[r] /\ c.op # "enter" /\ c.dev = dev(r)
      BY <2>2 DEF CallInv
    <3>. QED
      BY <3>1
  <2>. QED
    BY <1>2, <2>1, <2>2
<1>3. PICK c \in calls[p] : c.op # "enter" /\ c.dev = dev(p)
  BY <1>2
<1>4. PICK b \in calls[q] : b.op # "enter" /\ b.dev = dev(q)
  BY <1>2
<1>. QED
  BY <1>1, <1>3, <1>4, CallsApart

(* Nobody walks through where the device of an umount is mounted.          *)
LEMMA WalksApart ==
    ASSUME AnyInv, ApartInv, Apart(calls), NEW p \in Procs, NEW q \in Procs,
           pc[p] = "cross", pc[q] = "iput"
    PROVE  sb(p) # sb(q)
<1>1. SUFFICES ASSUME sb(p) = sb(q) PROVE FALSE
  OBVIOUS
<1>2. /\ sb(q) \in Entries /\ s_dev[sb(q)] = dev(q) /\ s_imount[sb(q)] = dir(q) /\ dir(q) \in Dirs
      /\ dir(p) = dir(q)
  BY <1>1 DEF AnyInv, CallInv, ApartInv, UnmountInv
<1>. DEFINE u == [op |-> "umount", dev |-> dev(q)]
            w == [op |-> "enter", dir |-> dir(q)]
            m == [op |-> "mount", dev |-> dev(q), dir |-> dir(q)]
<1>3. u \in calls[q] /\ dev(q) # ROOT_DEV /\ w \in calls[p]
  BY <1>2 DEF AnyInv, CallInv, Unmounting
<1>4. PICK r \in Procs : m \in calls[r]
  BY <1>2 DEF ApartInv, PointInv
<1>5. /\ u.op = "umount" /\ u.dev = dev(q) /\ w.op = "enter" /\ w.dir = dir(q)
      /\ m.op = "mount" /\ m.dev = dev(q) /\ m.dir = dir(q)
  OBVIOUS
<1>. HIDE DEF u, w, m
<1>6. Unmounts
  BY <1>3, <1>5 DEF Unmounts
<1>7. r = q
  BY <1>3, <1>4, <1>5, <1>6, CallsApart
<1>. QED
  BY <1>3, <1>4, <1>5, <1>6, <1>7, CallsApart

(* A device being read is in the entry of its reader.                      *)
LEMMA SameEntry ==
    ASSUME AnyInv, ApartInv, NEW p \in Procs, pc[p] \in Reading, NEW e \in Entries
    PROVE  /\ sb(p) \in Entries /\ sb(p) # 1 /\ dev(p) \in Devs /\ dev(p) # ROOT_DEV
           /\ s_dev[e] = dev(p) => e = sb(p)
<1>1. /\ sb(p) \in Entries /\ sb(p) # 1 /\ dev(p) \in Devs
  BY WorksOn DEF AnyInv, CallInv, RootInv, Reading, Mounting
<1>2. s_dev[sb(p)] = dev(p) /\ s_dev[1] = ROOT_DEV /\ 1 \in Entries /\ dev(p) # None
  BY <1>1, EntriesAre, MountAssumption DEF AnyInv, RootInv, ApartInv, ReadInv
<1>. QED
  BY <1>1, <1>2 DEF AnyInv, DeviceOnce

(* An entry that a mount or an umount finds unlocked is nobody's to read.  *)
LEMMA FoundUnread ==
    ASSUME AnyInv, ApartInv, Apart(calls), NEW p \in Procs, NEW e \in Entries,
           pc[p] \in Mounting \union Unmounting, pc[p] \notin Reading,
           s_dev[e] = dev(p), s_lock[e] = None
    PROVE  ~BeingRead(e)
<1>. SUFFICES ASSUME NEW q \in Procs, pc[q] \in Reading, sb(q) = e PROVE FALSE
  BY DEF BeingRead
<1>1. p # q /\ pc[q] \in Mounting
  BY DEF Mounting
<1>2. dev(q) = dev(p) /\ dev(q) # ROOT_DEV
  BY SameEntry DEF ApartInv, ReadInv
<1>3. pc[q] = "lock"
  BY MountAssumption DEF ApartInv, ReadInv, Reading
<1>4. Unmounts
  BY <1>3 DEF ApartInv, ReadInv
<1>. QED
  BY <1>1, <1>2, <1>4, DevsApart

-----------------------------------------------------------------------------
(***************************************************************************)
(* Each part of ApartInv is kept by every step.                            *)
(***************************************************************************)
LEMMA LockStep ==
    ASSUME AnyInv, ApartInv, NEW p \in Procs, Does(p), Others(p)
    PROVE  LockInv'
<1>. SUFFICES ASSUME NEW e \in Entries, s_lock'[e] # None
     PROVE  pc'[s_lock'[e]] \in {"bread", "brelse"} /\ loc'[s_lock'[e]].e = e
  BY DEF LockInv, sb
<1>. DEFINE q == s_lock'[e]
<1>. /\ s_lock \in [Entries -> Procs \union {None}] /\ None \notin Procs
     /\ \A f \in Entries : s_lock[f] # None =>
           pc[s_lock[f]] \in {"bread", "brelse"} /\ loc[s_lock[f]].e = f
     /\ \A r \in Procs : r # p => pc'[r] = pc[r] /\ loc'[r] = loc[r]
  BY MountAssumption DEF AnyInv, TypeOK, ApartInv, LockInv, Others, sb
<1>1. CASE s_lock' = s_lock /\ pc[p] \notin {"bread", "brelse"}
  BY <1>1
<1>2. CASE s_lock' = [s_lock EXCEPT ![sb(p)] = None]
  BY <1>2 DEF sb
<1>3. ASSUME NEW f \in Entries, s_lock' = [s_lock EXCEPT ![f] = p], pc[p] \notin {"bread", "brelse"},
             pc'[p] \in {"bread", "brelse"}, loc'[p].e = f
      PROVE  pc'[q] \in {"bread", "brelse"} /\ loc'[q].e = e
  BY <1>3
<1>4. CASE Quiet(p) \/ NoRoom(p) \/ Detached(p) \/ Crosses(p)
           \/ (\E d \in Dirs : Starts(p, d)) \/ (\E d \in Dirs, f \in Entries : Enters(p, d, f))
  BY <1>1, <1>4 DEF Quiet, Calm, NoRoom, Detached, Crosses, Starts, Enters, entries
<1>5. CASE Reads(p)
  BY <1>5 DEF Reads, entries, sb
<1>6. CASE Fails(p) \/ Frees(p)
  BY <1>2, <1>6 DEF Fails, Frees
<1>7. CASE Locks(p)
  <2>1. sb(p) \in Entries
    BY <1>7 DEF Locks, AnyInv, CallInv
  <2>. QED
    BY <1>3, <1>7, <2>1 DEF Locks, sb
<1>8. ASSUME NEW f \in Entries, Ends(p, f)
      PROVE  pc'[q] \in {"bread", "brelse"} /\ loc'[q].e = e
  BY <1>1, <1>2, <1>8 DEF Ends
<1>9. ASSUME NEW f \in Entries, Takes(p, f)
      PROVE  pc'[q] \in {"bread", "brelse"} /\ loc'[q].e = e
  BY <1>1, <1>3, <1>9 DEF Takes
<1>10. ASSUME NEW f \in Entries, Detaches(p, f)
       PROVE  pc'[q] \in {"bread", "brelse"} /\ loc'[q].e = e
  BY <1>1, <1>10 DEF Detaches, entries
<1>11. ASSUME NEW f \in Entries, Puts(p, f)
       PROVE  pc'[q] \in {"bread", "brelse"} /\ loc'[q].e = e
  BY <1>3, <1>11 DEF Puts
<1>. QED
  BY <1>4, <1>5, <1>6, <1>7, <1>8, <1>9, <1>10, <1>11 DEF Does, Mounts, Refused

(* Of an entry that p reads, the others change nothing.                    *)
LEMMA ReadOther ==
    ASSUME AnyInv, ApartInv, Apart(calls), NEW p \in Procs, Does(p), Others(p),
           NEW q \in Procs, q # p, pc[q] \in Reading
    PROVE  /\ s_dev'[sb(q)] = dev(q) /\ s_imount'[sb(q)] = None
           /\ pc[q] = "bread" => s_lock'[sb(q)] = q
<1>. DEFINE e == sb(q)
<1>. DEFINE Goal == /\ s_dev'[e] = dev(q) /\ s_imount'[e] = None
                    /\ pc[q] = "bread" => s_lock'[e] = q
<1>. SUFFICES Goal
  OBVIOUS
<1>1. /\ s_dev \in [Entries -> Devs \union {None}] /\ s_lock \in [Entries -> Procs \union {None}]
      /\ s_imount \in [Entries -> Points] /\ None \notin Procs /\ None \notin Devs
      /\ e \in Entries /\ dev(q) \in Devs /\ dev(q) # ROOT_DEV
      /\ s_dev[e] = dev(q) /\ s_imount[e] = None
      /\ pc[q] = "bread" => s_lock[e] = q
  <2>1. /\ s_dev \in [Entries -> Devs \union {None}] /\ s_lock \in [Entries -> Procs \union {None}]
        /\ s_imount \in [Entries -> Points] /\ None \notin Procs /\ None \notin Devs
    BY MountAssumption DEF AnyInv, TypeOK
  <2>2. e \in Entries /\ dev(q) \in Devs /\ dev(q) # ROOT_DEV
    BY SameEntry, EntriesAre
  <2>3. /\ s_dev[e] = dev(q) /\ s_imount[e] = None
        /\ pc[q] = "bread" => s_lock[e] = q
    BY DEF ApartInv, ReadInv
  <2>. QED
    BY <2>1, <2>2, <2>3
<1>2. /\ pc[p] \in Reading => sb(p) # e
      /\ pc[p] = "brelse" => s_lock[sb(p)] = p
      /\ pc[p] \in Unmounting => dev(p) # dev(q)
      /\ pc[p] \in {"lock", "bread", "iput", "brelse", "cross"} => sb(p) \in Entries
  <2>1. pc[p] \in Reading => sb(p) # e
    BY DEF ApartInv, ReadInv
  <2>2. pc[p] \in Unmounting => dev(p) # dev(q)
    BY DevsApart DEF Mounting
  <2>. QED
    BY <2>1, <2>2 DEF ApartInv, UnmountInv, AnyInv, CallInv
<1>3. ASSUME NEW f \in Entries, s_dev[f] = dev(p), s_lock[f] = None, pc[p] = "read_super"
      PROVE  f # e
  BY <1>3, FoundUnread DEF BeingRead, Mounting, Reading
<1>. HIDE DEF e
<1>4. CASE Quiet(p) \/ NoRoom(p) \/ Crosses(p) \/ Reads(p)
           \/ (\E d \in Dirs : Starts(p, d)) \/ (\E d \in Dirs, f \in Entries : Enters(p, d, f))
           \/ (\E f \in Entries : Detaches(p, f))
  <2>1. UNCHANGED <<s_dev, s_lock, s_imount>>
    BY <1>4 DEF Quiet, NoRoom, Crosses, Reads, Starts, Enters, Detaches, entries
  <2>. QED
    BY <1>1, <2>1
<1>5. CASE Fails(p)
  <2>1. /\ s_dev' = [s_dev EXCEPT ![sb(p)] = None] /\ s_lock' = [s_lock EXCEPT ![sb(p)] = None]
        /\ s_imount' = s_imount /\ pc[p] \in Reading
    BY <1>5 DEF Fails, Reading
  <2>. QED
    BY <1>1, <1>2, <2>1
<1>6. CASE Frees(p)
  <2>1. /\ s_lock' = [s_lock EXCEPT ![sb(p)] = None] /\ pc[p] = "brelse"
        /\ s_dev' = s_dev /\ s_imount' = s_imount
    BY <1>6 DEF Frees
  <2>. QED
    BY <1>1, <1>2, <2>1
<1>7. CASE Locks(p)
  <2>1. /\ s_lock' = [s_lock EXCEPT ![sb(p)] = p] /\ pc[p] \in Reading /\ s_dev' = s_dev
        /\ s_imount' = s_imount
    BY <1>7 DEF Locks, Reading
  <2>. QED
    BY <1>1, <1>2, <2>1
<1>8. CASE Detached(p)
  <2>1. /\ s_imount' = [s_imount EXCEPT ![sb(p)] = None] /\ s_dev' = s_dev /\ s_lock' = s_lock
    BY <1>8 DEF Detached
  <2>. QED
    BY <1>1, <2>1
<1>9. ASSUME NEW f \in Entries, Mounts(p, f) PROVE Goal
  BY <1>1, <1>2, <1>3, <1>9 DEF Mounts, Ends, Reading
<1>10. ASSUME NEW f \in Entries, Refused(p, f) PROVE Goal
  BY <1>1, <1>2, <1>3, <1>10 DEF Refused, Ends, Reading
<1>11. ASSUME NEW f \in Entries, Takes(p, f) PROVE Goal
  BY <1>1, <1>2, <1>11 DEF Takes
<1>12. ASSUME NEW f \in Entries, Puts(p, f) PROVE Goal
  BY <1>1, <1>2, <1>12 DEF Puts, Unmounting
<1>. QED
  BY <1>4, <1>5, <1>6, <1>7, <1>8, <1>9, <1>10, <1>11, <1>12 DEF Does

(* An entry is found locked, when it is taken, only by its last device's   *)
(* put_super.                                                              *)
LEMMA LockedMeansUmount ==
    ASSUME AnyInv, ApartInv, NEW e \in Entries, s_dev[e] = None, s_lock[e] # None
    PROVE  Unmounts
<1>. DEFINE r == s_lock[e]
<1>1. r \in Procs /\ pc[r] \in {"bread", "brelse"} /\ sb(r) = e
  BY DEF AnyInv, TypeOK, ApartInv, LockInv
<1>. HIDE DEF r
<1>2. pc[r] # "bread"
  <2>1. ASSUME pc[r] = "bread" PROVE s_dev[e] = dev(r) /\ dev(r) # None
    BY <1>1, <2>1, WorksOn, MountAssumption DEF AnyInv, ApartInv, ReadInv, Reading, Mounting
  <2>. QED
    BY <2>1
<1>. DEFINE c == [op |-> "umount", dev |-> dev(r)]
<1>3. c \in calls[r] /\ dev(r) # ROOT_DEV /\ c.op = "umount" /\ c.dev = dev(r)
  BY <1>1, <1>2 DEF AnyInv, CallInv, Unmounting
<1>. HIDE DEF c
<1>. QED
  BY <1>1, <1>3 DEF Unmounts

(* Who reads after a step: whoever read, and p if it takes an entry.       *)
LEMMA ReaderIs ==
    ASSUME NEW p \in Procs, Does(p), pc'[p] \in Reading
    PROVE  Locks(p) \/ Reads(p) \/ \E e \in Entries : Takes(p, e)
BY DEF Does, Reading, Quiet, Calm, NoRoom, Fails, Detached, Frees, Crosses, Starts, Mounts,
       Refused, Ends, Detaches, Puts, Enters

LEMMA ReadStep ==
    ASSUME AnyInv, AnyInv', ApartInv, Apart(calls), NEW p \in Procs, Does(p), Others(p)
    PROVE  ReadInv'
<1>. DEFINE Own(q) == /\ s_dev'[loc'[q].e] = loc'[q].dev /\ s_imount'[loc'[q].e] = None
                      /\ pc'[q] = "lock" => Unmounts
                      /\ pc'[q] = "bread" => s_lock'[loc'[q].e] = q /\ loc'[q].n =< MAPS + 1
<1>. /\ \A q \in Procs : q # p => pc'[q] = pc[q] /\ loc'[q] = loc[q]
     /\ Unmounts' <=> Unmounts
  BY DEF Others, Unmounts
<1>1. ASSUME NEW q \in Procs, q # p, pc'[q] \in Reading PROVE Own(q)
  BY <1>1, ReadOther DEF ApartInv, ReadInv, dev, sb
<1>2. ASSUME NEW e \in Entries, Takes(p, e)
      PROVE  Own(p) /\ \A q \in Procs : q # p /\ pc'[q] \in Reading => loc'[q].e # e
  <2>1. s_dev[e] = None /\ loc'[p].e = e /\ loc[p].n = 0 /\ MAPS \in Nat
    BY <1>2, MountAssumption DEF Takes, ApartInv, MountInv, Mounting
  <2>2. ASSUME NEW q \in Procs, q # p, pc'[q] \in Reading PROVE loc'[q].e # e
    BY <2>1, <2>2, SameEntry, MountAssumption DEF ApartInv, ReadInv, sb
  <2>3. pc'[p] = "lock" => Unmounts
    BY <1>2, LockedMeansUmount DEF Takes
  <2>4. /\ s_dev' = [s_dev EXCEPT ![e] = dev(p)] /\ s_imount' = [s_imount EXCEPT ![e] = None]
        /\ loc'[p].dev = dev(p) /\ loc'[p].n = loc[p].n
        /\ pc'[p] = "bread" => s_lock' = [s_lock EXCEPT ![e] = p]
    BY <1>2 DEF Takes
  <2>. QED
    BY <2>1, <2>2, <2>3, <2>4 DEF AnyInv, TypeOK
<1>3. CASE Locks(p)
  <2>1. Own(p) /\ loc'[p].e = sb(p)
    BY <1>3, MountAssumption DEF Locks, ApartInv, ReadInv, MountInv, Mounting, Reading, dev, sb,
       AnyInv, TypeOK, CallInv
  <2>. QED
    BY <1>1, <1>3, <2>1 DEF Locks, ReadInv, ApartInv, Reading, dev, sb
<1>4. CASE Reads(p)
  <2>1. loc[p].n \in Nat /\ MAPS \in Nat
    BY MountAssumption DEF AnyInv, TypeOK, Locals
  <2>2. Own(p) /\ loc'[p].e = sb(p)
    BY <1>4, <2>1 DEF Reads, ApartInv, ReadInv, Reading, dev, sb, entries
  <2>. QED
    BY <1>1, <1>4, <2>2 DEF Reads, ReadInv, ApartInv, Reading, dev, sb
<1>5. ASSUME NEW e \in Entries, Takes(p, e) PROVE ReadInv'
  <2>1. ASSUME NEW q \in Procs, pc'[q] \in Reading PROVE Own(q)
    BY <1>1, <1>2, <1>5, <2>1
  <2>2. ASSUME NEW q \in Procs, NEW r \in Procs, pc'[q] \in Reading, pc'[r] \in Reading,
               loc'[q].e = loc'[r].e
        PROVE  q = r
    <3>1. loc'[p].e = e
      BY <1>5 DEF Takes
    <3>2. CASE q # p /\ r # p
      BY <2>2, <3>2 DEF ApartInv, ReadInv, sb
    <3>. QED
      BY <1>2, <1>5, <2>2, <3>1, <3>2
  <2>. QED
    BY <2>1, <2>2 DEF ReadInv, dev, sb
<1>6. CASE pc'[p] \notin Reading
  BY <1>1, <1>6 DEF ReadInv, ApartInv, dev, sb
<1>. QED
  BY <1>3, <1>4, <1>5, <1>6, ReaderIs

(* What a mount has its eye on is marked by nobody else, and nobody else   *)
(* comes to it.                                                            *)
LEMMA CountIs ==
    ASSUME AnyInv, ApartInv, NEW d \in Dirs, ~i_mount[d], i_count[d] = 0
    PROVE  /\ MountedOn(d) = {}
           /\ \A q \in Procs : pc[q] \in Mounting \union {"cross"} => dir(q) # d
<1>. DEFINE passing == {q \in Procs : pc[q] \in {"read_super", "lock", "bread", "cross"} /\ dir(q) = d}
<1>1. i_count[d] = Cardinality(MountedOn(d)) + Cardinality(passing)
  BY DEF ApartInv, DirsMatch
<1>2. IsFiniteSet(MountedOn(d)) /\ IsFiniteSet(passing)
  BY EntriesAre, MountAssumption, FS_Subset DEF MountedOn
<1>. HIDE DEF passing
<1>3. MountedOn(d) = {} /\ passing = {}
  BY <1>1, <1>2, CardType
<1>. QED
  BY <1>3 DEF passing, Mounting, Reading

LEMMA MountStep ==
    ASSUME AnyInv, AnyInv', ApartInv, NEW p \in Procs, Does(p), Others(p)
    PROVE  MountInv'
<1>. /\ \A q \in Procs : q # p => pc'[q] = pc[q] /\ loc'[q] = loc[q]
     /\ \A q \in Procs : pc[q] \in Mounting =>
           /\ pc[q] \in {"read_super", "lock"} => loc[q].n = 0
           /\ \A e \in Entries : s_imount[e] # dir(q)
           /\ \A r \in Procs : r # q /\ pc[r] \in Mounting \union {"cross"} => dir(r) # dir(q)
     /\ s_imount \in [Entries -> Points] /\ None \notin Dirs /\ RootDir \notin Dirs
  BY MountAssumption DEF Others, ApartInv, MountInv, MountedOn, AnyInv, TypeOK
<1>. DEFINE Stays == pc'[p] \in Mounting => /\ pc[p] \in Mounting /\ loc'[p].dir = dir(p)
                                            /\ pc'[p] \in {"read_super", "lock"} => loc'[p].n = 0
            Leaves == pc'[p] = "cross" => pc[p] = "cross" /\ loc'[p].dir = dir(p)
            Fresh(e) == s_imount' = [s_imount EXCEPT ![e] = None]
<1>1. ASSUME Stays, Leaves, s_imount' = s_imount \/ \E e \in Entries : Fresh(e)
      PROVE  MountInv'
  <2>1. ASSUME NEW q \in Procs, pc'[q] \in Mounting
        PROVE  /\ pc'[q] \in {"read_super", "lock"} => loc'[q].n = 0
               /\ \A e \in Entries : s_imount'[e] # loc'[q].dir
    <3>1. pc[q] \in Mounting /\ loc'[q].dir = dir(q)
      BY <1>1, <2>1 DEF dir
    <3>2. loc'[q].dir \in Dirs /\ \A e \in Entries : s_imount[e] # loc'[q].dir
      BY <3>1, WorksOn DEF AnyInv
    <3>. QED
      BY <1>1, <2>1, <3>1, <3>2
  <2>2. ASSUME NEW q \in Procs, NEW r \in Procs, pc'[q] \in Mounting, r # q,
               pc'[r] \in Mounting \union {"cross"}
        PROVE  loc'[r].dir # loc'[q].dir
    BY <1>1, <2>2 DEF dir
  <2>. QED
    BY <2>1, <2>2 DEF MountInv, MountedOn, dir
<1>2. CASE Quiet(p) \/ NoRoom(p) \/ Crosses(p) \/ Fails(p) \/ Frees(p)
           \/ (\E e \in Entries : Refused(p, e) \/ Detaches(p, e) \/ Puts(p, e))
  <2>1. Stays
    BY <1>2 DEF Quiet, Calm, NoRoom, Crosses, Fails, Frees, Refused, Ends, Detaches, Puts,
       Mounting, Reading
  <2>2. Leaves
    BY <1>2 DEF Quiet, Calm, NoRoom, Crosses, Fails, Frees, Refused, Ends, Detaches, Puts
  <2>3. s_imount' = s_imount
    BY <1>2 DEF Quiet, NoRoom, Crosses, Fails, Frees, Refused, Detaches, Puts, entries
  <2>. QED
    BY <1>1, <2>1, <2>2, <2>3
<1>3. CASE Locks(p) \/ Reads(p)
  BY <1>1, <1>3 DEF Locks, Reads, entries, Mounting, Reading, dir
<1>4. CASE Detached(p)
  <2>1. sb(p) \in Entries /\ Fresh(sb(p)) /\ Stays /\ Leaves
    BY <1>4 DEF Detached, Mounting, Reading, AnyInv, CallInv
  <2>. QED
    BY <1>1, <2>1
<1>5. ASSUME NEW e \in Entries, Takes(p, e) PROVE MountInv'
  <2>1. Fresh(e) /\ Stays /\ Leaves
    BY <1>5 DEF Takes, Mounting, Reading
  <2>. QED
    BY <1>1, <2>1
<1>6. ASSUME NEW e \in Entries, Mounts(p, e) PROVE MountInv'
  <2>1. /\ s_imount' = [s_imount EXCEPT ![e] = dir(p)] /\ pc[p] \in Mounting /\ pc'[p] = "idle"
    BY <1>6 DEF Mounts, Ends, Mounting, Reading
  <2>2. ASSUME NEW q \in Procs, pc'[q] \in Mounting
        PROVE  /\ q # p /\ pc[q] \in Mounting
               /\ \A f \in Entries : s_imount'[f] # loc'[q].dir
    BY <2>1, <2>2 DEF Mounting, Reading, dir
  <2>. QED
    BY <2>1, <2>2 DEF MountInv, MountedOn, dir
<1>7. ASSUME NEW d \in Dirs, Starts(p, d) PROVE MountInv'
  <2>1. /\ MountedOn(d) = {} /\ \A q \in Procs : pc[q] \in Mounting \union {"cross"} => dir(q) # d
    BY <1>7, CountIs DEF Starts
  <2>2. pc'[p] = "read_super" /\ loc'[p].dir = d /\ loc'[p].n = 0 /\ s_imount' = s_imount
    BY <1>7 DEF Starts, entries
  <2>. QED
    BY <2>1, <2>2 DEF MountInv, MountedOn, dir
<1>8. ASSUME NEW d \in Dirs, NEW e \in Entries, Enters(p, d, e) PROVE MountInv'
  <2>1. pc'[p] = "cross" /\ loc'[p].dir = s_imount[e] /\ s_imount' = s_imount
    BY <1>8 DEF Enters, entries
  <2>. QED
    BY <2>1 DEF MountInv, MountedOn, Mounting, Reading, dir
<1>. QED
  BY <1>2, <1>3, <1>4, <1>5, <1>6, <1>7, <1>8 DEF Does

(* The entry an umount goes through, or gives up, is the others' in        *)
(* nothing, nor does anybody bring its device back.                        *)
LEMMA UnmountOther ==
    ASSUME AnyInv, ApartInv, Apart(calls), NEW p \in Procs, Does(p), Others(p),
           NEW q \in Procs, q # p
    PROVE  /\ pc[q] = "iput" => s_dev'[sb(q)] = dev(q) /\ s_imount'[sb(q)] = dir(q)
           /\ pc[q] = "brelse" => /\ s_lock'[sb(q)] = q
                                  /\ \A e \in Entries : s_dev'[e] # dev(q)
           /\ pc[q] = "cross" => s_imount'[sb(q)] = dir(q)
<1>. DEFINE e == sb(q)
            Goal == /\ pc[q] = "iput" => s_dev'[e] = dev(q) /\ s_imount'[e] = dir(q)
                    /\ pc[q] = "brelse" => /\ s_lock'[e] = q
                                           /\ \A f \in Entries : s_dev'[f] # dev(q)
                    /\ pc[q] = "cross" => s_imount'[e] = dir(q)
<1>. SUFFICES ASSUME pc[q] \in {"iput", "brelse", "cross"} PROVE Goal
  OBVIOUS
<1>1. /\ s_dev \in [Entries -> Devs \union {None}] /\ s_lock \in [Entries -> Procs \union {None}]
      /\ s_imount \in [Entries -> Points] /\ None \notin Procs /\ None \notin Devs /\ None \notin Dirs
  BY MountAssumption DEF AnyInv, TypeOK
<1>2. /\ e \in Entries
      /\ pc[q] \in {"iput", "brelse"} => dev(q) \in Devs
      /\ pc[q] \in {"iput", "cross"} => dir(q) \in Dirs /\ s_imount[e] = dir(q)
      /\ pc[q] \in {"iput", "cross"} => s_dev[e] # None
      /\ pc[q] = "iput" => s_dev[e] = dev(q)
      /\ pc[q] = "brelse" => s_lock[e] = q /\ \A f \in Entries : s_dev[f] # dev(q)
  <2>1. e \in Entries
    BY DEF AnyInv, CallInv
  <2>2. pc[q] \in {"iput", "brelse"} => dev(q) \in Devs
    BY WorksOn DEF AnyInv, Unmounting
  <2>3. pc[q] \in {"iput", "cross"} => dir(q) \in Dirs /\ s_imount[e] = dir(q)
    BY WorksOn DEF AnyInv, ApartInv, UnmountInv
  <2>4. pc[q] \in {"iput", "cross"} => s_dev[e] # None
    BY <1>1, <2>1, <2>3 DEF ApartInv, MountedReady, Ready
  <2>. QED
    BY <2>1, <2>2, <2>3, <2>4 DEF ApartInv, UnmountInv, Having
<1>3. pc[q] \in {"iput", "brelse"} /\ pc[p] \in Mounting \union Unmounting => dev(p) # dev(q)
  BY DevsApart DEF Unmounting
<1>4. /\ pc[p] \in {"lock", "bread", "iput", "brelse", "cross"} => sb(p) \in Entries
      /\ pc[p] \in Reading => s_dev[sb(p)] = dev(p) /\ s_imount[sb(p)] = None
      /\ pc[p] = "bread" => s_lock[sb(p)] = p
      /\ pc[p] = "iput" => s_dev[sb(p)] = dev(p)
      /\ pc[p] = "brelse" => s_lock[sb(p)] = p
      /\ pc[q] = "cross" /\ pc[p] = "iput" => sb(p) # e
  BY WalksApart DEF AnyInv, CallInv, ApartInv, ReadInv, UnmountInv, Reading
<1>. HIDE DEF e
<1>5. CASE Quiet(p) \/ NoRoom(p) \/ Crosses(p) \/ Reads(p)
           \/ (\E d \in Dirs : Starts(p, d)) \/ (\E d \in Dirs, f \in Entries : Enters(p, d, f))
           \/ (\E f \in Entries : Detaches(p, f))
  <2>1. UNCHANGED <<s_dev, s_lock, s_imount>>
    BY <1>5 DEF Quiet, NoRoom, Crosses, Reads, Starts, Enters, Detaches, entries
  <2>. QED
    BY <1>1, <1>2, <2>1
<1>6. CASE Fails(p)
  <2>1. /\ s_dev' = [s_dev EXCEPT ![sb(p)] = None] /\ s_lock' = [s_lock EXCEPT ![sb(p)] = None]
        /\ s_imount' = s_imount /\ pc[p] = "bread"
    BY <1>6 DEF Fails
  <2>. QED
    BY <1>1, <1>2, <1>3, <1>4, <2>1 DEF Mounting, Reading
<1>7. CASE Frees(p)
  <2>1. /\ s_lock' = [s_lock EXCEPT ![sb(p)] = None] /\ pc[p] = "brelse"
        /\ s_dev' = s_dev /\ s_imount' = s_imount
    BY <1>7 DEF Frees
  <2>. QED
    BY <1>1, <1>2, <1>4, <2>1
<1>8. CASE Locks(p)
  <2>1. /\ s_lock[sb(p)] = None /\ s_lock' = [s_lock EXCEPT ![sb(p)] = p]
        /\ s_dev' = s_dev /\ s_imount' = s_imount
    BY <1>8 DEF Locks
  <2>. QED
    BY <1>1, <1>2, <2>1
<1>9. CASE Detached(p)
  <2>1. /\ s_imount' = [s_imount EXCEPT ![sb(p)] = None] /\ s_dev' = s_dev /\ s_lock' = s_lock
        /\ pc[p] = "iput"
    BY <1>9 DEF Detached
  <2>. QED
    BY <1>1, <1>2, <1>3, <1>4, <2>1 DEF Unmounting
<1>10. ASSUME NEW f \in Entries, Ends(p, f),
              s_imount' = s_imount \/ (s_imount[f] = None /\ s_imount' = [s_imount EXCEPT ![f] = dir(p)])
       PROVE  Goal
  <2>1. s_dev' = s_dev
    BY <1>10 DEF Ends
  <2>2. pc[q] = "brelse" => s_lock'[e] = q
    BY <1>1, <1>2, <1>4, <1>10 DEF Ends, Reading
  <2>3. pc[q] \in {"iput", "cross"} => s_imount'[e] = s_imount[e]
    BY <1>1, <1>2, <1>10
  <2>. QED
    BY <1>1, <1>2, <2>1, <2>2, <2>3
<1>11. ASSUME NEW f \in Entries, Takes(p, f) PROVE Goal
  <2>1. /\ s_dev[f] = None /\ s_dev' = [s_dev EXCEPT ![f] = dev(p)]
        /\ s_imount' = [s_imount EXCEPT ![f] = None] /\ pc[p] = "read_super"
        /\ s_lock' = s_lock \/ (s_lock[f] = None /\ s_lock' = [s_lock EXCEPT ![f] = p])
    BY <1>11 DEF Takes
  <2>. QED
    BY <1>1, <1>2, <1>3, <2>1 DEF Mounting
<1>12. ASSUME NEW f \in Entries, Puts(p, f) PROVE Goal
  <2>1. /\ s_dev[f] = dev(p) /\ s_dev' = [s_dev EXCEPT ![f] = None] /\ pc[p] = "put_super"
        /\ s_lock[f] = None /\ s_lock' = [s_lock EXCEPT ![f] = p] /\ s_imount' = s_imount
    BY <1>12 DEF Puts
  <2>. QED
    BY <1>1, <1>2, <1>3, <2>1 DEF Unmounting
<1>. QED
  BY <1>5, <1>6, <1>7, <1>8, <1>9, <1>10, <1>11, <1>12 DEF Does, Mounts, Refused

LEMMA UnmountStep ==
    ASSUME AnyInv, AnyInv', ApartInv, Apart(calls), NEW p \in Procs, Does(p), Others(p)
    PROVE  UnmountInv'
<1>. DEFINE Goal(q) ==
        /\ pc'[q] = "iput" => /\ s_dev'[loc'[q].e] = loc'[q].dev /\ s_imount'[loc'[q].e] = loc'[q].dir
                              /\ loc'[q].dir \in Dirs
        /\ pc'[q] = "brelse" => /\ s_lock'[loc'[q].e] = q
                                /\ \A e \in Entries : s_dev'[e] # loc'[q].dev
        /\ pc'[q] = "cross" => s_imount'[loc'[q].e] = loc'[q].dir
<1>. SUFFICES ASSUME NEW q \in Procs PROVE Goal(q)
  BY DEF UnmountInv, Having, dev, dir, sb
<1>. /\ s_dev \in [Entries -> Devs \union {None}] /\ s_lock \in [Entries -> Procs \union {None}]
     /\ s_imount \in [Entries -> Points]
  BY DEF AnyInv, TypeOK
<1>1. CASE q # p
  <2>1. pc'[q] = pc[q] /\ loc'[q] = loc[q]
    BY <1>1 DEF Others
  <2>2. pc[q] = "iput" => dir(q) \in Dirs
    BY DEF ApartInv, UnmountInv
  <2>. QED
    BY <1>1, <2>1, <2>2, UnmountOther DEF dev, dir, sb
<1>2. ASSUME NEW e \in Entries, Detaches(p, e), q = p PROVE Goal(q)
  <2>1. /\ pc[p] = "umount" /\ loc'[p].dev = dev(p) /\ loc'[p].dir = s_imount[e] /\ loc'[p].e = e
        /\ s_dev[e] = dev(p) /\ s_imount[e] # None /\ pc'[p] = "iput"
        /\ s_dev' = s_dev /\ s_imount' = s_imount
    BY <1>2 DEF Detaches, entries
  <2>2. s_imount[e] \in Dirs
    BY <2>1, WorksOn DEF AnyInv, RootInv, Points, Unmounting
  <2>. QED
    BY <1>2, <2>1, <2>2
<1>3. ASSUME NEW e \in Entries, Puts(p, e), q = p PROVE Goal(q)
  <2>1. /\ pc[p] = "put_super" /\ loc'[p].dev = dev(p) /\ loc'[p].e = e /\ pc'[p] = "brelse"
        /\ s_dev[e] = dev(p) /\ s_lock' = [s_lock EXCEPT ![e] = p]
        /\ s_dev' = [s_dev EXCEPT ![e] = None]
    BY <1>3 DEF Puts
  <2>2. dev(p) # None
    BY <2>1, WorksOn, MountAssumption DEF AnyInv, Unmounting
  <2>3. \A f \in Entries : s_dev[f] = dev(p) => f = e
    BY <2>1, <2>2 DEF AnyInv, DeviceOnce
  <2>. QED
    BY <1>3, <2>1, <2>2, <2>3
<1>4. ASSUME NEW d \in Dirs, NEW e \in Entries, Enters(p, d, e), q = p PROVE Goal(q)
  BY <1>4 DEF Enters, entries
<1>5. CASE q = p /\ pc'[p] \notin {"iput", "brelse", "cross"}
  BY <1>5
<1>6. Does(p) /\ pc'[p] \in {"iput", "brelse", "cross"} =>
          \/ \E e \in Entries : Detaches(p, e) \/ Puts(p, e)
          \/ \E d \in Dirs, e \in Entries : Enters(p, d, e)
  BY DEF Does, Quiet, Calm, NoRoom, Locks, Reads, Fails, Detached, Frees, Crosses, Starts,
     Mounts, Refused, Ends, Takes
<1>. QED
  BY <1>1, <1>2, <1>3, <1>4, <1>5, <1>6

LEMMA PointStep ==
    ASSUME AnyInv, ApartInv, Apart(calls), NEW p \in Procs, Does(p), Others(p)
    PROVE  PointInv'
<1>. DEFINE Called(v, d) == \E q \in Procs : [op |-> "mount", dev |-> v, dir |-> d] \in calls[q]
            Once == \A e, f \in Entries : s_imount'[e] = s_imount'[f] /\ s_imount'[e] # None => e = f
            Known == \A e \in Entries : s_imount'[e] \in Dirs => Called(s_dev'[e], s_imount'[e])
<1>0. SUFFICES Once /\ Known
  BY DEF PointInv, Others
<1>1. /\ s_dev \in [Entries -> Devs \union {None}] /\ s_imount \in [Entries -> Points]
      /\ None \notin Dirs
      /\ \A e, f \in Entries : s_imount[e] = s_imount[f] /\ s_imount[e] # None => e = f
      /\ \A e \in Entries : s_imount[e] \in Dirs => Called(s_dev[e], s_imount[e])
  BY MountAssumption DEF AnyInv, TypeOK, ApartInv, PointInv
<1>. HIDE DEF Called
<1>2. CASE Quiet(p) \/ NoRoom(p) \/ Crosses(p) \/ Reads(p) \/ Frees(p) \/ Locks(p)
           \/ (\E d \in Dirs : Starts(p, d)) \/ (\E d \in Dirs, f \in Entries : Enters(p, d, f))
           \/ (\E f \in Entries : Detaches(p, f) \/ Refused(p, f))
  <2>1. UNCHANGED <<s_dev, s_imount>>
    BY <1>2 DEF Quiet, NoRoom, Crosses, Reads, Frees, Locks, Starts, Enters, Detaches, Refused,
       Ends, entries
  <2>. QED
    BY <1>1, <2>1
<1>3. CASE Fails(p)
  <2>1. s_dev' = [s_dev EXCEPT ![sb(p)] = None] /\ s_imount' = s_imount /\ s_imount[sb(p)] = None
    BY <1>3 DEF Fails, ApartInv, ReadInv, Reading
  <2>. QED
    BY <1>1, <2>1
<1>4. CASE Detached(p)
  <2>1. s_imount' = [s_imount EXCEPT ![sb(p)] = None] /\ s_dev' = s_dev
    BY <1>4 DEF Detached
  <2>. QED
    BY <1>1, <2>1
<1>5. ASSUME NEW e \in Entries, Takes(p, e) PROVE Once /\ Known
  <2>1. s_dev' = [s_dev EXCEPT ![e] = dev(p)] /\ s_imount' = [s_imount EXCEPT ![e] = None]
    BY <1>5 DEF Takes
  <2>. QED
    BY <1>1, <2>1
<1>6. ASSUME NEW e \in Entries, Puts(p, e) PROVE Once /\ Known
  <2>1. s_dev' = [s_dev EXCEPT ![e] = None] /\ s_imount' = s_imount /\ s_imount[e] = None
    BY <1>6 DEF Puts
  <2>. QED
    BY <1>1, <2>1
<1>7. ASSUME NEW e \in Entries, Mounts(p, e) PROVE Once /\ Known
  <2>1. s_dev' = s_dev /\ s_imount' = [s_imount EXCEPT ![e] = dir(p)] /\ pc[p] \in Mounting
    BY <1>7 DEF Mounts, Ends, Mounting, Reading
  <2>2. s_dev[e] = dev(p)
    BY <1>7 DEF Mounts, Ends, ApartInv, ReadInv, Reading
  <2>3. \A f \in Entries : s_imount[f] # dir(p)
    BY <2>1 DEF ApartInv, MountInv, MountedOn
  <2>4. Called(dev(p), dir(p))
    BY <2>1 DEF Called, AnyInv, CallInv
  <2>. QED
    BY <1>1, <2>1, <2>2, <2>3, <2>4
<1>. QED
  BY <1>2, <1>3, <1>4, <1>5, <1>6, <1>7 DEF Does

(* Nobody else reads the device of a process in a call, nor gives it back. *)
LEMMA AloneOn ==
    ASSUME AnyInv, ApartInv, Apart(calls), NEW p \in Procs, NEW q \in Procs, q # p, dev(q) = dev(p)
    PROVE  /\ pc[p] \in Mounting \union Unmounting => pc[q] # "brelse"
           /\ pc[p] \in Reading => pc[q] \notin Reading
           /\ pc[p] \in Unmounting => pc[q] \notin Reading
<1>1. pc[p] \in Mounting \union Unmounting => pc[q] # "brelse"
  BY DevsApart DEF Unmounting
<1>2. pc[p] \in Unmounting => pc[q] \notin Reading
  BY DevsApart DEF Mounting
<1>3. ASSUME pc[p] \in Reading, pc[q] \in Reading PROVE FALSE
  <2>1. sb(p) = sb(q)
    <3>1. sb(q) \in Entries /\ s_dev[sb(q)] = dev(p)
      BY <1>3, SameEntry, EntriesAre DEF ApartInv, ReadInv
    <3>. QED
      BY <1>3, <3>1, SameEntry
  <2>. QED
    BY <1>3, <2>1 DEF ApartInv, ReadInv
<1>. QED
  BY <1>1, <1>2, <1>3

LEMMA HeldStep ==
    ASSUME AnyInv, ApartInv, Apart(calls), NEW p \in Procs, Does(p), Others(p)
    PROVE  HeldInv'
<1>. DEFINE sofar(l) == IF l.n = 0 THEN 0 ELSE l.n - 1
            Whole(d) == \A e \in Entries :
                s_dev'[e] = d /\ (\A q \in Procs : pc'[q] \in Reading => loc'[q].e # e)
                => held'[d] = MAPS
            Partly(d) == \A q \in Procs :
                pc'[q] \in Reading /\ loc'[q].dev = d => held'[d] = sofar(loc'[q])
            Given(d) == \A q \in Procs : pc'[q] = "brelse" /\ loc'[q].dev = d => held'[d] = MAPS
            Gone(d) == (\A e \in Entries : s_dev'[e] # d)
                       /\ (\A q \in Procs : pc'[q] = "brelse" => loc'[q].dev # d) => held'[d] = 0
<1>. SUFFICES ASSUME NEW d \in Devs PROVE Whole(d) /\ Partly(d) /\ Given(d) /\ Gone(d)
  BY DEF HeldInv, Having, BeingRead, Putting, dev, sb
<1>1. /\ \A e \in Entries :
            s_dev[e] = d /\ (\A q \in Procs : pc[q] \in Reading => loc[q].e # e) => held[d] = MAPS
      /\ \A q \in Procs : pc[q] \in Reading /\ loc[q].dev = d => held[d] = sofar(loc[q])
      /\ \A q \in Procs : pc[q] = "brelse" /\ loc[q].dev = d => held[d] = MAPS
      /\ (\A e \in Entries : s_dev[e] # d)
         /\ (\A q \in Procs : pc[q] = "brelse" => loc[q].dev # d) => held[d] = 0
  BY DEF ApartInv, HeldInv, Having, BeingRead, Putting, dev, sb
<1>2. /\ s_dev \in [Entries -> Devs \union {None}] /\ held \in [Devs -> Int] /\ MAPS \in Nat
      /\ loc[p].n \in Nat /\ None \notin Devs
  BY MountAssumption DEF AnyInv, TypeOK, Locals
<1>3. \A q \in Procs : q # p => pc'[q] = pc[q] /\ loc'[q] = loc[q]
  BY DEF Others
<1>. HIDE DEF sofar
<1>4. CASE /\ s_dev' = s_dev /\ held' = held
           /\ pc'[p] \in Reading <=> pc[p] \in Reading
           /\ pc'[p] \in Reading => loc'[p] = loc[p]
           /\ pc'[p] # "brelse" /\ pc[p] # "brelse"
  <2>1. \A q \in Procs : /\ pc'[q] \in Reading <=> pc[q] \in Reading
                         /\ pc'[q] \in Reading => loc'[q] = loc[q]
                         /\ pc'[q] = "brelse" <=> pc[q] = "brelse"
                         /\ pc'[q] = "brelse" => loc'[q] = loc[q]
    BY <1>3, <1>4
  <2>. QED
    BY <1>1, <1>4, <2>1
<1>5. CASE Quiet(p) \/ NoRoom(p) \/ Crosses(p) \/ Detached(p) \/ Locks(p)
           \/ (\E c \in Dirs : Starts(p, c)) \/ (\E c \in Dirs, f \in Entries : Enters(p, c, f))
           \/ (\E f \in Entries : Detaches(p, f))
  <2>1. s_dev' = s_dev /\ held' = held
    BY <1>5 DEF Quiet, NoRoom, Crosses, Detached, Locks, Starts, Enters, Detaches, entries
  <2>2. /\ pc'[p] \in Reading <=> pc[p] \in Reading
        /\ pc'[p] \in Reading => loc'[p] = loc[p]
        /\ pc'[p] # "brelse" /\ pc[p] # "brelse"
    BY <1>5 DEF Quiet, Calm, NoRoom, Crosses, Detached, Locks, Starts, Enters, Detaches, Reading
  <2>. QED
    BY <1>4, <2>1, <2>2
<1>6. ASSUME NEW f \in Entries, Ends(p, f)
      PROVE  Whole(d) /\ Partly(d) /\ Given(d) /\ Gone(d)
  <2>1. CASE pc[p] = "read_super"
    BY <1>4, <1>6, <2>1 DEF Ends, Reading
  <2>2. CASE pc[p] = "bread"
    <3>1. /\ loc[p].e = f /\ loc[p].n = MAPS + 1 /\ pc'[p] = "idle" /\ s_dev' = s_dev /\ held' = held
          /\ s_dev[f] = loc[p].dev
      BY <1>6, <2>2 DEF Ends, ApartInv, ReadInv, Reading, sb, dev
    <3>2. sofar(loc[p]) = MAPS
      BY <1>2, <3>1 DEF sofar
    <3>3. Whole(d)
      BY <1>1, <1>3, <2>2, <3>1, <3>2 DEF Reading
    <3>4. Partly(d) /\ Given(d)
      BY <1>1, <1>3, <3>1 DEF Reading
    <3>5. Gone(d)
      BY <1>1, <1>3, <2>2, <3>1
    <3>. QED
      BY <3>3, <3>4, <3>5
  <2>. QED
    BY <1>6, <2>1, <2>2 DEF Ends
<1>7. ASSUME pc[p] \in Reading
      PROVE  /\ loc[p].e \in Entries /\ s_dev[loc[p].e] = loc[p].dev /\ loc[p].dev \in Devs
             /\ held[loc[p].dev] = sofar(loc[p])
             /\ \A e \in Entries : s_dev[e] = loc[p].dev => e = loc[p].e
             /\ \A q \in Procs : q # p /\ loc[q].dev = loc[p].dev =>
                   pc[q] # "brelse" /\ pc[q] \notin Reading
  <2>1. loc[p].e \in Entries /\ s_dev[loc[p].e] = loc[p].dev /\ loc[p].dev \in Devs
    BY <1>7, SameEntry, EntriesAre DEF ApartInv, ReadInv, sb, dev
  <2>2. held[loc[p].dev] = sofar(loc[p])
    BY <1>7, <2>1 DEF ApartInv, HeldInv, dev, sofar
  <2>3. \A e \in Entries : s_dev[e] = loc[p].dev => e = loc[p].e
    BY <1>7, SameEntry DEF sb, dev
  <2>4. \A q \in Procs : q # p /\ loc[q].dev = loc[p].dev =>
                   pc[q] # "brelse" /\ pc[q] \notin Reading
    BY <1>7, AloneOn DEF dev, Mounting
  <2>. QED
    BY <2>1, <2>2, <2>3, <2>4
<1>8. CASE Reads(p)
  <2>. DEFINE v == loc[p].dev
  <2>1. /\ pc[p] = "bread" /\ pc'[p] = "bread" /\ s_dev' = s_dev
        /\ loc'[p].n = loc[p].n + 1 /\ loc'[p].dev = v /\ loc'[p].e = loc[p].e
        /\ held' = [held EXCEPT ![v] = IF loc[p].n = 0 THEN held[v] ELSE held[v] + 1]
    BY <1>8 DEF Reads, dev, sb, entries
  <2>. HIDE DEF v
  <2>2. CASE d # v
    <3>1. held'[d] = held[d]
      BY <1>2, <2>1, <2>2
    <3>. QED
      BY <1>1, <1>3, <2>1, <2>2, <3>1 DEF Reading, v
  <2>3. CASE d = v
    <3>1. held'[d] = sofar(loc'[p])
      BY <1>2, <1>7, <2>1, <2>3 DEF sofar, Reading, v
    <3>2. Whole(d)
      BY <1>7, <2>1, <2>3 DEF Reading, v
    <3>3. Partly(d) /\ Given(d)
      BY <1>3, <1>7, <2>1, <2>3, <3>1 DEF Reading, v
    <3>4. Gone(d)
      BY <1>7, <2>1, <2>3 DEF Reading, v
    <3>. QED
      BY <3>2, <3>3, <3>4
  <2>. QED
    BY <2>2, <2>3
<1>9. CASE Fails(p)
  <2>. DEFINE v == loc[p].dev
  <2>1. /\ pc[p] = "bread" /\ pc'[p] = "idle"
        /\ s_dev' = [s_dev EXCEPT ![loc[p].e] = None]
        /\ held' = [held EXCEPT ![v] = IF loc[p].n = 0 THEN held[v] ELSE held[v] - (loc[p].n - 1)]
    BY <1>9 DEF Fails, dev, sb
  <2>. HIDE DEF v
  <2>2. CASE d # v
    <3>1. /\ held'[d] = held[d]
          /\ \A e \in Entries : s_dev'[e] = d <=> s_dev[e] = d
      BY <1>2, <1>7, <2>1, <2>2 DEF Reading, v
    <3>2. Whole(d)
      BY <1>1, <1>3, <1>7, <2>1, <2>2, <3>1 DEF Reading, v
    <3>. QED
      BY <1>1, <1>3, <2>1, <2>2, <3>1, <3>2 DEF Reading, v
  <2>3. CASE d = v
    <3>1. held'[d] = 0
      BY <1>2, <1>7, <2>1, <2>3 DEF sofar, Reading, v
    <3>2. \A e \in Entries : s_dev'[e] # d
      BY <1>2, <1>7, <2>1, <2>3 DEF Reading, v
    <3>3. Partly(d) /\ Given(d)
      BY <1>3, <1>7, <2>1, <2>3 DEF Reading, v
    <3>. QED
      BY <3>1, <3>2, <3>3
  <2>. QED
    BY <2>2, <2>3
<1>10. CASE Frees(p)
  <2>. DEFINE v == loc[p].dev
  <2>1. /\ pc[p] = "brelse" /\ pc'[p] = "idle" /\ s_dev' = s_dev
        /\ held' = [held EXCEPT ![v] = held[v] - MAPS]
    BY <1>10 DEF Frees, dev
  <2>2. /\ \A e \in Entries : s_dev[e] # v
        /\ \A q \in Procs : q # p /\ loc[q].dev = v => pc[q] # "brelse" /\ pc[q] \notin Reading
    BY <2>1, AloneOn DEF ApartInv, UnmountInv, Having, dev, Unmounting
  <2>. HIDE DEF v
  <2>3. CASE d # v
    <3>1. held'[d] = held[d]
      BY <1>2, <2>1, <2>3
    <3>. QED
      BY <1>1, <1>3, <2>1, <2>3, <3>1 DEF Reading, v
  <2>4. CASE d = v
    <3>1. held'[d] = 0
      BY <1>1, <1>2, <2>1, <2>4 DEF v
    <3>. QED
      BY <1>3, <2>1, <2>2, <2>4, <3>1 DEF Reading
  <2>. QED
    BY <2>3, <2>4
<1>11. ASSUME NEW f \in Entries, Takes(p, f)
       PROVE  Whole(d) /\ Partly(d) /\ Given(d) /\ Gone(d)
  <2>. DEFINE v == loc[p].dev
  <2>1. /\ pc[p] = "read_super" /\ pc'[p] \in Reading /\ s_dev[f] = None /\ loc[p].n = 0
        /\ s_dev' = [s_dev EXCEPT ![f] = v] /\ loc'[p].dev = v /\ loc'[p].e = f /\ loc'[p].n = 0
        /\ held' = held /\ \A e \in Entries : s_dev[e] # v
    BY <1>11 DEF Takes, dev, Reading, Having, ApartInv, MountInv, Mounting
  <2>2. \A q \in Procs : q # p /\ loc[q].dev = v => pc[q] # "brelse"
    BY <2>1, AloneOn DEF dev, Mounting
  <2>3. \A q \in Procs : loc[q].dev = v => pc[q] \notin Reading
    BY <2>1, SameEntry DEF dev, ApartInv, ReadInv, sb
  <2>. HIDE DEF v
  <2>4. CASE d # v
    <3>1. \A e \in Entries : s_dev'[e] = d <=> s_dev[e] = d
      BY <1>2, <2>1, <2>4
    <3>2. \A e \in Entries : s_dev'[e] = d => e # f
      BY <1>2, <2>1, <2>4
    <3>3. Whole(d)
      BY <1>1, <1>3, <2>1, <3>1, <3>2 DEF Reading
    <3>. QED
      BY <1>1, <1>3, <2>1, <2>4, <3>1, <3>3 DEF Reading
  <2>5. CASE d = v
    <3>1. held'[d] = 0 /\ s_dev'[f] = d
      BY <1>1, <1>2, <2>1, <2>2, <2>5
    <3>2. sofar(loc'[p]) = 0
      BY <2>1 DEF sofar
    <3>3. Whole(d)
      BY <1>2, <2>1, <2>5
    <3>. QED
      BY <1>3, <2>1, <2>2, <2>3, <2>5, <3>1, <3>2, <3>3 DEF Reading
  <2>. QED
    BY <2>4, <2>5
<1>12. ASSUME NEW f \in Entries, Puts(p, f)
       PROVE  Whole(d) /\ Partly(d) /\ Given(d) /\ Gone(d)
  <2>. DEFINE v == loc[p].dev
  <2>1. /\ pc[p] = "put_super" /\ pc'[p] = "brelse" /\ s_dev[f] = v /\ s_lock[f] = None
        /\ s_dev' = [s_dev EXCEPT ![f] = None] /\ loc'[p].dev = v /\ held' = held
    BY <1>12 DEF Puts, dev
  <2>2. \A q \in Procs : q # p /\ loc[q].dev = v => pc[q] # "brelse" /\ pc[q] \notin Reading
    BY <2>1, AloneOn DEF dev, Unmounting
  <2>3. \A q \in Procs : pc[q] \in Reading => loc[q].e # f
    BY <2>1, FoundUnread DEF BeingRead, Unmounting, Reading, dev, sb
  <2>4. v \in Devs /\ \A e \in Entries : s_dev[e] = v => e = f
    <3>1. v \in Devs
      BY <2>1, WorksOn DEF AnyInv, Unmounting, dev
    <3>. QED
      BY <1>2, <2>1, <3>1 DEF AnyInv, DeviceOnce
  <2>. HIDE DEF v
  <2>5. CASE d # v
    <3>1. \A e \in Entries : s_dev'[e] = d <=> s_dev[e] = d
      BY <1>2, <2>1, <2>5
    <3>. QED
      BY <1>1, <1>3, <2>1, <2>5, <3>1 DEF Reading
  <2>6. CASE d = v
    <3>1. held'[d] = MAPS
      BY <1>1, <2>1, <2>3, <2>6
    <3>. QED
      BY <1>2, <1>3, <2>1, <2>2, <2>4, <2>6, <3>1 DEF Reading
  <2>. QED
    BY <2>5, <2>6
<1>. QED
  BY <1>5, <1>6, <1>8, <1>9, <1>10, <1>11, <1>12 DEF Does, Mounts, Refused

LEMMA ReadyStep ==
    ASSUME AnyInv, AnyInv', ApartInv, ReadInv', UnmountInv', HeldInv', Apart(calls),
           NEW p \in Procs, Does(p), Others(p)
    PROVE  MountedReady'
<1>. DEFINE Clear == \A e \in Entries : s_imount'[e] # None => s_lock'[e] = None /\ s_dev'[e] # None
<1>1. /\ s_dev \in [Entries -> Devs \union {None}] /\ s_lock \in [Entries -> Procs \union {None}]
      /\ s_imount \in [Entries -> Points] /\ None \notin Devs /\ None \notin Dirs
      /\ \A e \in Entries : s_imount[e] # None => s_lock[e] = None /\ s_dev[e] # None
  BY MountAssumption DEF AnyInv, TypeOK, ApartInv, MountedReady, Ready
<1>2. ASSUME pc[p] \in Reading PROVE s_imount[sb(p)] = None
  BY <1>2 DEF ApartInv, ReadInv
<1>3. Clear
  <2>1. CASE Quiet(p) \/ NoRoom(p) \/ Crosses(p) \/ Reads(p)
           \/ (\E d \in Dirs : Starts(p, d)) \/ (\E d \in Dirs, f \in Entries : Enters(p, d, f))
           \/ (\E f \in Entries : Detaches(p, f))
    <3>1. UNCHANGED <<s_dev, s_lock, s_imount>>
      BY <2>1 DEF Quiet, NoRoom, Crosses, Reads, Starts, Enters, Detaches, entries
    <3>. QED
      BY <1>1, <3>1
  <2>2. CASE Fails(p)
    <3>1. /\ s_dev' = [s_dev EXCEPT ![sb(p)] = None] /\ s_lock' = [s_lock EXCEPT ![sb(p)] = None]
          /\ s_imount' = s_imount /\ pc[p] \in Reading
      BY <2>2 DEF Fails, Reading
    <3>. QED
      BY <1>1, <1>2, <3>1
  <2>3. CASE Frees(p)
    <3>1. /\ s_lock' = [s_lock EXCEPT ![sb(p)] = None] /\ s_dev' = s_dev /\ s_imount' = s_imount
      BY <2>3 DEF Frees
    <3>. QED
      BY <1>1, <3>1
  <2>4. CASE Locks(p)
    <3>1. /\ s_lock' = [s_lock EXCEPT ![sb(p)] = p] /\ pc[p] \in Reading /\ s_dev' = s_dev
          /\ s_imount' = s_imount
      BY <2>4 DEF Locks, Reading
    <3>. QED
      BY <1>1, <1>2, <3>1
  <2>5. CASE Detached(p)
    <3>1. /\ s_imount' = [s_imount EXCEPT ![sb(p)] = None] /\ s_dev' = s_dev /\ s_lock' = s_lock
      BY <2>5 DEF Detached
    <3>. QED
      BY <1>1, <3>1
  <2>6. ASSUME NEW f \in Entries, Mounts(p, f) PROVE Clear
    <3>1. /\ s_dev' = s_dev /\ s_imount' = [s_imount EXCEPT ![f] = dir(p)] /\ s_lock'[f] = None
          /\ s_lock' = s_lock \/ s_lock' = [s_lock EXCEPT ![f] = None]
      BY <1>1, <2>6 DEF Mounts, Ends
    <3>2. s_dev[f] = dev(p) /\ dev(p) # None
      <4>1. pc[p] \in Mounting
        BY <2>6 DEF Mounts, Ends, Mounting, Reading
      <4>2. s_dev[f] = dev(p)
        BY <2>6 DEF Mounts, Ends, ApartInv, ReadInv, Reading
      <4>. QED
        BY <1>1, <4>1, <4>2, WorksOn DEF AnyInv
    <3>. QED
      BY <1>1, <3>1, <3>2
  <2>7. ASSUME NEW f \in Entries, Refused(p, f) PROVE Clear
    <3>1. /\ s_dev' = s_dev /\ s_imount' = s_imount
          /\ s_lock' = s_lock \/ s_lock' = [s_lock EXCEPT ![f] = None]
      BY <2>7 DEF Refused, Ends
    <3>. QED
      BY <1>1, <3>1
  <2>8. ASSUME NEW f \in Entries, Takes(p, f) PROVE Clear
    <3>1. /\ s_dev' = [s_dev EXCEPT ![f] = dev(p)] /\ s_imount' = [s_imount EXCEPT ![f] = None]
          /\ s_lock' = s_lock \/ s_lock' = [s_lock EXCEPT ![f] = p]
      BY <2>8 DEF Takes
    <3>. QED
      BY <1>1, <3>1
  <2>9. ASSUME NEW f \in Entries, Puts(p, f) PROVE Clear
    <3>1. /\ s_dev' = [s_dev EXCEPT ![f] = None] /\ s_imount' = s_imount /\ s_imount[f] = None
          /\ s_lock' = [s_lock EXCEPT ![f] = p]
      BY <2>9 DEF Puts
    <3>. QED
      BY <1>1, <3>1
  <2>. QED
    BY <2>1, <2>2, <2>3, <2>4, <2>5, <2>6, <2>7, <2>8, <2>9 DEF Does
<1>4. ASSUME NEW e \in Entries, s_imount'[e] # None
      PROVE  s_lock'[e] = None /\ s_dev'[e] # None /\ held'[s_dev'[e]] = MAPS
  <2>1. s_lock'[e] = None /\ s_dev'[e] \in Devs
    BY <1>3, <1>4 DEF AnyInv, TypeOK
  <2>2. ~BeingRead(e)'
    BY <1>4 DEF BeingRead, ReadInv
  <2>. QED
    BY <1>3, <1>4, <2>1, <2>2 DEF HeldInv, Having
<1>5. ASSUME NEW q \in Procs, pc'[q] = "cross"
      PROVE  loc'[q].e \in Entries /\ s_imount'[loc'[q].e] = loc'[q].dir /\ loc'[q].dir # None
  <2>. DEFINE c == [op |-> "enter", dir |-> loc'[q].dir]
  <2>1. c \in calls[q] /\ loc'[q].e \in Entries
    BY <1>5 DEF AnyInv, CallInv, Others, dir, sb
  <2>2. c.op = "enter" /\ c.dir = loc'[q].dir
    OBVIOUS
  <2>. HIDE DEF c
  <2>3. loc'[q].dir \in Dirs
    BY <2>1, <2>2, CallIs DEF AnyInv
  <2>. QED
    BY <1>1, <1>5, <2>1, <2>3 DEF UnmountInv, dir, sb
<1>. QED
  BY <1>4, <1>5 DEF MountedReady, Ready, dir, sb

(* How a step moves the two counts that a directory's is made of.          *)
Passers == {"read_super", "lock", "bread", "cross"}
Passing(d) == {q \in Procs : pc[q] \in Passers /\ dir(q) = d}

LEMMA PassingMoves ==
    ASSUME NEW p \in Procs, Others(p), NEW d
    PROVE  /\ Cardinality(Passing(d)) \in Nat /\ Cardinality(Passing(d)') \in Nat
           /\ Cardinality(Passing(d)') =
                  Cardinality(Passing(d)) + (IF pc'[p] \in Passers /\ loc'[p].dir = d THEN 1 ELSE 0)
                                          - (IF pc[p] \in Passers /\ dir(p) = d THEN 1 ELSE 0)
<1>. DEFINE old == Passing(d)
            new == Passing(d)'
<1>1. old \in SUBSET Procs /\ new \in SUBSET Procs /\ IsFiniteSet(Procs)
  BY MountAssumption DEF Passing
<1>2. \A q \in Procs : q # p => (q \in old <=> q \in new)
  BY DEF Passing, Others, dir
<1>3. /\ p \in new <=> pc'[p] \in Passers /\ loc'[p].dir = d
      /\ p \in old <=> pc[p] \in Passers /\ dir(p) = d
  BY DEF Passing, dir
<1>. HIDE DEF old, new
<1>4. /\ Cardinality(old) \in Nat /\ Cardinality(new) \in Nat
      /\ Cardinality(new) = Cardinality(old) + In(p, new) - In(p, old)
  BY <1>1, <1>2, CardDiffer
<1>. QED
  BY <1>3, <1>4 DEF In, old, new

PointsOnlyAt(e) == \A f \in Entries : f # e => s_imount'[f] = s_imount[f]

LEMMA MountedMoves ==
    ASSUME NEW e \in Entries, PointsOnlyAt(e), NEW d
    PROVE  /\ Cardinality(MountedOn(d)) \in Nat /\ Cardinality(MountedOn(d)') \in Nat
           /\ Cardinality(MountedOn(d)') =
                  Cardinality(MountedOn(d)) + (IF s_imount'[e] = d THEN 1 ELSE 0)
                                            - (IF s_imount[e] = d THEN 1 ELSE 0)
<1>. DEFINE old == MountedOn(d)
            new == MountedOn(d)'
<1>1. old \in SUBSET Entries /\ new \in SUBSET Entries /\ IsFiniteSet(Entries)
  BY EntriesAre DEF MountedOn
<1>2. \A f \in Entries : f # e => (f \in old <=> f \in new)
  BY DEF PointsOnlyAt, MountedOn
<1>3. /\ e \in new <=> s_imount'[e] = d
      /\ e \in old <=> s_imount[e] = d
  BY DEF MountedOn
<1>. HIDE DEF old, new
<1>4. /\ Cardinality(old) \in Nat /\ Cardinality(new) \in Nat
      /\ Cardinality(new) = Cardinality(old) + In(e, new) - In(e, old)
  BY <1>1, <1>2, CardDiffer
<1>. QED
  BY <1>3, <1>4 DEF In, old, new

LEMMA DirsStep ==
    ASSUME AnyInv, ApartInv, NEW p \in Procs, Does(p), Others(p)
    PROVE  DirsMatch'
<1>. DEFINE was(d) == IF pc[p] \in Passers /\ dir(p) = d THEN 1 ELSE 0
            is(d) == IF pc'[p] \in Passers /\ loc'[p].dir = d THEN 1 ELSE 0
            Marked(d) == i_mount'[d] <=> /\ \E e \in Entries : s_imount'[e] = d
                                         /\ \A q \in Procs : pc'[q] = "iput" => loc'[q].dir # d
            Counted(d) == i_count'[d] = Cardinality(MountedOn(d)') + Cardinality(Passing(d)')
<1>. SUFFICES ASSUME NEW d \in Dirs PROVE Marked(d) /\ Counted(d)
  BY DEF DirsMatch, Passing, Passers, MountedOn, dir
<1>1. /\ i_mount[d] <=> /\ \E e \in Entries : s_imount[e] = d
                        /\ \A q \in Procs : pc[q] = "iput" => loc[q].dir # d
      /\ i_count[d] = Cardinality(MountedOn(d)) + Cardinality(Passing(d))
  BY DEF ApartInv, DirsMatch, Passing, Passers, MountedOn, dir
<1>2. /\ i_mount \in [Dirs -> BOOLEAN] /\ i_count \in [Dirs -> Int]
      /\ s_imount \in [Entries -> Points] /\ None \notin Dirs /\ i_count[d] \in Int
  BY MountAssumption DEF AnyInv, TypeOK
<1>3. /\ Cardinality(Passing(d)) \in Nat /\ Cardinality(Passing(d)') \in Nat
      /\ Cardinality(Passing(d)') = Cardinality(Passing(d)) + is(d) - was(d)
  BY PassingMoves
<1>4. \A q \in Procs : q # p => pc'[q] = pc[q] /\ loc'[q] = loc[q]
  BY DEF Others
<1>5. Cardinality(MountedOn(d)) \in Nat
  BY EntriesAre, CardType, FS_Subset DEF MountedOn
<1>6. ASSUME s_imount' = s_imount, i_count'[d] = i_count[d] + is(d) - was(d)
      PROVE  Counted(d)
  <2>1. MountedOn(d)' = MountedOn(d)
    BY <1>6 DEF MountedOn
  <2>2. is(d) \in Int /\ was(d) \in Int
    OBVIOUS
  <2>. HIDE DEF is, was
  <2>. QED
    BY <1>1, <1>2, <1>3, <1>5, <1>6, <2>1, <2>2
<1>7. ASSUME s_imount' = s_imount, i_mount' = i_mount, pc[p] # "iput", pc'[p] # "iput"
      PROVE  Marked(d)
  BY <1>1, <1>4, <1>7
<1>. HIDE DEF Marked, Counted
<1>8. CASE Quiet(p)
  <2>1. i_count'[d] = i_count[d] + is(d) - was(d)
    BY <1>2, <1>8 DEF Quiet, Calm, Passers, dirs
  <2>. QED
    BY <1>6, <1>7, <1>8, <2>1 DEF Quiet, Calm, entries, dirs
<1>9. CASE Locks(p) \/ Reads(p)
  <2>1. i_count'[d] = i_count[d] + is(d) - was(d)
    BY <1>2, <1>9 DEF Locks, Reads, Passers, dirs, dir
  <2>. QED
    BY <1>6, <1>7, <1>9, <2>1 DEF Locks, Reads, entries, dirs
<1>10. CASE Frees(p)
  <2>1. i_count'[d] = i_count[d] + is(d) - was(d)
    BY <1>2, <1>10 DEF Frees, Passers, dirs
  <2>. QED
    BY <1>6, <1>7, <1>10, <2>1 DEF Frees, dirs
<1>11. ASSUME DropsDir(p), dir(p) \in Dirs, pc[p] \in Passers, pc'[p] = "idle"
       PROVE  i_count'[d] = i_count[d] + is(d) - was(d)
  BY <1>2, <1>11 DEF DropsDir, Passers
<1>12. pc[p] \in Passers => dir(p) \in Dirs
  BY WorksOn DEF AnyInv, Passers, Mounting, Reading
<1>13. CASE NoRoom(p) \/ Crosses(p) \/ Fails(p)
  <2>1. /\ pc[p] \in Passers /\ DropsDir(p) /\ pc'[p] = "idle" /\ pc[p] # "iput"
        /\ s_imount' = s_imount /\ i_mount' = i_mount
    BY <1>13 DEF NoRoom, Crosses, Fails, Passers, entries
  <2>. QED
    BY <1>6, <1>7, <1>11, <1>12, <2>1
<1>14. ASSUME NEW e \in Entries, Refused(p, e) PROVE Marked(d) /\ Counted(d)
  <2>1. /\ pc[p] \in Passers /\ DropsDir(p) /\ pc'[p] = "idle" /\ pc[p] # "iput"
        /\ s_imount' = s_imount /\ i_mount' = i_mount
    BY <1>14 DEF Refused, Ends, Passers
  <2>. QED
    BY <1>6, <1>7, <1>11, <1>12, <2>1
<1>15. ASSUME NEW c \in Dirs, Starts(p, c) PROVE Marked(d) /\ Counted(d)
  <2>1. i_count'[d] = i_count[d] + is(d) - was(d)
    BY <1>2, <1>15 DEF Starts, Passers
  <2>. QED
    BY <1>6, <1>7, <1>15, <2>1 DEF Starts, entries
<1>16. ASSUME NEW c \in Dirs, NEW e \in Entries, Enters(p, c, e) PROVE Marked(d) /\ Counted(d)
  <2>1. i_count'[d] = i_count[d] + is(d) - was(d)
    BY <1>2, <1>16 DEF Enters, Passers
  <2>. QED
    BY <1>6, <1>7, <1>16, <2>1 DEF Enters, entries
<1>17. ASSUME NEW e \in Entries, Puts(p, e) PROVE Marked(d) /\ Counted(d)
  <2>1. i_count'[d] = i_count[d] + is(d) - was(d)
    BY <1>2, <1>17 DEF Puts, Passers, dirs
  <2>. QED
    BY <1>6, <1>7, <1>17, <2>1 DEF Puts, dirs
<1>18. ASSUME NEW e \in Entries, Takes(p, e) PROVE Marked(d) /\ Counted(d)
  <2>1. s_dev[e] = None /\ s_imount' = [s_imount EXCEPT ![e] = None]
    BY <1>18 DEF Takes
  <2>2. s_imount[e] = None
    BY <2>1 DEF ApartInv, MountedReady, Ready
  <2>3. s_imount' = s_imount
    BY <1>2, <2>1, <2>2
  <2>4. i_count'[d] = i_count[d] + is(d) - was(d)
    BY <1>2, <1>18 DEF Takes, Passers, dirs
  <2>. QED
    BY <1>6, <1>7, <1>18, <2>3, <2>4 DEF Takes, dirs
<1>19. ASSUME NEW e \in Entries, Detaches(p, e) PROVE Marked(d) /\ Counted(d)
  <2>1. /\ s_imount' = s_imount /\ i_count' = i_count /\ pc[p] = "umount" /\ pc'[p] = "iput"
        /\ loc'[p].dir = s_imount[e] /\ i_mount' = [i_mount EXCEPT ![s_imount[e]] = FALSE]
    BY <1>19 DEF Detaches, entries
  <2>2. i_count'[d] = i_count[d] + is(d) - was(d)
    BY <1>2, <2>1 DEF Passers
  <2>3. Marked(d)
    BY <1>1, <1>2, <1>4, <2>1 DEF Marked
  <2>. QED
    BY <1>6, <2>1, <2>2, <2>3
<1>20. ASSUME NEW e \in Entries, Mounts(p, e) PROVE Marked(d) /\ Counted(d)
  <2>1. /\ s_imount[e] = None /\ s_imount' = [s_imount EXCEPT ![e] = dir(p)] /\ i_count' = i_count
        /\ i_mount' = [i_mount EXCEPT ![dir(p)] = TRUE] /\ pc[p] \in Passers \cap Mounting
        /\ pc'[p] = "idle" /\ pc[p] # "iput"
    BY <1>20 DEF Mounts, Ends, Passers, Mounting, Reading
  <2>2. dir(p) \in Dirs /\ \A f \in Entries : s_imount[f] # dir(p)
    BY <1>12, <2>1 DEF ApartInv, MountInv, MountedOn
  <2>3. \A q \in Procs : pc[q] = "iput" => loc[q].dir # dir(p)
    <3>1. ASSUME NEW q \in Procs, pc[q] = "iput"
          PROVE  sb(q) \in Entries /\ s_imount[sb(q)] = loc[q].dir
      BY <3>1 DEF ApartInv, UnmountInv, AnyInv, CallInv, dir
    <3>. QED
      BY <2>2, <3>1
  <2>4. Marked(d)
    BY <1>1, <1>2, <1>4, <2>1, <2>2, <2>3 DEF Marked
  <2>5. PointsOnlyAt(e) /\ s_imount'[e] = dir(p)
    BY <1>2, <2>1 DEF PointsOnlyAt
  <2>6. Cardinality(MountedOn(d)') = Cardinality(MountedOn(d)) + was(d)
    BY <1>2, <1>5, <2>1, <2>5, MountedMoves
  <2>7. is(d) = 0
    BY <2>1 DEF Passers
  <2>. HIDE DEF is, was
  <2>8. was(d) \in Int
    BY DEF was
  <2>9. Counted(d)
    BY <1>1, <1>2, <1>3, <1>5, <2>1, <2>6, <2>7, <2>8 DEF Counted
  <2>. QED
    BY <2>4, <2>9
<1>21. CASE Detached(p)
  <2>1. /\ sb(p) \in Entries /\ s_imount[sb(p)] = dir(p) /\ dir(p) \in Dirs
        /\ s_imount' = [s_imount EXCEPT ![sb(p)] = None] /\ DropsDir(p) /\ i_mount' = i_mount
        /\ pc[p] = "iput" /\ pc'[p] = "put_super"
    BY <1>21 DEF Detached, ApartInv, UnmountInv, AnyInv, CallInv
  <2>2. \A f \in Entries : s_imount[f] = dir(p) => f = sb(p)
    BY <1>2, <2>1 DEF ApartInv, PointInv
  <2>3. Marked(d)
    <3>1. CASE d = dir(p)
      BY <1>1, <1>2, <2>1, <2>2, <3>1 DEF Marked, dir
    <3>2. CASE d # dir(p)
      BY <1>1, <1>2, <1>4, <2>1, <3>2 DEF Marked, dir
    <3>. QED
      BY <3>1, <3>2
  <2>4. PointsOnlyAt(sb(p)) /\ s_imount'[sb(p)] = None
    BY <1>2, <2>1 DEF PointsOnlyAt
  <2>5. Cardinality(MountedOn(d)') = Cardinality(MountedOn(d)) - (IF dir(p) = d THEN 1 ELSE 0)
    BY <1>2, <1>5, <2>1, <2>4, MountedMoves
  <2>6. i_count'[d] = i_count[d] - (IF dir(p) = d THEN 1 ELSE 0)
    BY <1>2, <2>1 DEF DropsDir
  <2>7. is(d) = 0 /\ was(d) = 0
    BY <2>1 DEF Passers
  <2>. HIDE DEF is, was
  <2>8. Counted(d)
    BY <1>1, <1>2, <1>3, <1>5, <2>5, <2>6, <2>7 DEF Counted
  <2>. QED
    BY <2>3, <2>8
<1>. QED
  BY <1>8, <1>9, <1>10, <1>13, <1>14, <1>15, <1>16, <1>17, <1>18, <1>19, <1>20, <1>21 DEF Does

-----------------------------------------------------------------------------
(***************************************************************************)
(* The theorems.                                                           *)
(***************************************************************************)
LEMMA ApartInit == Init => ApartInv
<1>. SUFFICES ASSUME Init PROVE ApartInv
  OBVIOUS
<1>1. /\ 1 \in Entries /\ ROOT_DEV \in Devs /\ RootDir # None /\ RootDir \notin Dirs
      /\ ROOT_DEV # None /\ None \notin Devs /\ None \notin Dirs
  BY EntriesAre, MountAssumption
<1>2. /\ s_dev = [e \in Entries |-> IF e = 1 THEN ROOT_DEV ELSE None]
      /\ s_lock = [e \in Entries |-> None]
      /\ s_imount = [e \in Entries |-> IF e = 1 THEN RootDir ELSE None]
      /\ i_mount = [d \in Dirs |-> FALSE] /\ i_count = [d \in Dirs |-> 0]
      /\ held = [d \in Devs |-> IF d = ROOT_DEV THEN MAPS ELSE 0]
      /\ \A p \in Procs : pc[p] = "idle"
  BY DEF Init
<1>3. LockInv /\ ReadInv /\ MountInv /\ UnmountInv
  BY <1>2 DEF LockInv, ReadInv, MountInv, UnmountInv, Reading, Mounting
<1>4. PointInv
  BY <1>1, <1>2 DEF PointInv
<1>5. HeldInv
  BY <1>1, <1>2 DEF HeldInv, Having, Reading, Putting
<1>6. MountedReady
  BY <1>1, <1>2 DEF MountedReady, Ready
<1>7. DirsMatch
  <2>. SUFFICES ASSUME NEW d \in Dirs
       PROVE  /\ i_mount[d] <=> /\ MountedOn(d) # {}
                                /\ {p \in Procs : pc[p] = "iput" /\ dir(p) = d} = {}
              /\ i_count[d] = Cardinality(MountedOn(d)) + Cardinality(Passing(d))
    BY DEF DirsMatch, Passing, Passers
  <2>1. MountedOn(d) = {} /\ Passing(d) = {}
    BY <1>1, <1>2 DEF MountedOn, Passing, Passers
  <2>. QED
    BY <1>2, <2>1, FS_EmptySet
<1>. QED
  BY <1>3, <1>4, <1>5, <1>6, <1>7 DEF ApartInv

LEMMA ApartStep ==
    ASSUME AnyInv, AnyInv', ApartInv, Apart(calls), NEW p \in Procs, Acts(p)
    PROVE  ApartInv'
<1>1. Does(p) /\ Others(p)
  BY ActDoes, OthersStay DEF AnyInv
<1>2. LockInv' /\ ReadInv' /\ MountInv'
  BY <1>1, LockStep, ReadStep, MountStep
<1>3. UnmountInv' /\ PointInv' /\ HeldInv'
  BY <1>1, UnmountStep, PointStep, HeldStep
<1>4. MountedReady' /\ DirsMatch'
  BY <1>1, <1>2, <1>3, ReadyStep, DirsStep
<1>. QED
  BY <1>2, <1>3, <1>4 DEF ApartInv

LEMMA ApartStutter == ApartInv /\ UNCHANGED vars => ApartInv'
<1>. SUFFICES ASSUME ApartInv, UNCHANGED vars PROVE ApartInv'
  OBVIOUS
<1>. USE DEF vars, entries, dirs, dev, dir, sb
<1>1. LockInv' /\ PointInv'
  BY DEF ApartInv, LockInv, PointInv
<1>2. ReadInv' /\ MountInv' /\ UnmountInv'
  BY DEF ApartInv, ReadInv, MountInv, UnmountInv, Unmounts, MountedOn, Having
<1>3. HeldInv'
  BY DEF ApartInv, HeldInv, Having, BeingRead, Putting
<1>4. MountedReady'
  BY DEF ApartInv, MountedReady, Ready
<1>5. DirsMatch'
  BY DEF ApartInv, DirsMatch, MountedOn
<1>. QED
  BY <1>1, <1>2, <1>3, <1>4, <1>5 DEF ApartInv

(* The maps of a device are counted for one reason at a time.              *)
LEMMA MapsCounted ==
    ASSUME AnyInv, ApartInv, Apart(calls)
    PROVE  MapsBalance
<1>. SUFFICES ASSUME NEW d \in Devs
     PROVE  LET reading == {p \in Procs : pc[p] \in {"lock", "bread"} /\ dev(p) = d}
                putting == {p \in Procs : pc[p] = "brelse" /\ dev(p) = d}
                whole == {e \in Having(d) : \A p \in reading : sb(p) # e}
                read == {x \in reading \X (1 .. MAPS) : x[2] < loc[x[1]].n}
            IN  held[d] = MAPS * Cardinality(whole) + MAPS * Cardinality(putting) + Cardinality(read)
  BY DEF MapsBalance
<1>. DEFINE reading == {p \in Procs : pc[p] \in {"lock", "bread"} /\ dev(p) = d}
            putting == {p \in Procs : pc[p] = "brelse" /\ dev(p) = d}
            whole == {e \in Having(d) : \A p \in reading : sb(p) # e}
            read == {x \in reading \X (1 .. MAPS) : x[2] < loc[x[1]].n}
<1>. SUFFICES held[d] = MAPS * Cardinality(whole) + MAPS * Cardinality(putting) + Cardinality(read)
  OBVIOUS
<1>0. MAPS \in Nat /\ Cardinality({}) = 0 /\ \A x : Cardinality({x}) = 1
  BY MountAssumption, FS_EmptySet, FS_Singleton
<1>1. \A e, f \in Having(d) : e = f
  BY MountAssumption DEF AnyInv, DeviceOnce, Having
<1>2. \A p \in reading : sb(p) \in Having(d)
  <2>. SUFFICES ASSUME NEW p \in Procs, pc[p] \in Reading, dev(p) = d PROVE sb(p) \in Having(d)
    BY DEF Reading
  <2>. QED
    BY SameEntry, EntriesAre DEF ApartInv, ReadInv, Having
<1>3. ASSUME NEW p \in putting
      PROVE  putting = {p} /\ reading = {} /\ Having(d) = {} /\ held[d] = MAPS
  <2>1. \A q \in Procs : q # p /\ dev(q) = d => pc[q] # "brelse"
    BY AloneOn DEF Unmounting
  <2>2. Having(d) = {} /\ held[d] = MAPS
    BY DEF ApartInv, UnmountInv, HeldInv, Putting
  <2>. QED
    BY <1>2, <2>1, <2>2
<1>4. ASSUME NEW p \in reading
      PROVE  reading = {p} /\ whole = {} /\ held[d] = IF loc[p].n = 0 THEN 0 ELSE loc[p].n - 1
  <2>1. \A q \in Procs : q # p /\ dev(q) = d => pc[q] \notin Reading
    BY AloneOn DEF Reading
  <2>2. reading = {p}
    BY <2>1 DEF Reading
  <2>3. whole = {}
    BY <1>1, <1>2
  <2>4. held[d] = IF loc[p].n = 0 THEN 0 ELSE loc[p].n - 1
    BY DEF ApartInv, HeldInv, Reading
  <2>. QED
    BY <2>2, <2>3, <2>4
<1>5. reading = {} => read = {} /\ whole = Having(d)
  OBVIOUS
<1>6. CASE putting # {}
  <2>1. PICK p : p \in putting
    BY <1>6
  <2>2. putting = {p} /\ whole = {} /\ read = {} /\ held[d] = MAPS
    BY <1>3, <1>5, <2>1
  <2>3. Cardinality(putting) = 1 /\ Cardinality(whole) = 0 /\ Cardinality(read) = 0
    BY <1>0, <2>2
  <2>. HIDE DEF putting, whole, read
  <2>. QED
    BY <1>0, <2>2, <2>3
<1>7. CASE putting = {} /\ reading # {}
  <2>1. PICK p : p \in reading
    BY <1>7
  <2>2. reading = {p} /\ whole = {} /\ held[d] = IF loc[p].n = 0 THEN 0 ELSE loc[p].n - 1
    BY <1>4, <2>1
  <2>3. p \in Procs /\ loc[p].n \in Nat /\ loc[p].n =< MAPS + 1
    <3>1. p \in Procs /\ pc[p] \in {"lock", "bread"} /\ loc[p].n \in Nat
      BY <2>1 DEF AnyInv, TypeOK, Locals
    <3>2. pc[p] = "lock" => loc[p].n = 0
      BY <3>1 DEF ApartInv, MountInv, Mounting, Reading
    <3>3. pc[p] = "bread" => loc[p].n =< MAPS + 1
      BY <3>1 DEF ApartInv, ReadInv, Reading
    <3>. QED
      BY <1>0, <3>1, <3>2, <3>3
  <2>. DEFINE m == IF loc[p].n = 0 THEN 0 ELSE loc[p].n - 1
              blocks == 1 .. m
  <2>4. read = {p} \X blocks
    <3>1. \A k \in 1 .. MAPS : k < loc[p].n <=> k \in blocks
      BY <1>0, <2>3
    <3>2. blocks \subseteq 1 .. MAPS
      BY <1>0, <2>3
    <3>. HIDE DEF blocks, m
    <3>. QED
      BY <2>2, <3>1, <3>2
  <2>5. m \in Nat /\ IsFiniteSet(blocks) /\ Cardinality(blocks) = m
    <3>1. m \in Nat
      BY <2>3
    <3>. HIDE DEF m
    <3>2. IsFiniteSet(1 .. m) /\ Cardinality(1 .. m) = IF 1 > m THEN 0 ELSE m - 1 + 1
      BY <3>1, FS_Interval
    <3>. QED
      BY <3>1, <3>2
  <2>. HIDE DEF blocks, m
  <2>6. Cardinality({p} \X blocks) = 1 * m
    <3>1. IsFiniteSet({p}) /\ Cardinality({p}) = 1
      BY <1>0, FS_Singleton
    <3>2. Cardinality({p} \X blocks) = Cardinality({p}) * Cardinality(blocks)
      BY <2>5, <3>1, FS_Product
    <3>. QED
      BY <2>5, <3>1, <3>2
  <2>7. held[d] = m
    BY <2>2 DEF m
  <2>. HIDE DEF putting, whole, read
  <2>. QED
    BY <1>0, <1>7, <2>2, <2>4, <2>5, <2>6, <2>7
<1>8. CASE putting = {} /\ reading = {} /\ Having(d) # {}
  <2>1. PICK e : e \in Having(d)
    BY <1>8
  <2>2. Having(d) = {e} /\ e \in Entries
    BY <1>1, <2>1 DEF Having
  <2>3. ~BeingRead(e)
    BY <1>8, <2>1 DEF BeingRead, ApartInv, ReadInv, Having, Reading
  <2>4. held[d] = MAPS
    BY <2>1, <2>3 DEF ApartInv, HeldInv
  <2>5. whole = {e} /\ read = {}
    BY <1>5, <1>8, <2>2
  <2>6. Cardinality(putting) = 0 /\ Cardinality(whole) = 1 /\ Cardinality(read) = 0
    BY <1>0, <1>8, <2>5
  <2>. HIDE DEF putting, whole, read
  <2>. QED
    BY <1>0, <2>4, <2>6
<1>9. CASE putting = {} /\ reading = {} /\ Having(d) = {}
  <2>1. held[d] = 0
    BY <1>9 DEF ApartInv, HeldInv, Putting
  <2>2. whole = {} /\ read = {}
    BY <1>5, <1>9
  <2>. HIDE DEF putting, whole, read
  <2>. QED
    BY <1>0, <1>9, <2>1, <2>2
<1>. QED
  BY <1>6, <1>7, <1>8, <1>9

(* The invariant: what holds of any calls, and of calls that are apart.    *)
THEOREM IInvCorrect == Spec => []IInv
<1>1. Init => IInv
  BY AnyInit, ApartInit DEF IInv
<1>2. IInv /\ [Next]_vars => IInv'
  <2>1. ASSUME IInv, NEW p \in Procs, Step(p) PROVE IInv'
    <3>1. Acts(p)
      BY <2>1, StepActs DEF IInv, AnyInv
    <3>2. AnyInv' /\ calls' = calls
      BY <2>1, <3>1, AnyStep, OthersStay DEF IInv, AnyInv, Others
    <3>. QED
      BY <2>1, <3>1, <3>2, ApartStep DEF IInv
  <2>2. ASSUME IInv, UNCHANGED vars PROVE IInv'
    <3>1. AnyInv' /\ calls' = calls
      BY <2>2, AnyStutter DEF IInv, vars
    <3>. QED
      BY <2>2, <3>1, ApartStutter DEF IInv
  <2>. QED
    BY <2>1, <2>2 DEF Next
<1>. QED
  BY <1>1, <1>2, PTL DEF Spec

(* The calls of a behaviour are those it starts with, for calls never      *)
(* changes: what follows is of every behaviour whose calls are apart.      *)

(* What is mounted has been read, however reads fail, processes wait for a *)
(* locked entry and entries change hands.  (get_super, read_super,         *)
(* put_super)                                                              *)
THEOREM MountedReadyCorrect == Spec => [](Apart(calls) => MountedReady)
<1>1. IInv => (Apart(calls) => MountedReady)
  BY DEF IInv, ApartInv
<1>. QED
  BY <1>1, IInvCorrect, PTL

(* The marks and the counts of the directories match the table of          *)
(* superblocks.  (the exits of sys_mount and sys_umount)                   *)
THEOREM DirsMatchCorrect == Spec => [](Apart(calls) => DirsMatch)
<1>1. IInv => (Apart(calls) => DirsMatch)
  BY DEF IInv, ApartInv
<1>. QED
  BY <1>1, IInvCorrect, PTL

(* No buffer of a bitmap is leaked or given back twice, for any number of  *)
(* blocks.  (the brelse of read_super and put_super)                       *)
THEOREM MapsBalanceCorrect == Spec => [](Apart(calls) => MapsBalance)
<1>1. IInv => (Apart(calls) => MapsBalance)
  BY MapsCounted DEF IInv
<1>. QED
  BY <1>1, IInvCorrect, PTL
=============================================================================
