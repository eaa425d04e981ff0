--------------------------- MODULE DirectoryProofs ---------------------------
(***************************************************************************)
(* Theorems about Directory and FsAlloc, for any number of processes,      *)
(* inodes and blocks, all sizes, and whatever calls the processes make.    *)
(***************************************************************************)
EXTENDS Directory, FiniteSetTheorems, WellFoundedInduction, TLAPS

(***************************************************************************)
(* The locals of a process.                                                *)
(***************************************************************************)
Fields == {"pc", "back", "op", "path", "new", "want", "dir", "ino", "ref", "put", "then",
           "bh", "slot", "blk", "ind", "at", "limit", "f", "n", "got"}

Shaped(me) == DOMAIN me = Fields /\ DOMAIN me.back = Routines

Finding == {"find", "scan", "bmap"}
Truncating == {"truncate", "free_ind", "free_dind"}
Taking == {"new_block", "getblk"}
Filling == {"create_block", "direct", "indirect", "leaf", "link"}
Putting == {"iput", "free_inode"}

USE DEF Finding, Truncating, Taking, Filling, Putting

(* The process is at label, or returns to it from r.                       *)
Due(me, r, label) == label \in {me.pc, me.back[r]}

(* Where the calls under way return to, and that no others are.            *)
BackInv(me) ==
  LET back == me.back IN
  /\ back["find"] \in {"none", "step", "old", "looked"}
  /\ back["iget"] \in {"none", "oldinode", "opened", "unlink", "rmdir"}
  /\ back["create_block"] \in {"none", "idle", "slot"}
  /\ back["new_block"] \in {"none", "direct", "indirect", "link", "block"}
  /\ back["truncate"] \in {"none", "free_inode", "opened_fd"}
  /\ back["iput"] \in {"none", "idle", "iget_dir", "iget", "relink", "undo"}
  /\ back["find"] # "none" <=> me.pc \in Finding
  /\ back["new_block"] # "none" <=> me.pc \in Taking
  /\ back["truncate"] # "none" <=> me.pc \in Truncating
  /\ back["create_block"] # "none"
       <=> me.pc \in Filling \/ back["new_block"] \in {"direct", "indirect", "link"}
  /\ back["iput"] # "none" <=> me.pc \in Putting \/ back["truncate"] = "free_inode"
  /\ back["iget"] # "none" <=> me.pc = "iget" \/ back["iput"] = "iget"

(* What a call holds at each label: no directory where one is to be        *)
(* fetched or the call ends, no inode where one is to be, no open file     *)
(* where open is to have one, and inodes to put in iput only.              *)
HoldsInv(me, open) ==
  LET leaves == Due(me, "iput", "idle") \/ Due(me, "create_block", "idle") IN
  /\ (leaves \/ Due(me, "iput", "iget_dir") \/ Due(me, "iget", "oldinode")
      \/ Due(me, "iget", "opened") \/ Due(me, "truncate", "opened_fd") \/ Due(me, "iput", "undo")
      \/ Due(me, "iput", "relink"))
     => me.dir = 0
  /\ leaves \/ Due(me, "find", "old") \/ Due(me, "iput", "iget") \/ me.pc \in {"iget", "new_inode"}
     => me.ino = 0
  /\ (me.pc \in {"walk", "resolved"} \/ Due(me, "find", "step") \/ Due(me, "find", "looked")
      \/ Due(me, "iput", "iget_dir")) /\ me.ino # 0 => me.op = "link"
  /\ Due(me, "find", "old") \/ Due(me, "iget", "oldinode") => me.op = "link"
  /\ Due(me, "iget", "opened") \/ Due(me, "truncate", "opened_fd") => me.op = "trunc"
  /\ me.op \in {"create", "trunc"} => open = 0
  /\ me.put # 0 \/ me.then # 0 => me.pc \in Putting \/ me.back["truncate"] = "free_inode"
  /\ Due(me, "truncate", "free_inode") => me.put # 0

MaybeInode == Inodes \union {0}

InCall(me, open) ==
  /\ Shaped(me)
  /\ open \in MaybeInode /\ me.dir \in MaybeInode /\ me.ino \in MaybeInode /\ me.put \in MaybeInode /\ me.then \in MaybeInode
  /\ me.pc # "panic" => BackInv(me) /\ HoldsInv(me, open)

(* How often a process refers to inode i.                                  *)
Is(x, i) == IF x = i THEN 1 ELSE 0
Times(i, me, open) ==
  Is(open, i) + Is(me.dir, i) + Is(me.ino, i) + Is(me.put, i) + Is(me.then, i)

InodeFields == {"count", "nlinks", "mode", "size", "zone"}

InodesShaped ==
  /\ DOMAIN inode = Inodes
  /\ \A i \in Inodes : DOMAIN inode[i] = InodeFields /\ inode[i].count \in Int

(* The inductive invariant: counts match, and an inode whose bit is clear  *)
(* is counted by nobody.                                                   *)
IInv ==
  /\ DOMAIN loc = Procs /\ DOMAIN file = Procs /\ InodesShaped
  /\ \A p \in Procs : InCall(loc[p], file[p])
  /\ CountsMatch
  /\ imap \subseteq Inodes
  /\ \A i \in Inodes \ imap : inode[i].count = 0

(***************************************************************************)
(* What one step of p does.                                                *)
(***************************************************************************)
Others(p) ==
  /\ DOMAIN loc' = Procs /\ DOMAIN file' = Procs
  /\ \A q \in Procs \ {p} : loc'[q] = loc[q] /\ file'[q] = file[q]

(* i_count changes with the references of p.                               *)
Balanced(p) ==
  \A i \in Inodes :
    inode'[i].count = inode[i].count + Times(i, loc'[p], file'[p]) - Times(i, loc[p], file[p])

Kept(p) ==
  /\ Others(p) /\ InCall(loc'[p], file'[p])
  /\ InodesShaped' /\ Balanced(p)
  /\ imap' \subseteq Inodes
  /\ \A i \in Inodes \ imap' : inode'[i].count = 0

LEMMA RootIn == Root \in Inodes /\ 0 \notin Inodes
BY FsAssumption DEF Root, Inodes

LEMMA MinNat ==
    ASSUME NEW S, S \subseteq Nat, S # {}
    PROVE  Min(S) \in S /\ \A y \in S : Min(S) =< y
<1>. DEFINE R == OpToRel(<, Nat)
<1>1. IsWellFoundedOn(R, Nat)
  BY NatLessThanWellFounded
<1>. HIDE DEF R
<1>2. PICK x \in S : \A y \in S : ~ (<<y, x>> \in R)
  BY <1>1, WFMin
<1>3. \A y \in S : ~ (y < x)
  BY <1>2 DEF R, OpToRel
<1>4. \A y \in S : x =< y
  BY <1>3
<1>. QED
  BY <1>4 DEF Min

(* A set of processes, when one process joins or leaves it.                *)
LEMMA CardStep ==
  ASSUME NEW A \in SUBSET Procs, NEW B \in SUBSET Procs, NEW p \in Procs,
         \A q \in Procs \ {p} : q \in A <=> q \in B
  PROVE  /\ Cardinality(A) \in Nat /\ Cardinality(A) >= (IF p \in A THEN 1 ELSE 0)
         /\ Cardinality(B) = Cardinality(A) + (IF p \in B THEN 1 ELSE 0)
                                            - (IF p \in A THEN 1 ELSE 0)
<1>. DEFINE C == A \ {p}
<1>1. IsFiniteSet(A) /\ IsFiniteSet(C)
  BY FsAssumption, FS_Subset
<1>2. Cardinality(C) \in Nat /\ Cardinality(C \union {p}) = Cardinality(C) + 1
  BY <1>1, FS_CardinalityType, FS_AddElement, p \notin C
<1>3. A = IF p \in A THEN C \union {p} ELSE C
  OBVIOUS
<1>4. B = IF p \in B THEN C \union {p} ELSE C
  OBVIOUS
<1>. HIDE DEF C
<1>5. Cardinality(A) = Cardinality(C) + (IF p \in A THEN 1 ELSE 0)
  BY <1>2, <1>3
<1>6. Cardinality(B) = Cardinality(C) + (IF p \in B THEN 1 ELSE 0)
  BY <1>2, <1>4
<1>. QED
  BY <1>2, <1>5, <1>6

(* The counts match after a step of one process if they did before it and  *)
(* i_count changed with that process's references.                         *)
LEMMA CountsKept ==
  ASSUME IInv, NEW p \in Procs, Kept(p)
  PROVE  CountsMatch'
<1>. SUFFICES ASSUME NEW i \in Inodes
              PROVE  inode'[i].count = Cardinality({q \in Procs : file'[q] = i})
                             + Cardinality({q \in Procs : loc'[q].dir = i})
                             + Cardinality({q \in Procs : loc'[q].ino = i})
                             + Cardinality({q \in Procs : loc'[q].put = i})
                             + Cardinality({q \in Procs : loc'[q].then = i})
                             + (IF i = Root THEN Pins ELSE 0)
  BY DEF CountsMatch
<1>1. PICK a : a = Cardinality({q \in Procs : file[q] = i})
  OBVIOUS
<1>2. PICK b : b = Cardinality({q \in Procs : loc[q].dir = i})
  OBVIOUS
<1>3. PICK c : c = Cardinality({q \in Procs : loc[q].ino = i})
  OBVIOUS
<1>4. PICK d : d = Cardinality({q \in Procs : loc[q].put = i})
  OBVIOUS
<1>5. PICK e : e = Cardinality({q \in Procs : loc[q].then = i})
  OBVIOUS
<1>6. /\ a \in Nat
      /\ Cardinality({q \in Procs : file'[q] = i}) = a + Is(file'[p], i) - Is(file[p], i)
  <2>. DEFINE A == {q \in Procs : file[q] = i}
              B == {q \in Procs : file'[q] = i}
  <2>1. \A q \in Procs \ {p} : q \in A <=> q \in B
    BY DEF Kept, Others
  <2>2. (p \in A <=> file[p] = i) /\ (p \in B <=> file'[p] = i)
    OBVIOUS
  <2>3. A \in SUBSET Procs /\ B \in SUBSET Procs /\ a = Cardinality(A)
    BY <1>1
  <2>. HIDE DEF A, B
  <2>4. Cardinality(A) \in Nat /\ Cardinality(B) = Cardinality(A) + (IF p \in B THEN 1 ELSE 0)
                                            - (IF p \in A THEN 1 ELSE 0)
    BY <2>1, <2>3, CardStep
  <2>5. Cardinality(B) = a + Is(file'[p], i) - Is(file[p], i)
    BY <2>2, <2>3, <2>4 DEF Is
  <2>. QED
    BY <2>3, <2>4, <2>5 DEF B
<1>7. /\ b \in Nat
      /\ Cardinality({q \in Procs : loc'[q].dir = i}) = b + Is(loc'[p].dir, i) - Is(loc[p].dir, i)
  <2>. DEFINE A == {q \in Procs : loc[q].dir = i}
              B == {q \in Procs : loc'[q].dir = i}
  <2>1. \A q \in Procs \ {p} : q \in A <=> q \in B
    BY DEF Kept, Others
  <2>2. (p \in A <=> loc[p].dir = i) /\ (p \in B <=> loc'[p].dir = i)
    OBVIOUS
  <2>3. A \in SUBSET Procs /\ B \in SUBSET Procs /\ b = Cardinality(A)
    BY <1>2
  <2>. HIDE DEF A, B
  <2>4. Cardinality(A) \in Nat /\ Cardinality(B) = Cardinality(A) + (IF p \in B THEN 1 ELSE 0)
                                            - (IF p \in A THEN 1 ELSE 0)
    BY <2>1, <2>3, CardStep
  <2>5. Cardinality(B) = b + Is(loc'[p].dir, i) - Is(loc[p].dir, i)
    BY <2>2, <2>3, <2>4 DEF Is
  <2>. QED
    BY <2>3, <2>4, <2>5 DEF B
<1>8. /\ c \in Nat
      /\ Cardinality({q \in Procs : loc'[q].ino = i}) = c + Is(loc'[p].ino, i) - Is(loc[p].ino, i)
  <2>. DEFINE A == {q \in Procs : loc[q].ino = i}
              B == {q \in Procs : loc'[q].ino = i}
  <2>1. \A q \in Procs \ {p} : q \in A <=> q \in B
    BY DEF Kept, Others
  <2>2. (p \in A <=> loc[p].ino = i) /\ (p \in B <=> loc'[p].ino = i)
    OBVIOUS
  <2>3. A \in SUBSET Procs /\ B \in SUBSET Procs /\ c = Cardinality(A)
    BY <1>3
  <2>. HIDE DEF A, B
  <2>4. Cardinality(A) \in Nat /\ Cardinality(B) = Cardinality(A) + (IF p \in B THEN 1 ELSE 0)
                                            - (IF p \in A THEN 1 ELSE 0)
    BY <2>1, <2>3, CardStep
  <2>5. Cardinality(B) = c + Is(loc'[p].ino, i) - Is(loc[p].ino, i)
    BY <2>2, <2>3, <2>4 DEF Is
  <2>. QED
    BY <2>3, <2>4, <2>5 DEF B
<1>9. /\ d \in Nat
      /\ Cardinality({q \in Procs : loc'[q].put = i}) = d + Is(loc'[p].put, i) - Is(loc[p].put, i)
  <2>. DEFINE A == {q \in Procs : loc[q].put = i}
              B == {q \in Procs : loc'[q].put = i}
  <2>1. \A q \in Procs \ {p} : q \in A <=> q \in B
    BY DEF Kept, Others
  <2>2. (p \in A <=> loc[p].put = i) /\ (p \in B <=> loc'[p].put = i)
    OBVIOUS
  <2>3. A \in SUBSET Procs /\ B \in SUBSET Procs /\ d = Cardinality(A)
    BY <1>4
  <2>. HIDE DEF A, B
  <2>4. Cardinality(A) \in Nat /\ Cardinality(B) = Cardinality(A) + (IF p \in B THEN 1 ELSE 0)
                                            - (IF p \in A THEN 1 ELSE 0)
    BY <2>1, <2>3, CardStep
  <2>5. Cardinality(B) = d + Is(loc'[p].put, i) - Is(loc[p].put, i)
    BY <2>2, <2>3, <2>4 DEF Is
  <2>. QED
    BY <2>3, <2>4, <2>5 DEF B
<1>10. /\ e \in Nat
       /\ Cardinality({q \in Procs : loc'[q].then = i}) = e + Is(loc'[p].then, i) - Is(loc[p].then, i)
  <2>. DEFINE A == {q \in Procs : loc[q].then = i}
              B == {q \in Procs : loc'[q].then = i}
  <2>1. \A q \in Procs \ {p} : q \in A <=> q \in B
    BY DEF Kept, Others
  <2>2. (p \in A <=> loc[p].then = i) /\ (p \in B <=> loc'[p].then = i)
    OBVIOUS
  <2>3. A \in SUBSET Procs /\ B \in SUBSET Procs /\ e = Cardinality(A)
    BY <1>5
  <2>. HIDE DEF A, B
  <2>4. Cardinality(A) \in Nat /\ Cardinality(B) = Cardinality(A) + (IF p \in B THEN 1 ELSE 0)
                                            - (IF p \in A THEN 1 ELSE 0)
    BY <2>1, <2>3, CardStep
  <2>5. Cardinality(B) = e + Is(loc'[p].then, i) - Is(loc[p].then, i)
    BY <2>2, <2>3, <2>4 DEF Is
  <2>. QED
    BY <2>3, <2>4, <2>5 DEF B
<1>11. inode[i].count = a + b + c + d + e + (IF i = Root THEN Pins ELSE 0)
  BY <1>1, <1>2, <1>3, <1>4, <1>5 DEF IInv, CountsMatch
<1>12. inode'[i].count = inode[i].count + Times(i, loc'[p], file'[p]) - Times(i, loc[p], file[p])
  BY DEF Kept, Balanced
<1>. QED
  BY <1>6, <1>7, <1>8, <1>9, <1>10, <1>11, <1>12 DEF Times, Is, Pins

LEMMA Keeps ==
  ASSUME IInv, NEW p \in Procs, Kept(p)
  PROVE  IInv'
<1>1. InodesShaped' /\ CountsMatch'
  BY CountsKept DEF Kept
<1>2. /\ DOMAIN loc' = Procs /\ DOMAIN file' = Procs
      /\ imap' \subseteq Inodes /\ \A i \in Inodes \ imap' : inode'[i].count = 0
  BY DEF Kept, Others
<1>3. \A q \in Procs : InCall(loc'[q], file'[q])
  BY DEF Kept, Others, IInv
<1>. QED
  BY <1>1, <1>2, <1>3 DEF IInv

(* The references of a process are counted.                                *)
LEMMA Counted ==
  ASSUME IInv, NEW p \in Procs, NEW i \in Inodes
  PROVE  inode[i].count >= Times(i, loc[p], file[p]) + (IF i = Root THEN Pins ELSE 0)
<1>1. PICK a : a = Cardinality({q \in Procs : file[q] = i})
  OBVIOUS
<1>2. PICK b : b = Cardinality({q \in Procs : loc[q].dir = i})
  OBVIOUS
<1>3. PICK c : c = Cardinality({q \in Procs : loc[q].ino = i})
  OBVIOUS
<1>4. PICK d : d = Cardinality({q \in Procs : loc[q].put = i})
  OBVIOUS
<1>5. PICK e : e = Cardinality({q \in Procs : loc[q].then = i})
  OBVIOUS
<1>6. a \in Nat /\ a >= Is(file[p], i)
  <2>. DEFINE A == {q \in Procs : file[q] = i}
  <2>1. (p \in A <=> file[p] = i) /\ A \in SUBSET Procs /\ a = Cardinality(A)
    BY <1>1
  <2>. HIDE DEF A
  <2>. QED
    BY <2>1, CardStep DEF Is
<1>7. b \in Nat /\ b >= Is(loc[p].dir, i)
  <2>. DEFINE A == {q \in Procs : loc[q].dir = i}
  <2>1. (p \in A <=> loc[p].dir = i) /\ A \in SUBSET Procs /\ b = Cardinality(A)
    BY <1>2
  <2>. HIDE DEF A
  <2>. QED
    BY <2>1, CardStep DEF Is
<1>8. c \in Nat /\ c >= Is(loc[p].ino, i)
  <2>. DEFINE A == {q \in Procs : loc[q].ino = i}
  <2>1. (p \in A <=> loc[p].ino = i) /\ A \in SUBSET Procs /\ c = Cardinality(A)
    BY <1>3
  <2>. HIDE DEF A
  <2>. QED
    BY <2>1, CardStep DEF Is
<1>9. d \in Nat /\ d >= Is(loc[p].put, i)
  <2>. DEFINE A == {q \in Procs : loc[q].put = i}
  <2>1. (p \in A <=> loc[p].put = i) /\ A \in SUBSET Procs /\ d = Cardinality(A)
    BY <1>4
  <2>. HIDE DEF A
  <2>. QED
    BY <2>1, CardStep DEF Is
<1>10. e \in Nat /\ e >= Is(loc[p].then, i)
  <2>. DEFINE A == {q \in Procs : loc[q].then = i}
  <2>1. (p \in A <=> loc[p].then = i) /\ A \in SUBSET Procs /\ e = Cardinality(A)
    BY <1>5
  <2>. HIDE DEF A
  <2>. QED
    BY <2>1, CardStep DEF Is
<1>11. inode[i].count = a + b + c + d + e + (IF i = Root THEN Pins ELSE 0)
  BY <1>1, <1>2, <1>3, <1>4, <1>5 DEF IInv, CountsMatch
<1>. HIDE DEF IInv
<1>. QED
  BY <1>6, <1>7, <1>8, <1>9, <1>10, <1>11 DEF Times, Is, Pins

(* A free inode is referred to by nobody, and is not the root.             *)
LEMMA FreeUnnamed ==
  ASSUME IInv, NEW p \in Procs, NEW i \in Inodes \ imap
  PROVE  /\ i # file[p] /\ i # loc[p].dir /\ i # loc[p].ino /\ i # loc[p].put /\ i # loc[p].then
         /\ i # Root /\ Times(i, loc[p], file[p]) = 0
<1>1. inode[i].count = 0 /\ inode[i].count >= Times(i, loc[p], file[p]) + (IF i = Root THEN Pins ELSE 0)
  BY Counted DEF IInv
<1>. QED
  BY <1>1 DEF Times, Is, Pins

LEMMA RootLive ==
  ASSUME IInv, NEW p \in Procs
  PROVE  Root \in imap /\ inode[Root].count >= Pins + Times(Root, loc[p], file[p])
<1>1. Root \in Inodes
  BY RootIn
<1>2. Root \in imap
  BY <1>1, FreeUnnamed
<1>3. inode[Root].count >= Times(Root, loc[p], file[p]) + Pins
  BY <1>1, Counted
<1>4. Times(Root, loc[p], file[p]) \in Int
  BY DEF Times, Is
<1>. QED
  BY <1>2, <1>3, <1>4 DEF Pins

(***************************************************************************)
(* The kinds of steps.                                                     *)
(***************************************************************************)
(* Nothing is allocated, and counts stay.                                  *)
SameCounts ==
  /\ InodesShaped' /\ imap' = imap
  /\ \A i \in Inodes : inode'[i].count = inode[i].count

LEMMA Unchanged ==
  ASSUME IInv, UNCHANGED <<imap, inode>>
  PROVE  SameCounts
BY DEF IInv, InodesShaped, SameCounts

LEMMA ZoneSet ==
  ASSUME IInv, imap' = imap, NEW i, NEW k, NEW z, inode' = [inode EXCEPT ![i].zone[k] = z]
  PROVE  SameCounts
BY DEF IInv, InodesShaped, InodeFields, SameCounts

LEMMA SizeSet ==
  ASSUME IInv, imap' = imap, NEW i, NEW z, inode' = [inode EXCEPT ![i].size = z]
  PROVE  SameCounts
BY DEF IInv, InodesShaped, InodeFields, SameCounts

LEMMA LinksSet ==
  ASSUME IInv, imap' = imap, NEW i, NEW z, inode' = [inode EXCEPT ![i].nlinks = z]
  PROVE  SameCounts
BY DEF IInv, InodesShaped, InodeFields, SameCounts

LEMMA CountSet ==
  ASSUME IInv, NEW i \in Inodes, NEW n \in Int, inode' = [inode EXCEPT ![i].count = n]
  PROVE  /\ InodesShaped'
         /\ \A j \in Inodes : inode'[j].count = IF j = i THEN n ELSE inode[j].count
BY DEF IInv, InodesShaped, InodeFields

(* The locals of p, named.                                                 *)
Local(p, me, open) == me = loc[p] /\ open = file[p] /\ InCall(me, open)

Here(p, me, open) == Local(p, me, open) /\ me = loc[p] /\ open = file[p] /\ DOMAIN me = Fields

LEMMA LocalIs ==
  ASSUME IInv, NEW p \in Procs
  PROVE  \E me, open : Here(p, me, open)
BY DEF IInv, Local, Here, InCall, Shaped

(* x differs from me in locals that no reference depends on; y is x at     *)
(* label, or in routine r, which returns there.                            *)
SameRefs(x, me) ==
  /\ DOMAIN x = Fields /\ x.op = me.op
  /\ x.dir = me.dir /\ x.ino = me.ino /\ x.put = me.put /\ x.then = me.then

Becomes(y, x, label) == SameRefs(y, x) /\ y.pc = label /\ y.back = x.back

Calls(y, x, r, label) == SameRefs(y, x) /\ y.pc = r /\ y.back = [x.back EXCEPT ![r] = label]

Returns(y, x, r) == /\ SameRefs(y, x) /\ y.pc = x.back[r]
                    /\ y.back = [x.back EXCEPT ![r] = "none"]

LEMMA GotoGives ==
  ASSUME IInv, NEW p \in Procs, NEW x, DOMAIN x = Fields, NEW label, Goto(p, label, x)
  PROVE  Becomes(loc'[p], x, label) /\ DOMAIN loc' = Procs /\ \A q \in Procs \ {p} : loc'[q] = loc[q]
<1>1. loc'[p] = [x EXCEPT !.pc = label] /\ DOMAIN loc' = Procs /\ \A q \in Procs \ {p} : loc'[q] = loc[q]
  BY DEF Goto, IInv
<1>. QED
  BY <1>1 DEF Becomes, SameRefs, Fields

LEMMA CallGives ==
  ASSUME IInv, NEW p \in Procs, NEW x, DOMAIN x = Fields, NEW r, NEW label, Call(p, r, label, x)
  PROVE  Calls(loc'[p], x, r, label) /\ DOMAIN loc' = Procs /\ \A q \in Procs \ {p} : loc'[q] = loc[q]
<1>1. PICK y : y = [x EXCEPT !.back[r] = label]
  OBVIOUS
<1>2. DOMAIN y = Fields /\ y.back = [x.back EXCEPT ![r] = label] /\ SameRefs(y, x)
  BY <1>1 DEF SameRefs, Fields
<1>3. Goto(p, r, y)
  BY <1>1 DEF Call
<1>. QED
  BY <1>2, <1>3, GotoGives DEF Becomes, Calls, SameRefs

LEMMA ReturnGives ==
  ASSUME IInv, NEW p \in Procs, NEW x, DOMAIN x = Fields, NEW r, Return(p, r, x)
  PROVE  /\ IF x.back[r] = "idle" THEN loc'[p] = Idle ELSE Returns(loc'[p], x, r)
         /\ DOMAIN loc' = Procs /\ \A q \in Procs \ {p} : loc'[q] = loc[q]
<1>1. CASE x.back[r] = "idle"
  BY <1>1 DEF Return, IInv
<1>2. CASE x.back[r] # "idle"
  <2>1. PICK y : y = [x EXCEPT !.back[r] = "none"]
    OBVIOUS
  <2>2. DOMAIN y = Fields /\ y.back = [x.back EXCEPT ![r] = "none"] /\ SameRefs(y, x)
    BY <2>1 DEF SameRefs, Fields
  <2>3. Goto(p, x.back[r], y)
    BY <1>2, <2>1 DEF Return
  <2>. QED
    BY <1>2, <2>2, <2>3, GotoGives DEF Becomes, Returns, SameRefs
<1>. QED
  BY <1>1, <1>2

(* A step that leaves the references of p alone.                           *)
LEMMA QuietKept ==
  ASSUME IInv, NEW p \in Procs, NEW me, NEW open, Local(p, me, open), SameCounts, file' = file,
         DOMAIN loc' = Procs, \A q \in Procs \ {p} : loc'[q] = loc[q], InCall(loc'[p], open),
         loc'[p].dir = me.dir, loc'[p].ino = me.ino, loc'[p].put = me.put, loc'[p].then = me.then
  PROVE  Kept(p)
<1>1. Others(p)
  BY DEF Others, IInv
<1>2. InCall(loc'[p], file'[p])
  BY DEF Local
<1>3. Balanced(p)
  <2>1. \A i \in Inodes : Times(i, loc'[p], file'[p]) = Times(i, loc[p], file[p])
    BY DEF Times, Local
  <2>2. \A i \in Inodes : Times(i, loc[p], file[p]) \in Int /\ inode[i].count \in Int
    BY DEF Times, Is, IInv, InodesShaped
  <2>. QED
    BY <2>1, <2>2 DEF Balanced, SameCounts
<1>. QED
  BY <1>1, <1>2, <1>3 DEF Kept, SameCounts, IInv

(* A label where what p holds was fixed before.                            *)
Acting == {"add", "slot", "added", "made", "block", "dots", "unlink", "rmdir", "empty_dir",
           "unlinked", "removed"}

LEMMA QuietGoto ==
  ASSUME IInv, NEW p \in Procs, NEW me, NEW open, Local(p, me, open), SameCounts, file' = file,
         NEW x, SameRefs(x, me), x.back = me.back, NEW label, Goto(p, label, x),
         \/ \E G \in {Finding, Taking, Filling, Truncating} : me.pc \in G /\ label \in G
         \/ me.pc \in Acting \union {"looked"} /\ label \in Acting
         \/ me.pc = "walk" /\ label = "resolved"
         \/ me.pc = "looked" /\ me.op # "link" /\ label = "new_inode"
  PROVE  Kept(p)
<1>1. PICK y : y = loc'[p]
  OBVIOUS
<1>2. Becomes(y, x, label) /\ DOMAIN loc' = Procs /\ \A q \in Procs \ {p} : loc'[q] = loc[q]
  BY <1>1, GotoGives DEF SameRefs
<1>3. SameRefs(y, me) /\ y.pc = label /\ y.back = me.back
  BY <1>2 DEF Becomes, SameRefs
<1>4. BackInv(y)
  BY <1>3 DEF Local, InCall, BackInv, Acting
<1>5. HoldsInv(y, open)
  BY <1>3 DEF Local, InCall, BackInv, HoldsInv, Due, Acting, SameRefs
<1>6. InCall(y, open)
  BY <1>3, <1>4, <1>5 DEF Local, InCall, Shaped, SameRefs
<1>. QED
  BY <1>1, <1>2, <1>3, <1>6, QuietKept DEF SameRefs

LEMMA QuietCall ==
  ASSUME IInv, NEW p \in Procs, NEW me, NEW open, Local(p, me, open), SameCounts, file' = file,
         NEW x, SameRefs(x, me), x.back = me.back, NEW r, NEW label, Call(p, r, label, x),
         \/ r = "new_block" /\ label \in {"direct", "indirect", "link"} /\ me.pc \in Filling
         \/ r = "new_block" /\ label = "block" /\ me.pc = "made"
         \/ r = "create_block" /\ label = "slot" /\ me.pc = "slot"
         \/ r = "find" /\ label = "step" /\ me.pc = "walk"
         \/ r = "find" /\ label = "looked" /\ me.pc = "resolved"
         \/ r = "find" /\ label = "old" /\ me.pc = "resolved" /\ me.op = "link" /\ me.ino = 0
         \/ r = "iget" /\ label \in {"unlink", "rmdir"} /\ me.pc = "looked" /\ me.op # "link"
         \/ r = "truncate" /\ label = "opened_fd" /\ me.pc = "opened"
         \/ r = "truncate" /\ label = "free_inode" /\ me.pc = "iput" /\ me.put # 0
  PROVE  Kept(p)
<1>1. PICK y : y = loc'[p]
  OBVIOUS
<1>2. Calls(y, x, r, label) /\ DOMAIN loc' = Procs /\ \A q \in Procs \ {p} : loc'[q] = loc[q]
  BY <1>1, CallGives DEF SameRefs
<1>3. SameRefs(y, me) /\ y.pc = r /\ y.back = [me.back EXCEPT ![r] = label]
  BY <1>2 DEF Calls, SameRefs
<1>4. BackInv(y)
  BY <1>3 DEF Local, InCall, Shaped, BackInv, Routines
<1>5. HoldsInv(y, open)
  BY <1>3 DEF Local, InCall, Shaped, BackInv, HoldsInv, Due, Routines, SameRefs
<1>6. InCall(y, open)
  BY <1>3, <1>4, <1>5 DEF Local, InCall, Shaped, SameRefs
<1>. QED
  BY <1>1, <1>2, <1>3, <1>6, QuietKept DEF SameRefs

LEMMA IdleInCall == ASSUME NEW open \in MaybeInode PROVE InCall(Idle, open)
BY DEF InCall, Shaped, Idle, Fields, MaybeInode, BackInv, HoldsInv, Due, Routines

LEMMA QuietReturn ==
  ASSUME IInv, NEW p \in Procs, NEW me, NEW open, Local(p, me, open), SameCounts, file' = file,
         NEW x, SameRefs(x, me), x.back = me.back, NEW r, Return(p, r, x),
         \/ r = "find" /\ me.pc \in Finding
         \/ r = "new_block" /\ me.pc \in Taking
         \/ r = "create_block" /\ me.pc \in Filling
         \/ r = "truncate" /\ me.pc \in Truncating
  PROVE  Kept(p)
<1>1. PICK y : y = loc'[p]
  OBVIOUS
<1>2. /\ IF x.back[r] = "idle" THEN y = Idle ELSE Returns(y, x, r)
      /\ DOMAIN loc' = Procs /\ \A q \in Procs \ {p} : loc'[q] = loc[q]
  BY <1>1, ReturnGives DEF SameRefs
<1>3. CASE x.back[r] = "idle"
  <2>1. r = "create_block" /\ me.dir = 0 /\ me.ino = 0 /\ me.put = 0 /\ me.then = 0
    BY <1>3 DEF Local, InCall, BackInv, HoldsInv, Due
  <2>2. InCall(y, open)
    BY <1>2, <1>3, IdleInCall DEF Local, InCall
  <2>3. Idle.dir = 0 /\ Idle.ino = 0 /\ Idle.put = 0 /\ Idle.then = 0
    BY DEF Idle
  <2>. QED
    BY <1>1, <1>2, <1>3, <2>1, <2>2, <2>3, QuietKept
<1>4. CASE x.back[r] # "idle"
  <2>1. SameRefs(y, me) /\ y.pc = me.back[r] /\ y.back = [me.back EXCEPT ![r] = "none"]
    BY <1>2, <1>4 DEF Returns, SameRefs
  <2>2. BackInv(y)
    BY <1>4, <2>1 DEF Local, InCall, Shaped, BackInv, Routines
  <2>3. HoldsInv(y, open)
    BY <1>4, <2>1 DEF Local, InCall, Shaped, BackInv, HoldsInv, Due, Routines, SameRefs
  <2>4. InCall(y, open)
    BY <2>1, <2>2, <2>3 DEF Local, InCall, Shaped, SameRefs
  <2>. QED
    BY <1>1, <1>2, <2>1, <2>4, QuietKept DEF SameRefs
<1>. QED
  BY <1>3, <1>4

(* The end of a call: i and j are put back, with what p had.               *)
LEMMA ExitKeeps ==
  ASSUME IInv, NEW p \in Procs, NEW me, NEW open, Local(p, me, open), SameCounts,
         NEW i \in MaybeInode, NEW j \in MaybeInode, NEW bh, Exit(p, i, j, bh),
         NEW left \in MaybeInode, DOMAIN file' = Procs, file'[p] = left,
         \A q \in Procs \ {p} : file'[q] = file[q],
         \A k \in Inodes : Is(i, k) + Is(j, k) + Is(left, k) = Times(k, me, open)
  PROVE  Kept(p)
<1>1. PICK y : y = loc'[p]
  OBVIOUS
<1>2. PICK x : x = IF i # 0 THEN [Idle EXCEPT !.put = i, !.then = j, !.bh = bh]
                   ELSE [Idle EXCEPT !.put = j, !.bh = bh]
  OBVIOUS
<1>3. /\ DOMAIN x = Fields /\ x.back = [r \in Routines |-> "none"]
      /\ x.op = "none" /\ x.dir = 0 /\ x.ino = 0
      /\ x.put = (IF i # 0 THEN i ELSE j) /\ x.then = (IF i # 0 THEN j ELSE 0)
  BY <1>2 DEF Idle, Fields
<1>4. Calls(y, x, "iput", "idle") /\ DOMAIN loc' = Procs /\ \A q \in Procs \ {p} : loc'[q] = loc[q]
  BY <1>1, <1>2, <1>3, CallGives DEF Exit
<1>5. /\ y.pc = "iput" /\ y.back = [[r \in Routines |-> "none"] EXCEPT !["iput"] = "idle"]
      /\ y.op = "none" /\ y.dir = 0 /\ y.ino = 0 /\ DOMAIN y = Fields
      /\ y.put = (IF i # 0 THEN i ELSE j) /\ y.then = (IF i # 0 THEN j ELSE 0)
  BY <1>3, <1>4 DEF Calls, SameRefs
<1>6. InCall(y, left)
  BY <1>5 DEF InCall, Shaped, MaybeInode, BackInv, HoldsInv, Due, Routines
<1>7. Others(p) /\ file'[p] = left
  BY <1>4 DEF Others, IInv
<1>8. Balanced(p)
  <2>1. \A k \in Inodes : Times(k, y, left) = Times(k, me, open)
    <3>. SUFFICES ASSUME NEW k \in Inodes PROVE Times(k, y, left) = Times(k, me, open)
      OBVIOUS
    <3>1. Is(i, k) + Is(j, k) + Is(left, k) = Times(k, me, open) /\ k # 0
      BY RootIn
    <3>. QED
      BY <1>5, <3>1 DEF Times, Is
  <2>2. \A k \in Inodes : Times(k, me, open) \in Int /\ inode[k].count \in Int
    BY DEF Times, Is, IInv, InodesShaped
  <2>. QED
    BY <1>1, <1>7, <2>1, <2>2 DEF Balanced, SameCounts, Local
<1>. QED
  BY <1>1, <1>6, <1>7, <1>8 DEF Kept, SameCounts, IInv

(* The directory is put back in the middle of a call.                      *)
LEMMA PutDirKeeps ==
  ASSUME IInv, NEW p \in Procs, NEW me, NEW open, Local(p, me, open), SameCounts, file' = file,
         NEW x, SameRefs(x, me), NEW label, PutDir(p, label, x),
         \/ me.pc = "step" /\ label = "iget_dir" /\ x.back = me.back
         \/ me.pc = "old" /\ label = "iget" /\ x.back = [me.back EXCEPT !["iget"] = "oldinode"]
         \/ me.pc = "looked" /\ me.op = "trunc" /\ label = "iget"
            /\ x.back = [me.back EXCEPT !["iget"] = "opened"]
         \/ me.pc = "added" /\ label \in {"relink", "undo"} /\ x.back = me.back
  PROVE  Kept(p)
<1>1. PICK y : y = loc'[p]
  OBVIOUS
<1>2. PICK z : z = [x EXCEPT !.put = x.dir, !.dir = 0, !.bh = 0]
  OBVIOUS
<1>3. /\ DOMAIN z = Fields /\ z.back = x.back /\ z.op = me.op /\ z.dir = 0 /\ z.ino = me.ino
      /\ z.put = me.dir /\ z.then = me.then
  BY <1>2 DEF SameRefs, Fields
<1>4. Calls(y, z, "iput", label) /\ DOMAIN loc' = Procs /\ \A q \in Procs \ {p} : loc'[q] = loc[q]
  BY <1>1, <1>2, <1>3, CallGives DEF PutDir
<1>5. /\ y.pc = "iput" /\ y.back = [x.back EXCEPT !["iput"] = label] /\ DOMAIN y = Fields
      /\ y.op = me.op /\ y.dir = 0 /\ y.ino = me.ino /\ y.put = me.dir /\ y.then = me.then
  BY <1>3, <1>4 DEF Calls, SameRefs
<1>6. me.put = 0 /\ me.then = 0
  BY DEF Local, InCall, BackInv, HoldsInv
<1>7. BackInv(y)
  BY <1>5 DEF Local, InCall, Shaped, BackInv, Routines
<1>8. HoldsInv(y, open)
  BY <1>5 DEF Local, InCall, Shaped, BackInv, HoldsInv, Due, Routines
<1>9. InCall(y, open)
  BY <1>5, <1>7, <1>8 DEF Local, InCall, Shaped, MaybeInode
<1>10. Others(p) /\ file'[p] = open
  BY <1>4 DEF Others, IInv, Local
<1>11. Balanced(p)
  <2>1. \A k \in Inodes : Times(k, y, open) = Times(k, me, open)
    BY <1>5, <1>6, RootIn DEF Times, Is
  <2>2. \A k \in Inodes : Times(k, me, open) \in Int /\ inode[k].count \in Int
    BY DEF Times, Is, IInv, InodesShaped
  <2>. QED
    BY <1>1, <1>10, <2>1, <2>2 DEF Balanced, SameCounts, Local
<1>. QED
  BY <1>1, <1>9, <1>10, <1>11 DEF Kept, SameCounts, IInv

(* What was to be put is no longer referred to.                            *)
LEMMA PutDoneKeeps ==
  ASSUME IInv, NEW p \in Procs, NEW me, NEW open, Local(p, me, open), file' = file,
         me.pc \in {"iput", "free_inode"}, PutDone(p), InodesShaped',
         \A k \in Inodes : inode'[k].count = inode[k].count - Is(me.put, k),
         imap' \subseteq Inodes, \A k \in Inodes \ imap' : inode'[k].count = 0
  PROVE  Kept(p)
<1>1. PICK y : y = loc'[p]
  OBVIOUS
<1>2. PICK x : x = [me EXCEPT !.put = me.then, !.then = 0]
  OBVIOUS
<1>3. /\ DOMAIN x = Fields /\ x.back = me.back /\ x.op = me.op /\ x.dir = me.dir /\ x.ino = me.ino
      /\ x.put = me.then /\ x.then = 0
  BY <1>2 DEF Local, InCall, Shaped, Fields
<1>4. IF x.put = 0 THEN Return(p, "iput", x) ELSE Goto(p, "iput", x)
  BY <1>2, <1>3 DEF PutDone, Local
<1>5. /\ DOMAIN loc' = Procs /\ \A q \in Procs \ {p} : loc'[q] = loc[q]
      /\ InCall(y, open) /\ y.dir = me.dir /\ y.ino = me.ino /\ y.put = me.then /\ y.then = 0
  <2>1. CASE x.put # 0
    <3>1. Becomes(y, x, "iput") /\ DOMAIN loc' = Procs /\ \A q \in Procs \ {p} : loc'[q] = loc[q]
      BY <1>1, <1>3, <1>4, <2>1, GotoGives
    <3>2. /\ DOMAIN y = Fields /\ y.back = me.back /\ y.op = me.op /\ y.dir = me.dir
          /\ y.ino = me.ino /\ y.put = me.then /\ y.then = 0 /\ y.pc = "iput"
      BY <1>3, <3>1 DEF Becomes, SameRefs
    <3>3. BackInv(y)
      BY <3>2 DEF Local, InCall, BackInv
    <3>4. HoldsInv(y, open)
      BY <3>2 DEF Local, InCall, BackInv, HoldsInv, Due
    <3>. QED
      BY <3>1, <3>2, <3>3, <3>4, RootIn DEF Local, InCall, Shaped, MaybeInode
  <2>2. CASE x.put = 0 /\ x.back["iput"] = "idle"
    <3>1. y = Idle /\ DOMAIN loc' = Procs /\ \A q \in Procs \ {p} : loc'[q] = loc[q]
      BY <1>1, <1>3, <1>4, <2>2, ReturnGives
    <3>2. me.dir = 0 /\ me.ino = 0
      BY <1>3, <2>2 DEF Local, InCall, HoldsInv, Due
    <3>3. Idle.dir = 0 /\ Idle.ino = 0 /\ Idle.put = 0 /\ Idle.then = 0
      BY DEF Idle
    <3>. QED
      BY <1>3, <2>2, <3>1, <3>2, <3>3, IdleInCall DEF Local, InCall
  <2>3. CASE x.put = 0 /\ x.back["iput"] # "idle"
    <3>1. Returns(y, x, "iput") /\ DOMAIN loc' = Procs /\ \A q \in Procs \ {p} : loc'[q] = loc[q]
      BY <1>1, <1>3, <1>4, <2>3, ReturnGives
    <3>2. /\ DOMAIN y = Fields /\ y.back = [me.back EXCEPT !["iput"] = "none"] /\ y.op = me.op
          /\ y.dir = me.dir /\ y.ino = me.ino /\ y.put = 0 /\ y.then = 0 /\ y.pc = me.back["iput"]
          /\ me.then = 0 /\ me.back["iput"] # "idle"
      BY <1>3, <2>3, <3>1 DEF Returns, SameRefs
    <3>3. BackInv(y)
      BY <3>2 DEF Local, InCall, Shaped, BackInv, Routines
    <3>4. HoldsInv(y, open)
      BY <3>2 DEF Local, InCall, Shaped, BackInv, HoldsInv, Due, Routines
    <3>. QED
      BY <3>1, <3>2, <3>3, <3>4 DEF Local, InCall, Shaped, MaybeInode
  <2>. QED
    BY <2>1, <2>2, <2>3
<1>6. Others(p) /\ file'[p] = open
  BY <1>5 DEF Others, IInv, Local
<1>7. Balanced(p)
  <2>1. \A k \in Inodes : Times(k, y, open) = Times(k, me, open) - Is(me.put, k)
    BY <1>5, RootIn DEF Times, Is
  <2>2. \A k \in Inodes : Times(k, me, open) \in Int /\ inode[k].count \in Int /\ Is(me.put, k) \in Int
    BY DEF Times, Is, IInv, InodesShaped
  <2>. QED
    BY <1>1, <1>6, <2>1, <2>2 DEF Balanced, Local
<1>. QED
  BY <1>1, <1>5, <1>6, <1>7 DEF Kept

LEMMA PanicKeeps ==
  ASSUME IInv, NEW p \in Procs, Panic(p), SameCounts, file' = file
  PROVE  Kept(p)
<1>1. PICK me, open : Local(p, me, open)
  BY LocalIs DEF Here
<1>2. PICK y : y = loc'[p]
  OBVIOUS
<1>3. Becomes(y, me, "panic") /\ DOMAIN loc' = Procs /\ \A q \in Procs \ {p} : loc'[q] = loc[q]
  BY <1>1, <1>2, GotoGives DEF Panic, Local, InCall, Shaped
<1>4. InCall(y, open)
  BY <1>1, <1>3 DEF Local, InCall, Shaped, Becomes, SameRefs
<1>. QED
  BY <1>1, <1>2, <1>3, <1>4, QuietKept DEF Becomes, SameRefs

(* A block is freed, or p panics.                                          *)
LEMMA free_blockKeeps ==
  ASSUME IInv, NEW p \in Procs, file' = file, NEW b, NEW Done, free_block(p, b, Done),
         imap' = imap /\ Done => Kept(p)
  PROVE  Kept(p)
<1>1. CASE Panic(p) /\ UNCHANGED <<disk, inode>>
  BY <1>1, PanicKeeps, Unchanged DEF disk
<1>2. CASE Done /\ UNCHANGED imap
  BY <1>2
<1>. QED
  BY <1>1, <1>2 DEF free_block

(* x has other values than me in locals that no reference depends on.      *)
Alike(x, me) == SameRefs(x, me) /\ x.back = me.back

Free == Fields \ {"pc", "back", "op", "dir", "ino", "put", "then"}

LEMMA Alike0 == ASSUME NEW me, DOMAIN me = Fields PROVE Alike(me, me)
BY DEF Alike, SameRefs

LEMMA Alike1 ==
  ASSUME NEW me, DOMAIN me = Fields, NEW l \in Free, NEW v
  PROVE  Alike([me EXCEPT ![l] = v], me)
BY DEF Alike, SameRefs, Free, Fields

LEMMA Alike2 ==
  ASSUME NEW me, DOMAIN me = Fields, NEW k \in Free, NEW l \in Free, NEW v, NEW w
  PROVE  Alike([me EXCEPT ![k] = v, ![l] = w], me)
BY DEF Alike, SameRefs, Free, Fields

USE DEF Here

LEMMA NewBlockKeeps ==
  ASSUME IInv, NEW p \in Procs, NewBlock(p)
  PROVE  Kept(p)
<1>1. PICK me, open : Here(p, me, open)
  BY LocalIs
<1>2. me.pc = "new_block" /\ file' = file /\ UNCHANGED <<imap, inode>>
  BY <1>1 DEF NewBlock, At
<1>3. SameCounts
  BY <1>2, Unchanged
<1>4. \A v : Alike([me EXCEPT !.got = v], me)
  BY <1>1, Alike1 DEF Free, Fields
<1>5. CASE Return(p, "new_block", [me EXCEPT !.got = 0])
  BY <1>1, <1>2, <1>3, <1>4, <1>5, QuietReturn DEF Alike
<1>6. ASSUME NEW j, Goto(p, "getblk", [me EXCEPT !.got = j]) PROVE Kept(p)
  BY <1>1, <1>2, <1>3, <1>4, <1>6, QuietGoto DEF Alike
<1>. QED
  BY <1>1, <1>5, <1>6 DEF NewBlock

LEMMA GotBlockKeeps ==
  ASSUME IInv, NEW p \in Procs, GotBlock(p)
  PROVE  Kept(p)
<1>1. PICK me, open : Here(p, me, open)
  BY LocalIs
<1>2. me.pc = "getblk" /\ file' = file /\ UNCHANGED <<imap, inode>>
  BY <1>1 DEF GotBlock, At, disk
<1>3. SameCounts
  BY <1>2, Unchanged
<1>4. CASE Return(p, "new_block", me)
  BY <1>1, <1>2, <1>3, <1>4, Alike0, QuietReturn DEF Alike
<1>5. CASE Panic(p)
  BY <1>2, <1>3, <1>5, PanicKeeps
<1>. QED
  BY <1>1, <1>4, <1>5 DEF GotBlock

LEMMA CreateBlockKeeps ==
  ASSUME IInv, NEW p \in Procs, CreateBlock(p)
  PROVE  Kept(p)
<1>1. PICK me, open : Here(p, me, open)
  BY LocalIs
<1>2. me.pc = "create_block" /\ file' = file /\ UNCHANGED <<imap, inode>>
  BY <1>1 DEF CreateBlock, At, disk
<1>3. SameCounts
  BY <1>2, Unchanged
<1>4. \A v : Alike([me EXCEPT !.ind = v], me) /\ Alike([me EXCEPT !.blk = v], me)
  BY <1>1, Alike1 DEF Free, Fields
<1>5. ASSUME NEW label \in {"direct", "indirect"}, Call(p, "new_block", label, me) PROVE Kept(p)
  BY <1>1, <1>2, <1>3, <1>5, Alike0, QuietCall DEF Alike
<1>6. ASSUME NEW z, Goto(p, "leaf", [me EXCEPT !.ind = z]) PROVE Kept(p)
  BY <1>1, <1>2, <1>3, <1>4, <1>6, QuietGoto DEF Alike
<1>7. ASSUME NEW z, Return(p, "create_block", [me EXCEPT !.blk = z]) PROVE Kept(p)
  BY <1>1, <1>2, <1>3, <1>4, <1>7, QuietReturn DEF Alike
<1>. QED
  BY <1>1, <1>5, <1>6, <1>7 DEF CreateBlock

LEMMA DirectZoneKeeps ==
  ASSUME IInv, NEW p \in Procs, DirectZone(p)
  PROVE  Kept(p)
<1>1. PICK me, open : Here(p, me, open)
  BY LocalIs
<1>2. /\ me.pc = "direct" /\ file' = file /\ imap' = imap /\ SetZone(p, me.n, me.got)
      /\ Return(p, "create_block", [me EXCEPT !.blk = me.got])
  BY <1>1 DEF DirectZone, At, disk
<1>3. SameCounts
  BY <1>2, ZoneSet DEF SetZone
<1>4. Alike([me EXCEPT !.blk = me.got], me)
  BY <1>1, Alike1 DEF Free, Fields
<1>. QED
  BY <1>1, <1>2, <1>3, <1>4, QuietReturn DEF Alike

LEMMA IndirectZoneKeeps ==
  ASSUME IInv, NEW p \in Procs, IndirectZone(p)
  PROVE  Kept(p)
<1>1. PICK me, open : Here(p, me, open)
  BY LocalIs
<1>2. me.pc = "indirect" /\ file' = file /\ imap' = imap /\ SetZone(p, IND, me.got)
  BY <1>1 DEF IndirectZone, At, disk
<1>3. SameCounts
  BY <1>2, ZoneSet DEF SetZone
<1>4. Alike([me EXCEPT !.blk = 0], me) /\ Alike([me EXCEPT !.ind = me.got], me)
  BY <1>1, Alike1 DEF Free, Fields
<1>5. CASE Return(p, "create_block", [me EXCEPT !.blk = 0])
  BY <1>1, <1>2, <1>3, <1>4, <1>5, QuietReturn DEF Alike
<1>6. CASE Goto(p, "leaf", [me EXCEPT !.ind = me.got])
  BY <1>1, <1>2, <1>3, <1>4, <1>6, QuietGoto DEF Alike
<1>. QED
  BY <1>1, <1>5, <1>6 DEF IndirectZone

LEMMA LeafKeeps ==
  ASSUME IInv, NEW p \in Procs, Leaf(p)
  PROVE  Kept(p)
<1>1. PICK me, open : Here(p, me, open)
  BY LocalIs
<1>2. me.pc = "leaf" /\ file' = file /\ UNCHANGED <<imap, inode>>
  BY <1>1 DEF Leaf, At, disk
<1>3. SameCounts
  BY <1>2, Unchanged
<1>4. \A z : Alike([me EXCEPT !.blk = z, !.ind = 0], me)
  BY <1>1, Alike2 DEF Free, Fields
<1>5. CASE Call(p, "new_block", "link", me)
  BY <1>1, <1>2, <1>3, <1>5, Alike0, QuietCall DEF Alike
<1>6. ASSUME NEW z, Return(p, "create_block", [me EXCEPT !.blk = z, !.ind = 0]) PROVE Kept(p)
  BY <1>1, <1>2, <1>3, <1>4, <1>6, QuietReturn DEF Alike
<1>. QED
  BY <1>1, <1>5, <1>6 DEF Leaf

LEMMA LinkLeafKeeps ==
  ASSUME IInv, NEW p \in Procs, LinkLeaf(p)
  PROVE  Kept(p)
<1>1. PICK me, open : Here(p, me, open)
  BY LocalIs
<1>2. /\ me.pc = "link" /\ file' = file /\ UNCHANGED <<imap, inode>>
      /\ Return(p, "create_block", [me EXCEPT !.blk = me.got, !.ind = 0])
  BY <1>1 DEF LinkLeaf, At
<1>3. SameCounts
  BY <1>2, Unchanged
<1>4. Alike([me EXCEPT !.blk = me.got, !.ind = 0], me)
  BY <1>1, Alike2 DEF Free, Fields
<1>. QED
  BY <1>1, <1>2, <1>3, <1>4, QuietReturn DEF Alike

LEMMA TruncateKeeps ==
  ASSUME IInv, NEW p \in Procs, Truncate(p)
  PROVE  Kept(p)
<1>1. PICK me, open : Here(p, me, open)
  BY LocalIs
<1>2. me.pc = "truncate" /\ file' = file
  BY <1>1 DEF Truncate, At
<1>3. ASSUME SameCounts, Return(p, "truncate", me) PROVE Kept(p)
  BY <1>1, <1>2, <1>3, Alike0, QuietReturn DEF Alike
<1>4. CASE Return(p, "truncate", me) /\ UNCHANGED <<disk, inode>>
  BY <1>3, <1>4, Unchanged DEF disk
<1>5. ASSUME NEW k, SetZone(p, k, 0), Goto(p, "truncate", [me EXCEPT !.at = k + 1]), imap' = imap
      PROVE  Kept(p)
  <2>1. SameCounts
    BY <1>5, ZoneSet DEF SetZone
  <2>2. Alike([me EXCEPT !.at = k + 1], me)
    BY <1>1, Alike1 DEF Free, Fields
  <2>. QED
    BY <1>1, <1>2, <1>5, <2>1, <2>2, QuietGoto DEF Alike
<1>6. ASSUME NEW k, free_block(p, zoneOf(p, k), /\ SetZone(p, k, 0)
                                               /\ Goto(p, "truncate", [me EXCEPT !.at = k + 1]))
      PROVE  Kept(p)
  BY <1>2, <1>5, <1>6, free_blockKeeps
<1>7. ASSUME NEW z, Goto(p, "free_ind", [me EXCEPT !.ind = z, !.at = 0]), UNCHANGED <<disk, inode>>
      PROVE  Kept(p)
  <2>1. SameCounts
    BY <1>7, Unchanged DEF disk
  <2>2. Alike([me EXCEPT !.ind = z, !.at = 0], me)
    BY <1>1, Alike2 DEF Free, Fields
  <2>. QED
    BY <1>1, <1>2, <1>7, <2>1, <2>2, QuietGoto DEF Alike
<1>8. CASE inode' = [inode EXCEPT ![me.f].size = 0] /\ Return(p, "truncate", me) /\ UNCHANGED disk
  BY <1>3, <1>8, SizeSet DEF disk
<1>. QED
  BY <1>1, <1>4, <1>6, <1>7, <1>8 DEF Truncate

LEMMA FreeIndKeeps ==
  ASSUME IInv, NEW p \in Procs, FreeInd(p)
  PROVE  Kept(p)
<1>1. PICK me, open : Here(p, me, open)
  BY LocalIs
<1>2. me.pc = "free_ind" /\ file' = file
  BY <1>1 DEF FreeInd, At
<1>3. ASSUME NEW k, Goto(p, "free_ind", [me EXCEPT !.at = k + 1]), UNCHANGED inode, imap' = imap
      PROVE  Kept(p)
  <2>1. SameCounts
    BY <1>3, Unchanged
  <2>2. Alike([me EXCEPT !.at = k + 1], me)
    BY <1>1, Alike1 DEF Free, Fields
  <2>. QED
    BY <1>1, <1>2, <1>3, <2>1, <2>2, QuietGoto DEF Alike
<1>4. ASSUME NEW b, NEW k, free_block(p, b, /\ Goto(p, "free_ind", [me EXCEPT !.at = k + 1])
                                           /\ UNCHANGED inode)
      PROVE  Kept(p)
  BY <1>2, <1>3, <1>4, free_blockKeeps
<1>5. CASE Goto(p, "free_dind", [me EXCEPT !.ind = 0]) /\ UNCHANGED <<disk, inode>>
  <2>1. SameCounts
    BY <1>5, Unchanged DEF disk
  <2>2. Alike([me EXCEPT !.ind = 0], me)
    BY <1>1, Alike1 DEF Free, Fields
  <2>. QED
    BY <1>1, <1>2, <1>5, <2>1, <2>2, QuietGoto DEF Alike
<1>. QED
  BY <1>1, <1>4, <1>5 DEF FreeInd

LEMMA FreeIndBlockKeeps ==
  ASSUME IInv, NEW p \in Procs, FreeIndBlock(p)
  PROVE  Kept(p)
<1>1. PICK me, open : Here(p, me, open)
  BY LocalIs
<1>2. me.pc = "free_dind" /\ file' = file
  BY <1>1 DEF FreeIndBlock, At
<1>3. ASSUME inode' = [inode EXCEPT ![me.f].zone[IND] = 0, ![me.f].size = 0],
             Return(p, "truncate", me), imap' = imap
      PROVE  Kept(p)
  <2>1. SameCounts
    BY <1>3 DEF IInv, InodesShaped, InodeFields, SameCounts
  <2>. QED
    BY <1>1, <1>2, <1>3, <2>1, Alike0, QuietReturn DEF Alike
<1>4. free_block(p, zoneOf(p, IND),
                 /\ inode' = [inode EXCEPT ![me.f].zone[IND] = 0, ![me.f].size = 0]
                 /\ Return(p, "truncate", me))
  BY <1>1 DEF FreeIndBlock
<1>. QED
  BY <1>2, <1>3, <1>4, free_blockKeeps

LEMMA IputKeeps ==
  ASSUME IInv, NEW p \in Procs, Iput(p)
  PROVE  Kept(p)
<1>1. PICK me, open : Here(p, me, open)
  BY LocalIs
<1>2. me.pc = "iput" /\ file' = file /\ imap' = imap
  BY <1>1 DEF Iput, At, disk
<1>3. me.put \in MaybeInode
  BY <1>1 DEF Local, InCall
<1>4. \A k \in Inodes : inode[k].count \in Int
  BY DEF IInv, InodesShaped
<1>5. CASE me.put = 0 /\ PutDone(p) /\ UNCHANGED inode
  <2>1. SameCounts
    BY <1>2, <1>5, Unchanged
  <2>2. \A k \in Inodes : inode'[k].count = inode[k].count - Is(me.put, k)
    BY <1>4, <1>5, RootIn DEF Is
  <2>3. imap' \subseteq Inodes /\ \A k \in Inodes \ imap' : inode'[k].count = 0
    BY <1>2, <1>5 DEF IInv
  <2>. QED
    BY <1>1, <1>2, <1>5, <2>1, <2>2, <2>3, PutDoneKeeps DEF SameCounts
<1>6. CASE Panic(p) /\ UNCHANGED inode
  BY <1>2, <1>6, Unchanged, PanicKeeps
<1>7. CASE me.put # 0 /\ PutLast(p) /\ UNCHANGED inode
  <2>1. Call(p, "truncate", "free_inode", [me EXCEPT !.f = me.put, !.at = 0])
    BY <1>1, <1>7 DEF PutLast
  <2>2. Alike([me EXCEPT !.f = me.put, !.at = 0], me)
    BY <1>1, Alike2 DEF Free, Fields
  <2>3. SameCounts
    BY <1>2, <1>7, Unchanged
  <2>. QED
    BY <1>1, <1>2, <1>7, <2>1, <2>2, <2>3, QuietCall DEF Alike
<1>8. CASE me.put # 0 /\ inode' = [inode EXCEPT ![me.put].count = @ - 1] /\ PutDone(p)
  <2>1. me.put \in Inodes /\ inode[me.put].count \in Int /\ inode[me.put].count - 1 \in Int
    BY <1>3, <1>4, <1>8 DEF MaybeInode
  <2>2. inode' = [inode EXCEPT ![me.put].count = inode[me.put].count - 1]
    BY <1>8
  <2>3. /\ InodesShaped'
        /\ \A k \in Inodes : inode'[k].count = IF k = me.put THEN inode[me.put].count - 1
                                                ELSE inode[k].count
    BY <2>1, <2>2, CountSet
  <2>4. \A k \in Inodes : inode'[k].count = inode[k].count - Is(me.put, k)
    BY <1>4, <2>3 DEF Is
  <2>5. imap' \subseteq Inodes /\ \A k \in Inodes \ imap' : inode'[k].count = 0
    <3>1. imap' \subseteq Inodes /\ \A k \in Inodes \ imap' : inode[k].count = 0
      BY <1>2 DEF IInv
    <3>2. me.put \in imap'
      BY <1>1, <1>2, <2>1, FreeUnnamed
    <3>. QED
      BY <2>3, <3>1, <3>2
  <2>. QED
    BY <1>1, <1>2, <1>8, <2>3, <2>4, <2>5, PutDoneKeeps
<1>. QED
  BY <1>1, <1>5, <1>6, <1>7, <1>8 DEF Iput

LEMMA FreeInodeKeeps ==
  ASSUME IInv, NEW p \in Procs, FreeInode(p)
  PROVE  Kept(p)
<1>1. PICK me, open : Here(p, me, open)
  BY LocalIs
<1>2. me.pc = "free_inode" /\ file' = file
  BY <1>1 DEF FreeInode, At
<1>3. CASE Panic(p) /\ UNCHANGED <<imap, inode>>
  BY <1>2, <1>3, Unchanged, PanicKeeps
<1>4. CASE /\ ~(inode[me.put].count > 1) /\ me.put \in imap
           /\ imap' = imap \ {me.put} /\ inode' = [inode EXCEPT ![me.put] = Blank] /\ PutDone(p)
  <2>1. me.put \in Inodes /\ inode[me.put].count \in Int
    BY <1>4 DEF IInv, InodesShaped
  <2>2. inode[me.put].count = 1
    <3>1. inode[me.put].count >= Times(me.put, me, open) + (IF me.put = Root THEN Pins ELSE 0)
      BY <1>1, <2>1, Counted
    <3>. QED
      BY <1>4, <2>1, <3>1 DEF Times, Is, Pins
  <2>3. /\ InodesShaped'
        /\ \A k \in Inodes : inode'[k].count = IF k = me.put THEN 0 ELSE inode[k].count
    BY <1>4, <2>1 DEF IInv, InodesShaped, InodeFields, Blank
  <2>4. \A k \in Inodes : inode'[k].count = inode[k].count - Is(me.put, k)
    BY <2>2, <2>3 DEF Is, IInv, InodesShaped
  <2>5. imap' \subseteq Inodes /\ \A k \in Inodes \ imap' : inode'[k].count = 0
    BY <1>4, <2>3 DEF IInv
  <2>. QED
    BY <1>1, <1>2, <1>4, <2>3, <2>4, <2>5, PutDoneKeeps
<1>. QED
  BY <1>1, <1>3, <1>4 DEF FreeInode

LEMMA NewInodeKeeps ==
  ASSUME IInv, NEW p \in Procs, NewInode(p)
  PROVE  Kept(p)
<1>1. PICK me, open : Here(p, me, open)
  BY LocalIs
<1>2. me.pc = "new_inode" /\ file' = file /\ me.ino = 0
  BY <1>1 DEF NewInode, At, Local, InCall, HoldsInv
<1>3. \A k \in Inodes : inode[k].count \in Int
  BY DEF IInv, InodesShaped
<1>4. ASSUME NEW i \in MaybeInode, Goto(p, "made", [me EXCEPT !.ino = i]), InodesShaped',
             imap' \subseteq Inodes, \A k \in Inodes \ imap' : inode'[k].count = 0,
             \A k \in Inodes : inode'[k].count = inode[k].count + Is(i, k)
      PROVE  Kept(p)
  <2>1. PICK y : y = loc'[p]
    OBVIOUS
  <2>2. PICK x : x = [me EXCEPT !.ino = i]
    OBVIOUS
  <2>3. /\ DOMAIN x = Fields /\ x.back = me.back /\ x.op = me.op /\ x.dir = me.dir /\ x.ino = i
        /\ x.put = me.put /\ x.then = me.then
    BY <1>1, <2>2 DEF Fields
  <2>4. Becomes(y, x, "made") /\ DOMAIN loc' = Procs /\ \A q \in Procs \ {p} : loc'[q] = loc[q]
    BY <1>4, <2>1, <2>2, <2>3, GotoGives
  <2>5. /\ DOMAIN y = Fields /\ y.back = me.back /\ y.op = me.op /\ y.dir = me.dir /\ y.ino = i
        /\ y.put = me.put /\ y.then = me.then /\ y.pc = "made"
    BY <2>3, <2>4 DEF Becomes, SameRefs
  <2>6. BackInv(y)
    BY <1>1, <1>2, <2>5 DEF Local, InCall, BackInv
  <2>7. HoldsInv(y, open)
    BY <1>1, <1>2, <2>5 DEF Local, InCall, BackInv, HoldsInv, Due
  <2>8. InCall(y, open)
    BY <1>1, <1>4, <2>5, <2>6, <2>7 DEF Local, InCall, Shaped
  <2>9. Others(p) /\ file'[p] = open
    BY <1>1, <1>2, <2>4 DEF Others, IInv
  <2>10. Balanced(p)
    <3>1. \A k \in Inodes : Times(k, y, open) = Times(k, me, open) + Is(i, k)
      BY <1>2, <2>5, RootIn DEF Times, Is
    <3>2. \A k \in Inodes : Times(k, me, open) \in Int /\ Is(i, k) \in Int
      BY DEF Times, Is
    <3>. QED
      BY <1>1, <1>3, <1>4, <2>1, <2>9, <3>1, <3>2 DEF Balanced
  <2>. QED
    BY <1>4, <2>1, <2>8, <2>9, <2>10 DEF Kept
<1>5. CASE Goto(p, "made", [me EXCEPT !.ino = 0]) /\ UNCHANGED <<imap, inode>>
  <2>1. SameCounts
    BY <1>5, Unchanged
  <2>2. \A k \in Inodes : inode'[k].count = inode[k].count + Is(0, k)
    BY <1>3, <1>5, RootIn DEF Is
  <2>3. imap' \subseteq Inodes /\ \A k \in Inodes \ imap' : inode'[k].count = 0
    BY <1>5 DEF IInv
  <2>. QED
    BY <1>4, <1>5, <2>1, <2>2, <2>3 DEF SameCounts, MaybeInode
<1>6. ASSUME NEW i, i = Min(Inodes \ imap), ~(Inodes \subseteq imap), imap' = imap \union {i},
             inode' = [inode EXCEPT ![i] = [Blank EXCEPT !.count = 1, !.nlinks = 1]],
             Goto(p, "made", [me EXCEPT !.ino = i])
      PROVE  Kept(p)
  <2>1. i \in Inodes \ imap
    <3>1. Inodes \ imap \subseteq Nat /\ Inodes \ imap # {}
      BY <1>6 DEF Inodes
    <3>. QED
      BY <1>6, <3>1, MinNat
  <2>2. /\ InodesShaped'
        /\ \A k \in Inodes : inode'[k].count = IF k = i THEN 1 ELSE inode[k].count
    BY <1>6, <2>1 DEF IInv, InodesShaped, InodeFields, Blank
  <2>3. inode[i].count = 0
    BY <2>1 DEF IInv
  <2>4. \A k \in Inodes : inode'[k].count = inode[k].count + Is(i, k)
    BY <1>3, <2>2, <2>3 DEF Is
  <2>5. imap' \subseteq Inodes /\ \A k \in Inodes \ imap' : inode'[k].count = 0
    BY <1>6, <2>1, <2>2 DEF IInv
  <2>. QED
    BY <1>4, <1>6, <2>1, <2>2, <2>4, <2>5 DEF MaybeInode
<1>. QED
  BY <1>1, <1>5, <1>6 DEF NewInode

(***************************************************************************)
(* The steps of Directory.                                                 *)
(***************************************************************************)
Calm(me) == me.pc \notin Putting \union Truncating \union {"panic"}

LEMMA NothingToPut ==
  ASSUME NEW p, NEW me, NEW open, Here(p, me, open), Calm(me)
  PROVE  /\ me.put = 0 /\ me.then = 0
         /\ me.dir \in MaybeInode /\ me.ino \in MaybeInode /\ open \in MaybeInode
BY DEF Calm, Local, InCall, BackInv, HoldsInv

(* A call ends, and puts back what it has, in either order.                *)
LEMMA LeaveKeeps ==
  ASSUME IInv, NEW p \in Procs, NEW me, NEW open, Here(p, me, open), Calm(me), SameCounts,
         file' = file, NEW i, NEW j, NEW bh, Exit(p, i, j, bh),
         (i = me.dir /\ j = me.ino) \/ (i = me.ino /\ j = me.dir)
  PROVE  Kept(p)
<1>1. me.put = 0 /\ me.then = 0 /\ i \in MaybeInode /\ j \in MaybeInode /\ open \in MaybeInode
  BY NothingToPut
<1>2. DOMAIN file' = Procs /\ file'[p] = open /\ \A q \in Procs \ {p} : file'[q] = file[q]
  BY DEF IInv
<1>3. \A k \in Inodes : Is(i, k) + Is(j, k) + Is(open, k) = Times(k, me, open)
  BY <1>1, RootIn DEF Times, Is
<1>. QED
  BY <1>1, <1>2, <1>3, ExitKeeps

(* Inode i is fetched.                                                     *)
Fetched(i) ==
  i \in imap /\ imap' = imap /\ inode' = [inode EXCEPT ![i].count = inode[i].count + 1]

LEMMA GainKeeps ==
  ASSUME IInv, NEW p \in Procs, NEW me, NEW open, Here(p, me, open), file' = file,
         NEW i, Fetched(i),
         DOMAIN loc' = Procs, \A q \in Procs \ {p} : loc'[q] = loc[q],
         InCall(loc'[p], open),
         \A k \in Inodes : Times(k, loc'[p], open) = Times(k, me, open) + Is(i, k)
  PROVE  Kept(p)
<1>1. /\ imap' = imap /\ inode' = [inode EXCEPT ![i].count = inode[i].count + 1]
      /\ i \in imap /\ i \in Inodes /\ \A k \in Inodes : inode[k].count \in Int
  BY DEF IInv, InodesShaped, Fetched
<1>2. inode[i].count + 1 \in Int
  BY <1>1
<1>3. /\ InodesShaped'
      /\ \A k \in Inodes : inode'[k].count = IF k = i THEN inode[i].count + 1
                                              ELSE inode[k].count
  BY <1>1, <1>2, CountSet
<1>4. Others(p) /\ file'[p] = open
  BY DEF Others, IInv
<1>5. Balanced(p)
  <2>1. \A k \in Inodes : Times(k, me, open) \in Int /\ Is(i, k) \in Int
    BY DEF Times, Is
  <2>2. \A k \in Inodes : inode'[k].count = inode[k].count + Is(i, k)
    BY <1>1, <1>3 DEF Is
  <2>. QED
    BY <1>1, <1>4, <2>1, <2>2 DEF Balanced
<1>6. imap' \subseteq Inodes /\ \A k \in Inodes \ imap' : inode'[k].count = 0
  BY <1>1, <1>3 DEF IInv
<1>. QED
  BY <1>3, <1>4, <1>5, <1>6 DEF Kept

LEMMA StartKeeps ==
  ASSUME IInv, NEW p \in Procs, Start(p)
  PROVE  Kept(p)
<1>1. PICK me, open : Here(p, me, open)
  BY LocalIs
<1>2. me.pc = "idle" /\ imap' = imap
  BY <1>1 DEF Start, At, disk
<1>3. Calm(me) /\ me.dir = 0 /\ me.ino = 0 /\ me.put = 0 /\ me.then = 0 /\ open \in MaybeInode
  BY <1>1, <1>2 DEF Calm, Local, InCall, BackInv, HoldsInv, Due
<1>4. ASSUME NEW op, NEW path, NEW new, op \in {"create", "trunc"} => file[p] = 0,
             inode' = [inode EXCEPT ![Root].count = @ + 1], file' = file,
             Goto(p, "walk", [Idle EXCEPT !.op = op, !.path = path, !.new = new, !.dir = Root])
      PROVE  Kept(p)
  <2>1. PICK x : x = [Idle EXCEPT !.op = op, !.path = path, !.new = new, !.dir = Root]
    OBVIOUS
  <2>2. /\ DOMAIN x = Fields /\ x.back = [r \in Routines |-> "none"] /\ x.op = op /\ x.dir = Root
        /\ x.ino = 0 /\ x.put = 0 /\ x.then = 0
    BY <2>1 DEF Idle, Fields
  <2>3. PICK y : y = loc'[p]
    OBVIOUS
  <2>4. Becomes(y, x, "walk") /\ DOMAIN loc' = Procs /\ \A q \in Procs \ {p} : loc'[q] = loc[q]
    BY <1>4, <2>1, <2>2, <2>3, GotoGives
  <2>5. /\ DOMAIN y = Fields /\ y.back = [r \in Routines |-> "none"] /\ y.op = op /\ y.dir = Root
        /\ y.ino = 0 /\ y.put = 0 /\ y.then = 0 /\ y.pc = "walk"
    BY <2>2, <2>4 DEF Becomes, SameRefs
  <2>6. BackInv(y) /\ HoldsInv(y, open)
    BY <1>1, <1>4, <2>5 DEF BackInv, HoldsInv, Due, Routines
  <2>7. InCall(y, open)
    BY <1>3, <2>5, <2>6, RootIn DEF InCall, Shaped, MaybeInode
  <2>8. \A k \in Inodes : Times(k, y, open) = Times(k, me, open) + Is(Root, k)
    BY <1>3, <2>5, RootIn DEF Times, Is
  <2>. QED
    <3>1. Fetched(Root)
      BY <1>2, <1>4, RootLive DEF Fetched
    <3>. QED
      BY <1>1, <1>2, <1>4, <2>3, <2>4, <2>7, <2>8, <3>1, GainKeeps
<1>5. ASSUME NEW n, Call(p, "create_block", "idle", [Idle EXCEPT !.f = file[p], !.n = n]),
             UNCHANGED <<inode, file>>
      PROVE  Kept(p)
  <2>1. PICK x : x = [Idle EXCEPT !.f = file[p], !.n = n]
    OBVIOUS
  <2>2. /\ DOMAIN x = Fields /\ x.back = [r \in Routines |-> "none"] /\ x.op = "none" /\ x.dir = 0
        /\ x.ino = 0 /\ x.put = 0 /\ x.then = 0
    BY <2>1 DEF Idle, Fields
  <2>3. PICK y : y = loc'[p]
    OBVIOUS
  <2>4. Calls(y, x, "create_block", "idle") /\ DOMAIN loc' = Procs
        /\ \A q \in Procs \ {p} : loc'[q] = loc[q]
    BY <1>5, <2>1, <2>2, <2>3, CallGives
  <2>5. /\ DOMAIN y = Fields /\ y.back = [[r \in Routines |-> "none"] EXCEPT !["create_block"] = "idle"]
        /\ y.op = "none" /\ y.dir = 0 /\ y.ino = 0 /\ y.put = 0 /\ y.then = 0
        /\ y.pc = "create_block"
    BY <2>2, <2>4 DEF Calls, SameRefs
  <2>6. BackInv(y) /\ HoldsInv(y, open)
    BY <2>5 DEF BackInv, HoldsInv, Due, Routines
  <2>7. InCall(y, open)
    BY <1>3, <2>5, <2>6 DEF InCall, Shaped, MaybeInode
  <2>8. SameCounts
    BY <1>2, <1>5, Unchanged
  <2>. QED
    BY <1>1, <1>3, <1>5, <2>3, <2>4, <2>5, <2>7, <2>8, QuietKept
<1>6. CASE file' = [file EXCEPT ![p] = 0] /\ Exit(p, file[p], 0, 0) /\ UNCHANGED inode
  <2>1. SameCounts /\ DOMAIN file' = Procs /\ file'[p] = 0
        /\ \A q \in Procs \ {p} : file'[q] = file[q]
    BY <1>2, <1>6, Unchanged DEF IInv
  <2>2. \A k \in Inodes : Is(open, k) + Is(0, k) + Is(0, k) = Times(k, me, open)
    BY <1>3, RootIn DEF Times, Is
  <2>3. open \in MaybeInode /\ 0 \in MaybeInode /\ Exit(p, open, 0, 0)
    BY <1>1, <1>3, <1>6 DEF MaybeInode
  <2>. QED
    BY <1>1, <1>6, <2>1, <2>2, <2>3, ExitKeeps
<1>. QED
  BY <1>4, <1>5, <1>6 DEF Start

LEMMA WalkKeeps ==
  ASSUME IInv, NEW p \in Procs, Walk(p)
  PROVE  Kept(p)
<1>1. PICK me, open : Here(p, me, open)
  BY LocalIs
<1>2. me.pc = "walk" /\ file' = file /\ UNCHANGED <<imap, inode>>
  BY <1>1 DEF Walk, At, disk
<1>3. SameCounts /\ Calm(me)
  BY <1>2, Unchanged DEF Calm
<1>4. PICK x : x = [me EXCEPT !.want = me.path[1]]
  OBVIOUS
<1>5. Alike(x, me)
  BY <1>1, <1>4, Alike1 DEF Free, Fields
<1>6. CASE Exit(p, me.dir, me.ino, 0)
  BY <1>1, <1>2, <1>3, <1>6, LeaveKeeps
<1>7. CASE Goto(p, "resolved", x)
  BY <1>1, <1>2, <1>3, <1>5, <1>7, QuietGoto DEF Alike
<1>8. CASE Call(p, "find", "step", x)
  BY <1>1, <1>2, <1>3, <1>5, <1>8, QuietCall DEF Alike
<1>. QED
  BY <1>1, <1>4, <1>6, <1>7, <1>8 DEF Walk

LEMMA StepDownKeeps ==
  ASSUME IInv, NEW p \in Procs, StepDown(p)
  PROVE  Kept(p)
<1>1. PICK me, open : Here(p, me, open)
  BY LocalIs
<1>2. me.pc = "step" /\ file' = file /\ UNCHANGED <<imap, inode>>
  BY <1>1 DEF StepDown, At, disk
<1>3. SameCounts /\ Calm(me)
  BY <1>2, Unchanged DEF Calm
<1>4. CASE Exit(p, me.dir, me.ino, 0)
  BY <1>1, <1>2, <1>3, <1>4, LeaveKeeps
<1>5. CASE PutDir(p, "iget_dir", [me EXCEPT !.path = Tail(me.path)])
  <2>1. Alike([me EXCEPT !.path = Tail(me.path)], me)
    BY <1>1, Alike1 DEF Free, Fields
  <2>. QED
    BY <1>1, <1>2, <1>3, <1>5, <2>1, PutDirKeeps DEF Alike
<1>. QED
  BY <1>1, <1>4, <1>5 DEF StepDown

LEMMA IgetKeeps ==
  ASSUME IInv, NEW p \in Procs, Iget(p), FollowsLive
  PROVE  Kept(p)
<1>1. PICK me, open : Here(p, me, open)
  BY LocalIs
<1>2. file' = file /\ Fetched(me.ref)
  BY <1>1 DEF Iget, At, FollowsLive, Fetched, disk
<1>3. me.ref \in Inodes /\ me.ref # 0
  BY <1>2, RootIn DEF IInv, Fetched
<1>4. PICK y : y = loc'[p]
  OBVIOUS
<1>5. CASE me.pc = "iget_dir" /\ Goto(p, "walk", [me EXCEPT !.dir = me.ref, !.ref = 0])
  <2>1. PICK x : x = [me EXCEPT !.dir = me.ref, !.ref = 0]
    OBVIOUS
  <2>2. /\ DOMAIN x = Fields /\ x.back = me.back /\ x.op = me.op /\ x.dir = me.ref /\ x.ino = me.ino
        /\ x.put = me.put /\ x.then = me.then
    BY <1>1, <2>1 DEF Fields
  <2>3. Becomes(y, x, "walk") /\ DOMAIN loc' = Procs /\ \A q \in Procs \ {p} : loc'[q] = loc[q]
    BY <1>4, <1>5, <2>1, <2>2, GotoGives
  <2>4. /\ DOMAIN y = Fields /\ y.back = me.back /\ y.op = me.op /\ y.dir = me.ref
        /\ y.ino = me.ino /\ y.put = me.put /\ y.then = me.then /\ y.pc = "walk"
    BY <2>2, <2>3 DEF Becomes, SameRefs
  <2>5. me.dir = 0
    BY <1>1, <1>5 DEF Local, InCall, HoldsInv, Due
  <2>6. BackInv(y)
    BY <1>1, <1>5, <2>4 DEF Local, InCall, BackInv
  <2>7. HoldsInv(y, open)
    BY <1>1, <1>5, <2>4 DEF Local, InCall, BackInv, HoldsInv, Due
  <2>8. InCall(y, open)
    BY <1>1, <1>3, <2>4, <2>6, <2>7 DEF Local, InCall, Shaped, MaybeInode
  <2>9. \A k \in Inodes : Times(k, y, open) = Times(k, me, open) + Is(me.ref, k)
    BY <2>4, <2>5, RootIn DEF Times, Is
  <2>. QED
    BY <1>1, <1>2, <1>4, <2>3, <2>8, <2>9, GainKeeps
<1>6. CASE me.pc = "iget" /\ Return(p, "iget", [me EXCEPT !.ino = me.ref, !.ref = 0])
  <2>1. PICK x : x = [me EXCEPT !.ino = me.ref, !.ref = 0]
    OBVIOUS
  <2>2. /\ DOMAIN x = Fields /\ x.back = me.back /\ x.op = me.op /\ x.dir = me.dir /\ x.ino = me.ref
        /\ x.put = me.put /\ x.then = me.then
    BY <1>1, <2>1 DEF Fields
  <2>3. me.ino = 0 /\ me.back["iget"] \in {"oldinode", "opened", "unlink", "rmdir"}
    BY <1>1, <1>6 DEF Local, InCall, HoldsInv, BackInv
  <2>4. Returns(y, x, "iget") /\ DOMAIN loc' = Procs /\ \A q \in Procs \ {p} : loc'[q] = loc[q]
    BY <1>4, <1>6, <2>1, <2>2, <2>3, ReturnGives
  <2>5. /\ DOMAIN y = Fields /\ y.back = [me.back EXCEPT !["iget"] = "none"] /\ y.op = me.op
        /\ y.dir = me.dir /\ y.ino = me.ref /\ y.put = me.put /\ y.then = me.then
        /\ y.pc = me.back["iget"]
    BY <2>2, <2>4 DEF Returns, SameRefs
  <2>6. BackInv(y)
    BY <1>1, <1>6, <2>3, <2>5 DEF Local, InCall, Shaped, BackInv, Routines
  <2>7. HoldsInv(y, open)
    BY <1>1, <1>6, <2>3, <2>5 DEF Local, InCall, Shaped, BackInv, HoldsInv, Due, Routines
  <2>8. InCall(y, open)
    BY <1>1, <1>3, <2>5, <2>6, <2>7 DEF Local, InCall, Shaped, MaybeInode
  <2>9. \A k \in Inodes : Times(k, y, open) = Times(k, me, open) + Is(me.ref, k)
    BY <2>3, <2>5, RootIn DEF Times, Is
  <2>. QED
    BY <1>1, <1>2, <1>4, <2>4, <2>8, <2>9, GainKeeps
<1>. QED
  BY <1>1, <1>5, <1>6 DEF Iget, At

LEMMA FindKeeps ==
  ASSUME IInv, NEW p \in Procs, Find(p)
  PROVE  Kept(p)
<1>1. PICK me, open : Here(p, me, open)
  BY LocalIs
<1>2. me.pc = "find" /\ file' = file /\ UNCHANGED <<imap, inode>>
  BY <1>1 DEF Find, At, disk
<1>3. SameCounts
  BY <1>2, Unchanged
<1>4. CASE Return(p, "find", [me EXCEPT !.bh = 0, !.ref = 0])
  <2>1. Alike([me EXCEPT !.bh = 0, !.ref = 0], me)
    BY <1>1, Alike2 DEF Free, Fields
  <2>. QED
    BY <1>1, <1>2, <1>3, <1>4, <2>1, QuietReturn DEF Alike
<1>5. ASSUME NEW b, NEW n, NEW w,
             Goto(p, "scan", [me EXCEPT !.blk = b, !.at = 0, !.limit = n, !.want = w])
      PROVE  Kept(p)
  <2>1. Alike([me EXCEPT !.blk = b, !.at = 0, !.limit = n, !.want = w], me)
    BY <1>1 DEF Alike, SameRefs, Fields
  <2>. QED
    BY <1>1, <1>2, <1>3, <1>5, <2>1, QuietGoto DEF Alike
<1>. QED
  BY <1>1, <1>4, <1>5 DEF Find

(* The entry found, or none.                                               *)
LEMMA AlikeFound ==
  ASSUME NEW me, DOMAIN me = Fields, NEW b, NEW s, NEW i
  PROVE  /\ Alike(NotFound(me), me) /\ Alike([NotFound(me) EXCEPT !.bh = b, !.slot = s], me)
         /\ Alike([NotFound(me) EXCEPT !.bh = b, !.slot = s, !.ref = i], me)
<1>1. Alike(NotFound(me), me)
  BY DEF Alike, SameRefs, Fields, NotFound
<1>2. Alike([NotFound(me) EXCEPT !.bh = b, !.slot = s], me)
  BY DEF Alike, SameRefs, Fields, NotFound
<1>3. Alike([NotFound(me) EXCEPT !.bh = b, !.slot = s, !.ref = i], me)
  BY DEF Alike, SameRefs, Fields, NotFound
<1>. QED
  BY <1>1, <1>2, <1>3

LEMMA ScanKeeps ==
  ASSUME IInv, NEW p \in Procs, Scan(p)
  PROVE  Kept(p)
<1>1. PICK me, open : Here(p, me, open)
  BY LocalIs
<1>2. me.pc = "scan" /\ file' = file /\ UNCHANGED <<imap, inode>>
  BY <1>1 DEF Scan, At, disk
<1>3. SameCounts
  BY <1>2, Unchanged
<1>4. ASSUME NEW b, NEW s, NEW i,
             Return(p, "find", [NotFound(me) EXCEPT !.bh = b, !.slot = s, !.ref = i])
      PROVE  Kept(p)
  <2>1. Alike([NotFound(me) EXCEPT !.bh = b, !.slot = s, !.ref = i], me)
    BY <1>1, AlikeFound
  <2>. QED
    BY <1>1, <1>2, <1>3, <1>4, <2>1, QuietReturn DEF Alike
<1>5. ASSUME NEW n, Goto(p, "bmap", [me EXCEPT !.at = n, !.blk = 0]) PROVE Kept(p)
  <2>1. Alike([me EXCEPT !.at = n, !.blk = 0], me)
    BY <1>1, Alike2 DEF Free, Fields
  <2>. QED
    BY <1>1, <1>2, <1>3, <1>5, <2>1, QuietGoto DEF Alike
<1>6. CASE Return(p, "find", NotFound(me))
  BY <1>1, <1>2, <1>3, <1>6, AlikeFound, QuietReturn DEF Alike
<1>. QED
  BY <1>1, <1>4, <1>5, <1>6 DEF Scan

LEMMA NextToScanKeeps ==
  ASSUME IInv, NEW p \in Procs, NextToScan(p)
  PROVE  Kept(p)
<1>1. PICK me, open : Here(p, me, open)
  BY LocalIs
<1>2. me.pc = "bmap" /\ file' = file /\ UNCHANGED <<imap, inode>>
  BY <1>1 DEF NextToScan, At, disk
<1>3. SameCounts
  BY <1>2, Unchanged
<1>4. \A v : Alike([me EXCEPT !.blk = v], me) /\ Alike([me EXCEPT !.at = v], me)
  BY <1>1, Alike1 DEF Free, Fields
<1>5. ASSUME NEW v, Goto(p, "scan", [me EXCEPT !.blk = v]) PROVE Kept(p)
  BY <1>1, <1>2, <1>3, <1>4, <1>5, QuietGoto DEF Alike
<1>6. ASSUME NEW v, Goto(p, "bmap", [me EXCEPT !.at = v]) PROVE Kept(p)
  BY <1>1, <1>2, <1>3, <1>4, <1>6, QuietGoto DEF Alike
<1>7. CASE Return(p, "find", NotFound(me))
  BY <1>1, <1>2, <1>3, <1>7, AlikeFound, QuietReturn DEF Alike
<1>. QED
  BY <1>1, <1>5, <1>6, <1>7 DEF NextToScan

LEMMA AddEntryKeeps ==
  ASSUME IInv, NEW p \in Procs, AddEntry(p)
  PROVE  Kept(p)
<1>1. PICK me, open : Here(p, me, open)
  BY LocalIs
<1>2. /\ me.pc = "add" /\ file' = file /\ UNCHANGED <<imap, inode>>
      /\ \E b : Goto(p, "slot", [me EXCEPT !.at = 0, !.blk = b])
  BY <1>1 DEF AddEntry, At, disk
<1>3. SameCounts
  BY <1>2, Unchanged
<1>4. PICK b : Goto(p, "slot", [me EXCEPT !.at = 0, !.blk = b])
  BY <1>2
<1>5. Alike([me EXCEPT !.at = 0, !.blk = b], me)
  BY <1>1, Alike2 DEF Free, Fields
<1>. QED
  BY <1>1, <1>2, <1>3, <1>4, <1>5, QuietGoto DEF Alike, Acting

LEMMA SlotKeeps ==
  ASSUME IInv, NEW p \in Procs, Slot(p)
  PROVE  Kept(p)
<1>1. PICK me, open : Here(p, me, open)
  BY LocalIs
<1>2. me.pc = "slot" /\ file' = file /\ imap' = imap
  BY <1>1 DEF Slot, At
<1>3. CASE Goto(p, "added", NotFound(me)) /\ UNCHANGED inode
  <2>1. SameCounts
    BY <1>2, <1>3, Unchanged
  <2>. QED
    BY <1>1, <1>2, <1>3, <2>1, AlikeFound, QuietGoto DEF Alike, Acting
<1>4. ASSUME NEW d, NEW k, NEW n, UNCHANGED inode,
             Call(p, "create_block", "slot", [me EXCEPT !.blk = 0, !.at = k, !.f = d, !.n = n])
      PROVE  Kept(p)
  <2>1. Alike([me EXCEPT !.blk = 0, !.at = k, !.f = d, !.n = n], me)
    BY <1>1 DEF Alike, SameRefs, Fields
  <2>2. SameCounts
    BY <1>2, <1>4, Unchanged
  <2>. QED
    BY <1>1, <1>2, <1>4, <2>1, <2>2, QuietCall DEF Alike
<1>5. ASSUME NEW b, NEW s, Goto(p, "added", [NotFound(me) EXCEPT !.bh = b, !.slot = s]),
             \/ inode' = [inode EXCEPT ![me.dir].size = s + 1]
             \/ UNCHANGED inode
      PROVE  Kept(p)
  <2>1. SameCounts
    BY <1>2, <1>5, Unchanged, SizeSet
  <2>2. Alike([NotFound(me) EXCEPT !.bh = b, !.slot = s], me)
    BY <1>1, AlikeFound
  <2>. QED
    BY <1>1, <1>2, <1>5, <2>1, <2>2, QuietGoto DEF Alike, Acting
<1>. QED
  BY <1>1, <1>3, <1>4, <1>5 DEF Slot

LEMMA ResolvedKeeps ==
  ASSUME IInv, NEW p \in Procs, Resolved(p)
  PROVE  Kept(p)
<1>1. PICK me, open : Here(p, me, open)
  BY LocalIs
<1>2. me.pc = "resolved" /\ file' = file /\ UNCHANGED <<imap, inode>>
  BY <1>1 DEF Resolved, At, disk
<1>3. SameCounts /\ Calm(me) /\ Alike(me, me)
  BY <1>1, <1>2, Unchanged, Alike0 DEF Calm
<1>4. CASE Exit(p, me.dir, me.ino, 0)
  BY <1>1, <1>2, <1>3, <1>4, LeaveKeeps
<1>5. CASE Call(p, "find", "old", me) /\ me.op = "link" /\ me.ino = 0
  BY <1>1, <1>2, <1>3, <1>5, QuietCall DEF Alike
<1>6. CASE Call(p, "find", "looked", me)
  BY <1>1, <1>2, <1>3, <1>6, QuietCall DEF Alike
<1>. QED
  BY <1>1, <1>4, <1>5, <1>6 DEF Resolved

LEMMA OldKeeps ==
  ASSUME IInv, NEW p \in Procs, Old(p)
  PROVE  Kept(p)
<1>1. PICK me, open : Here(p, me, open)
  BY LocalIs
<1>2. me.pc = "old" /\ file' = file /\ UNCHANGED <<imap, inode>>
  BY <1>1 DEF Old, At, disk
<1>3. SameCounts /\ Calm(me)
  BY <1>2, Unchanged DEF Calm
<1>4. CASE Exit(p, me.dir, me.ino, 0)
  BY <1>1, <1>2, <1>3, <1>4, LeaveKeeps
<1>5. CASE PutDir(p, "iget", [me EXCEPT !.back["iget"] = "oldinode"])
  <2>1. PICK x : x = [me EXCEPT !.back["iget"] = "oldinode"]
    OBVIOUS
  <2>2. SameRefs(x, me) /\ x.back = [me.back EXCEPT !["iget"] = "oldinode"]
    BY <1>1, <2>1 DEF SameRefs, Fields
  <2>. QED
    BY <1>1, <1>2, <1>3, <1>5, <2>1, <2>2, PutDirKeeps
<1>. QED
  BY <1>1, <1>4, <1>5 DEF Old

LEMMA OldInodeKeeps ==
  ASSUME IInv, NEW p \in Procs, OldInode(p)
  PROVE  Kept(p)
<1>1. PICK me, open : Here(p, me, open)
  BY LocalIs
<1>2. me.pc = "oldinode" /\ file' = file /\ imap' = imap
  BY <1>1 DEF OldInode, At, disk
<1>3. CASE Exit(p, me.dir, me.ino, 0) /\ UNCHANGED inode
  <2>1. SameCounts /\ Calm(me)
    BY <1>2, <1>3, Unchanged DEF Calm
  <2>. QED
    BY <1>1, <1>2, <1>3, <2>1, LeaveKeeps
<1>4. CASE /\ inode' = [inode EXCEPT ![Root].count = @ + 1]
           /\ Goto(p, "walk", [me EXCEPT !.dir = Root, !.path = me.new, !.new = <<>>])
  <2>1. PICK x : x = [me EXCEPT !.dir = Root, !.path = me.new, !.new = <<>>]
    OBVIOUS
  <2>2. /\ DOMAIN x = Fields /\ x.back = me.back /\ x.op = me.op /\ x.dir = Root
        /\ x.ino = me.ino /\ x.put = me.put /\ x.then = me.then
    BY <1>1, <2>1 DEF Fields
  <2>3. PICK y : y = loc'[p]
    OBVIOUS
  <2>4. Becomes(y, x, "walk") /\ DOMAIN loc' = Procs /\ \A q \in Procs \ {p} : loc'[q] = loc[q]
    BY <1>4, <2>1, <2>2, <2>3, GotoGives
  <2>5. /\ DOMAIN y = Fields /\ y.back = me.back /\ y.op = me.op /\ y.dir = Root
        /\ y.ino = me.ino /\ y.put = me.put /\ y.then = me.then /\ y.pc = "walk"
    BY <2>2, <2>4 DEF Becomes, SameRefs
  <2>6. me.dir = 0 /\ BackInv(y)
    BY <1>1, <1>2, <2>5 DEF Local, InCall, BackInv, HoldsInv, Due
  <2>7. HoldsInv(y, open)
    BY <1>1, <1>2, <2>5 DEF Local, InCall, BackInv, HoldsInv, Due
  <2>8. InCall(y, open)
    BY <1>1, <2>5, <2>6, <2>7, RootIn DEF Local, InCall, Shaped, MaybeInode
  <2>9. \A k \in Inodes : Times(k, y, open) = Times(k, me, open) + Is(Root, k)
    BY <2>5, <2>6, RootIn DEF Times, Is
  <2>10. Fetched(Root)
    BY <1>2, <1>4, RootLive DEF Fetched
  <2>. QED
    BY <1>1, <1>2, <2>3, <2>4, <2>8, <2>9, <2>10, GainKeeps
<1>. QED
  BY <1>1, <1>3, <1>4 DEF OldInode

LEMMA LookedKeeps ==
  ASSUME IInv, NEW p \in Procs, Looked(p)
  PROVE  Kept(p)
<1>1. PICK me, open : Here(p, me, open)
  BY LocalIs
<1>2. me.pc = "looked" /\ file' = file /\ UNCHANGED <<imap, inode>>
  BY <1>1 DEF Looked, At, disk
<1>3. SameCounts /\ Calm(me) /\ Alike(me, me)
  BY <1>1, <1>2, Unchanged, Alike0 DEF Calm
<1>4. CASE me.op # "link" /\ Goto(p, "new_inode", me)
  BY <1>1, <1>2, <1>3, <1>4, QuietGoto DEF Alike
<1>5. CASE Goto(p, "add", me)
  BY <1>1, <1>2, <1>3, <1>5, QuietGoto DEF Alike, Acting
<1>6. CASE me.op = "trunc" /\ PutDir(p, "iget", [me EXCEPT !.back["iget"] = "opened"])
  <2>1. PICK x : x = [me EXCEPT !.back["iget"] = "opened"]
    OBVIOUS
  <2>2. SameRefs(x, me) /\ x.back = [me.back EXCEPT !["iget"] = "opened"]
    BY <1>1, <2>1 DEF SameRefs, Fields
  <2>. QED
    BY <1>1, <1>2, <1>3, <1>6, <2>1, <2>2, PutDirKeeps
<1>7. CASE me.op \in {"unlink", "rmdir"} /\ Call(p, "iget", me.op, me)
  BY <1>1, <1>2, <1>3, <1>7, QuietCall DEF Alike
<1>8. CASE Exit(p, me.dir, me.ino, 0)
  BY <1>1, <1>2, <1>3, <1>8, LeaveKeeps
<1>. QED
  BY <1>1, <1>4, <1>5, <1>6, <1>7, <1>8 DEF Looked

LEMMA MadeKeeps ==
  ASSUME IInv, NEW p \in Procs, Made(p)
  PROVE  Kept(p)
<1>1. PICK me, open : Here(p, me, open)
  BY LocalIs
<1>2. me.pc = "made" /\ file' = file /\ imap' = imap
  BY <1>1 DEF Made, At, disk
<1>3. Calm(me) /\ Alike(me, me)
  BY <1>1, <1>2, Alike0 DEF Calm
<1>4. CASE me.ino = 0 /\ Exit(p, me.dir, 0, 0) /\ UNCHANGED inode
  <2>1. SameCounts
    BY <1>2, <1>4, Unchanged
  <2>. QED
    BY <1>1, <1>2, <1>3, <1>4, <2>1, LeaveKeeps
<1>5. CASE inode' = [inode EXCEPT ![me.ino].size = 2] /\ Call(p, "new_block", "block", me)
  <2>1. SameCounts
    BY <1>2, <1>5, SizeSet
  <2>. QED
    BY <1>1, <1>2, <1>3, <1>5, <2>1, QuietCall DEF Alike
<1>6. CASE inode' = [inode EXCEPT ![me.ino].mode = "reg"] /\ Goto(p, "add", me)
  <2>1. SameCounts
    BY <1>2, <1>6 DEF IInv, InodesShaped, InodeFields, SameCounts
  <2>. QED
    BY <1>1, <1>2, <1>3, <1>6, <2>1, QuietGoto DEF Alike, Acting
<1>. QED
  BY <1>1, <1>4, <1>5, <1>6 DEF Made

LEMMA MkdirBlockKeeps ==
  ASSUME IInv, NEW p \in Procs, MkdirBlock(p)
  PROVE  Kept(p)
<1>1. PICK me, open : Here(p, me, open)
  BY LocalIs
<1>2. me.pc = "block" /\ file' = file /\ imap' = imap
  BY <1>1 DEF MkdirBlock, At, disk
<1>3. Calm(me)
  BY <1>2 DEF Calm
<1>4. CASE inode' = [inode EXCEPT ![me.ino].nlinks = @ - 1] /\ Exit(p, me.dir, me.ino, 0)
  <2>1. SameCounts
    BY <1>2, <1>4, LinksSet
  <2>. QED
    BY <1>1, <1>2, <1>3, <1>4, <2>1, LeaveKeeps
<1>5. CASE /\ inode' = [inode EXCEPT ![me.ino].zone[0] = me.got]
           /\ Goto(p, "dots", [me EXCEPT !.blk = me.got])
  <2>1. SameCounts
    BY <1>2, <1>5, ZoneSet
  <2>2. Alike([me EXCEPT !.blk = me.got], me)
    BY <1>1, Alike1 DEF Free, Fields
  <2>. QED
    BY <1>1, <1>2, <1>5, <2>1, <2>2, QuietGoto DEF Alike, Acting
<1>. QED
  BY <1>1, <1>4, <1>5 DEF MkdirBlock

LEMMA MkdirDotsKeeps ==
  ASSUME IInv, NEW p \in Procs, MkdirDots(p)
  PROVE  Kept(p)
<1>1. PICK me, open : Here(p, me, open)
  BY LocalIs
<1>2. /\ me.pc = "dots" /\ file' = file /\ imap' = imap
      /\ inode' = [inode EXCEPT ![me.ino].nlinks = 2, ![me.ino].mode = "dir"]
      /\ Goto(p, "add", [me EXCEPT !.blk = 0])
  BY <1>1 DEF MkdirDots, At
<1>3. SameCounts
  BY <1>2 DEF IInv, InodesShaped, InodeFields, SameCounts
<1>4. Alike([me EXCEPT !.blk = 0], me)
  BY <1>1, Alike1 DEF Free, Fields
<1>. QED
  BY <1>1, <1>2, <1>3, <1>4, QuietGoto DEF Alike, Acting

LEMMA AddedKeeps ==
  ASSUME IInv, NEW p \in Procs, Added(p)
  PROVE  Kept(p)
<1>1. PICK me, open : Here(p, me, open)
  BY LocalIs
<1>2. me.pc = "added" /\ imap' = imap
  BY <1>1 DEF Added, At
<1>3. Calm(me) /\ Alike(me, me)
  BY <1>1, <1>2, Alike0 DEF Calm
<1>4. CASE me.op = "create" /\ file' = [file EXCEPT ![p] = me.ino] /\ Exit(p, me.dir, 0, 0)
           /\ UNCHANGED inode
  <2>1. SameCounts
    BY <1>2, <1>4, Unchanged
  <2>2. DOMAIN file' = Procs /\ file'[p] = me.ino /\ \A q \in Procs \ {p} : file'[q] = file[q]
    BY <1>4 DEF IInv
  <2>3. /\ me.put = 0 /\ me.then = 0 /\ open = 0
        /\ me.dir \in MaybeInode /\ me.ino \in MaybeInode /\ 0 \in MaybeInode
    BY <1>1, <1>2, <1>3, <1>4, NothingToPut DEF Local, InCall, HoldsInv, MaybeInode
  <2>4. \A k \in Inodes : Is(me.dir, k) + Is(0, k) + Is(me.ino, k) = Times(k, me, open)
    BY <2>3, RootIn DEF Times, Is
  <2>. QED
    BY <1>1, <1>4, <2>1, <2>2, <2>3, <2>4, ExitKeeps
<1>5. CASE /\ \/ UNCHANGED inode
              \/ inode' = [inode EXCEPT ![me.dir].nlinks = @ + 1]
           /\ Exit(p, me.dir, me.ino, me.bh) /\ UNCHANGED file
  <2>1. SameCounts
    BY <1>2, <1>5, Unchanged, LinksSet
  <2>. QED
    BY <1>1, <1>3, <1>5, <2>1, LeaveKeeps
<1>6. CASE PutDir(p, "relink", me) /\ UNCHANGED <<inode, file>>
  <2>1. SameCounts
    BY <1>2, <1>6, Unchanged
  <2>. QED
    BY <1>1, <1>2, <1>3, <1>6, <2>1, PutDirKeeps DEF Alike
<1>. QED
  BY <1>1, <1>4, <1>5, <1>6 DEF Added

LEMMA NotAddedKeeps ==
  ASSUME IInv, NEW p \in Procs, NotAdded(p)
  PROVE  Kept(p)
<1>1. PICK me, open : Here(p, me, open)
  BY LocalIs
<1>2. me.pc = "added" /\ file' = file /\ imap' = imap
  BY <1>1 DEF NotAdded, At, disk
<1>3. Calm(me) /\ Alike(me, me)
  BY <1>1, <1>2, Alike0 DEF Calm
<1>4. CASE /\ \/ UNCHANGED inode
              \/ inode' = [inode EXCEPT ![me.ino].nlinks = @ - 1]
           /\ Exit(p, me.dir, me.ino, 0) \/ Exit(p, me.ino, me.dir, 0)
  <2>1. SameCounts
    BY <1>2, <1>4, Unchanged, LinksSet
  <2>. QED
    BY <1>1, <1>2, <1>3, <1>4, <2>1, LeaveKeeps
<1>5. CASE PutDir(p, "undo", me) /\ UNCHANGED inode
  <2>1. SameCounts
    BY <1>2, <1>5, Unchanged
  <2>. QED
    BY <1>1, <1>2, <1>3, <1>5, <2>1, PutDirKeeps DEF Alike
<1>. QED
  BY <1>1, <1>4, <1>5 DEF NotAdded

LEMMA UndoKeeps ==
  ASSUME IInv, NEW p \in Procs, Undo(p)
  PROVE  Kept(p)
<1>1. PICK me, open : Here(p, me, open)
  BY LocalIs
<1>2. me.pc = "undo" /\ file' = file
  BY <1>1 DEF Undo, At
<1>3. Calm(me) /\ me.dir = 0
  BY <1>1, <1>2 DEF Calm, Local, InCall, HoldsInv, Due
<1>4. ASSUME inode' = [inode EXCEPT ![me.ino].nlinks = 0], Exit(p, me.ino, 0, 0), imap' = imap
      PROVE  Kept(p)
  <2>1. SameCounts
    BY <1>4, LinksSet
  <2>. QED
    BY <1>1, <1>2, <1>3, <1>4, <2>1, LeaveKeeps
<1>5. ASSUME NEW b, free_block(p, b, inode' = [inode EXCEPT ![me.ino].nlinks = 0]
                                     /\ Exit(p, me.ino, 0, 0))
      PROVE  Kept(p)
  BY <1>2, <1>4, <1>5, free_blockKeeps
<1>6. CASE /\ inode' = [inode EXCEPT ![me.ino].nlinks = 0] /\ Exit(p, me.ino, 0, 0)
           /\ UNCHANGED disk
  BY <1>4, <1>6 DEF disk
<1>. QED
  BY <1>1, <1>5, <1>6 DEF Undo

LEMMA RelinkKeeps ==
  ASSUME IInv, NEW p \in Procs, Relink(p)
  PROVE  Kept(p)
<1>1. PICK me, open : Here(p, me, open)
  BY LocalIs
<1>2. /\ me.pc = "relink" /\ file' = file /\ imap' = imap /\ Exit(p, me.ino, 0, 0)
      /\ inode' = [inode EXCEPT ![me.ino].nlinks = @ + 1]
  BY <1>1 DEF Relink, At, disk
<1>3. Calm(me) /\ me.dir = 0
  BY <1>1, <1>2 DEF Calm, Local, InCall, HoldsInv, Due
<1>4. SameCounts
  BY <1>2, LinksSet
<1>. QED
  BY <1>1, <1>2, <1>3, <1>4, LeaveKeeps

LEMMA UnlinkKeeps ==
  ASSUME IInv, NEW p \in Procs, Unlink(p)
  PROVE  Kept(p)
<1>1. PICK me, open : Here(p, me, open)
  BY LocalIs
<1>2. me.pc = "unlink" /\ file' = file /\ imap' = imap
  BY <1>1 DEF Unlink, At
<1>3. Calm(me)
  BY <1>2 DEF Calm
<1>4. CASE Exit(p, me.ino, me.dir, me.bh) /\ UNCHANGED inode
  <2>1. SameCounts
    BY <1>2, <1>4, Unchanged
  <2>. QED
    BY <1>1, <1>2, <1>3, <1>4, <2>1, LeaveKeeps
<1>5. CASE /\ inode' = [inode EXCEPT ![me.ino].nlinks = IF @ = 0 THEN 1 ELSE @]
           /\ Goto(p, "unlinked", me)
  <2>1. SameCounts /\ Alike(me, me)
    BY <1>1, <1>2, <1>5, LinksSet, Alike0
  <2>. QED
    BY <1>1, <1>2, <1>5, <2>1, QuietGoto DEF Alike, Acting
<1>. QED
  BY <1>1, <1>4, <1>5 DEF Unlink

LEMMA UnlinkedKeeps ==
  ASSUME IInv, NEW p \in Procs, Unlinked(p)
  PROVE  Kept(p)
<1>1. PICK me, open : Here(p, me, open)
  BY LocalIs
<1>2. /\ me.pc = "unlinked" /\ file' = file /\ imap' = imap /\ Exit(p, me.ino, me.dir, 0)
      /\ inode' = [inode EXCEPT ![me.ino].nlinks = @ - 1]
  BY <1>1 DEF Unlinked, At, disk
<1>3. Calm(me)
  BY <1>2 DEF Calm
<1>4. SameCounts
  BY <1>2, LinksSet
<1>. QED
  BY <1>1, <1>2, <1>3, <1>4, LeaveKeeps

LEMMA RmdirKeeps ==
  ASSUME IInv, NEW p \in Procs, Rmdir(p)
  PROVE  Kept(p)
<1>1. PICK me, open : Here(p, me, open)
  BY LocalIs
<1>2. me.pc = "rmdir" /\ file' = file /\ UNCHANGED <<imap, inode>>
  BY <1>1 DEF Rmdir, At, disk
<1>3. SameCounts /\ Calm(me)
  BY <1>2, Unchanged DEF Calm
<1>4. CASE Exit(p, me.dir, me.ino, me.bh) \/ Exit(p, me.ino, me.dir, me.bh)
  BY <1>1, <1>2, <1>3, <1>4, LeaveKeeps
<1>5. ASSUME NEW b, Goto(p, "empty_dir", [me EXCEPT !.blk = b, !.at = 2]) PROVE Kept(p)
  <2>1. Alike([me EXCEPT !.blk = b, !.at = 2], me)
    BY <1>1, Alike2 DEF Free, Fields
  <2>. QED
    BY <1>1, <1>2, <1>3, <1>5, <2>1, QuietGoto DEF Alike, Acting
<1>. QED
  BY <1>1, <1>4, <1>5 DEF Rmdir

LEMMA EmptyDirKeeps ==
  ASSUME IInv, NEW p \in Procs, EmptyDir(p)
  PROVE  Kept(p)
<1>1. PICK me, open : Here(p, me, open)
  BY LocalIs
<1>2. me.pc = "empty_dir" /\ file' = file /\ imap' = imap
  BY <1>1 DEF EmptyDir, At
<1>3. Calm(me)
  BY <1>2 DEF Calm
<1>4. CASE Exit(p, me.ino, me.dir, me.bh) /\ UNCHANGED inode
  <2>1. SameCounts
    BY <1>2, <1>4, Unchanged
  <2>. QED
    BY <1>1, <1>2, <1>3, <1>4, <2>1, LeaveKeeps
<1>5. ASSUME NEW b, NEW n, Goto(p, "empty_dir", [me EXCEPT !.blk = b, !.at = n]), UNCHANGED inode
      PROVE  Kept(p)
  <2>1. SameCounts
    BY <1>2, <1>5, Unchanged
  <2>2. Alike([me EXCEPT !.blk = b, !.at = n], me)
    BY <1>1, Alike2 DEF Free, Fields
  <2>. QED
    BY <1>1, <1>2, <1>5, <2>1, <2>2, QuietGoto DEF Alike, Acting
<1>6. CASE UNCHANGED inode /\ Goto(p, "removed", [me EXCEPT !.blk = 0])
  <2>1. SameCounts
    BY <1>2, <1>6, Unchanged
  <2>2. Alike([me EXCEPT !.blk = 0], me)
    BY <1>1, Alike1 DEF Free, Fields
  <2>. QED
    BY <1>1, <1>2, <1>6, <2>1, <2>2, QuietGoto DEF Alike, Acting
<1>. QED
  BY <1>1, <1>4, <1>5, <1>6 DEF EmptyDir

LEMMA RemovedKeeps ==
  ASSUME IInv, NEW p \in Procs, Removed(p)
  PROVE  Kept(p)
<1>1. PICK me, open : Here(p, me, open)
  BY LocalIs
<1>2. /\ me.pc = "removed" /\ file' = file /\ imap' = imap /\ Exit(p, me.dir, me.ino, 0)
      /\ inode' = [inode EXCEPT ![me.ino].nlinks = 0, ![me.dir].nlinks = @ - 1]
  BY <1>1 DEF Removed, At, disk
<1>3. Calm(me)
  BY <1>2 DEF Calm
<1>4. SameCounts
  BY <1>2 DEF IInv, InodesShaped, InodeFields, SameCounts
<1>. QED
  BY <1>1, <1>2, <1>3, <1>4, LeaveKeeps

LEMMA OpenedKeeps ==
  ASSUME IInv, NEW p \in Procs, Opened(p)
  PROVE  Kept(p)
<1>1. PICK me, open : Here(p, me, open)
  BY LocalIs
<1>2. me.pc = "opened" /\ file' = file /\ UNCHANGED <<imap, inode>>
  BY <1>1 DEF Opened, At, disk
<1>3. SameCounts /\ Calm(me) /\ me.dir = 0
  BY <1>1, <1>2, Unchanged DEF Calm, Local, InCall, HoldsInv, Due
<1>4. CASE Exit(p, me.ino, 0, 0)
  BY <1>1, <1>2, <1>3, <1>4, LeaveKeeps
<1>5. CASE Call(p, "truncate", "opened_fd", [me EXCEPT !.f = me.ino, !.at = 0])
  <2>1. Alike([me EXCEPT !.f = me.ino, !.at = 0], me)
    BY <1>1, Alike2 DEF Free, Fields
  <2>. QED
    BY <1>1, <1>2, <1>3, <1>5, <2>1, QuietCall DEF Alike
<1>. QED
  BY <1>1, <1>4, <1>5 DEF Opened

LEMMA OpenedFdKeeps ==
  ASSUME IInv, NEW p \in Procs, OpenedFd(p)
  PROVE  Kept(p)
<1>1. PICK me, open : Here(p, me, open)
  BY LocalIs
<1>2. /\ me.pc = "opened_fd" /\ UNCHANGED <<imap, inode>>
      /\ file' = [file EXCEPT ![p] = me.ino] /\ loc' = [loc EXCEPT ![p] = Idle]
  BY <1>1 DEF OpenedFd, At, disk
<1>3. SameCounts
  BY <1>2, Unchanged
<1>4. /\ me.put = 0 /\ me.then = 0 /\ me.dir = 0 /\ open = 0 /\ me.ino \in MaybeInode
  BY <1>1, <1>2, NothingToPut DEF Calm, Local, InCall, HoldsInv, Due
<1>5. /\ Others(p) /\ file'[p] = me.ino /\ loc'[p] = Idle
  BY <1>2 DEF Others, IInv
<1>6. InCall(Idle, me.ino)
  BY <1>4, IdleInCall
<1>7. Balanced(p)
  <2>1. Idle.dir = 0 /\ Idle.ino = 0 /\ Idle.put = 0 /\ Idle.then = 0
    BY DEF Idle
  <2>2. \A k \in Inodes : Times(k, Idle, me.ino) = Times(k, me, open)
    BY <1>4, <2>1 DEF Times, Is
  <2>3. \A k \in Inodes : Times(k, me, open) \in Int /\ inode[k].count \in Int
    BY DEF Times, Is, IInv, InodesShaped
  <2>. QED
    BY <1>1, <1>3, <1>5, <2>2, <2>3 DEF Balanced, SameCounts
<1>. QED
  BY <1>3, <1>5, <1>6, <1>7 DEF Kept, SameCounts, IInv

(***************************************************************************)
(* Every step.                                                             *)
(***************************************************************************)
LEMMA AllocStepKeeps ==
  ASSUME IInv, NEW p \in Procs, AllocStep(p)
  PROVE  Kept(p)
BY NewBlockKeeps, GotBlockKeeps, CreateBlockKeeps, DirectZoneKeeps, IndirectZoneKeeps, LeafKeeps,
   LinkLeafKeeps, TruncateKeeps, FreeIndKeeps, FreeIndBlockKeeps, IputKeeps, FreeInodeKeeps,
   NewInodeKeeps DEF AllocStep

LEMMA StepKeeps ==
  ASSUME IInv, FollowsLive, NEW p \in Procs, Step(p)
  PROVE  Kept(p)
BY StartKeeps, WalkKeeps, StepDownKeeps, IgetKeeps, FindKeeps, ScanKeeps, NextToScanKeeps,
   AddEntryKeeps, SlotKeeps, ResolvedKeeps, OldKeeps, OldInodeKeeps, LookedKeeps, MadeKeeps,
   MkdirBlockKeeps, MkdirDotsKeeps, AddedKeeps, NotAddedKeeps, UndoKeeps, RelinkKeeps, UnlinkKeeps,
   UnlinkedKeeps, RmdirKeeps, EmptyDirKeeps, RemovedKeeps, OpenedKeeps, OpenedFdKeeps, AllocStepKeeps DEF Step

LEMMA NextKeeps ==
  ASSUME IInv, FollowsLive, [Next]_<<vars, calls>>
  PROVE  IInv'
<1>1. CASE Next
  BY <1>1, StepKeeps, Keeps DEF Next
<1>2. CASE UNCHANGED <<vars, calls>>
  BY <1>2 DEF vars, IInv, InodesShaped, CountsMatch
<1>. QED
  BY <1>1, <1>2

LEMMA InitKeeps ==
  ASSUME Init
  PROVE  IInv
<1>1. DOMAIN loc = Procs /\ DOMAIN file = Procs /\ \A p \in Procs : file[p] = 0 /\ loc[p] = Idle
  BY DEF Init
<1>2. \A p \in Procs : InCall(loc[p], file[p])
  BY <1>1, IdleInCall DEF MaybeInode
<1>3. InodesShaped
  BY ImageAssumption DEF Init, InodesShaped, InodeFields
<1>4. /\ imap \subseteq Inodes /\ \A i \in Inodes \ imap : inode[i].count = 0
      /\ \A i \in Inodes : inode[i].count = IF i = Root THEN Pins ELSE 0
  BY ImageAssumption DEF Init
<1>5. CountsMatch
  <2>. SUFFICES ASSUME NEW i \in Inodes
                PROVE  inode[i].count = Cardinality({p \in Procs : file[p] = i})
                             + Cardinality({p \in Procs : loc[p].dir = i})
                             + Cardinality({p \in Procs : loc[p].ino = i})
                             + Cardinality({p \in Procs : loc[p].put = i})
                             + Cardinality({p \in Procs : loc[p].then = i})
                             + (IF i = Root THEN Pins ELSE 0)
    BY DEF CountsMatch
  <2>1. i # 0
    BY RootIn
  <2>2. Idle.dir = 0 /\ Idle.ino = 0 /\ Idle.put = 0 /\ Idle.then = 0
    BY DEF Idle
  <2>3. Cardinality({p \in Procs : file[p] = i}) = 0
    <3>1. {p \in Procs : file[p] = i} = {}
      BY <1>1, <2>1
    <3>. QED
      BY <3>1, FS_EmptySet
  <2>4. Cardinality({p \in Procs : loc[p].dir = i}) = 0
    <3>1. {p \in Procs : loc[p].dir = i} = {}
      BY <1>1, <2>1, <2>2
    <3>. QED
      BY <3>1, FS_EmptySet
  <2>5. Cardinality({p \in Procs : loc[p].ino = i}) = 0
    <3>1. {p \in Procs : loc[p].ino = i} = {}
      BY <1>1, <2>1, <2>2
    <3>. QED
      BY <3>1, FS_EmptySet
  <2>6. Cardinality({p \in Procs : loc[p].put = i}) = 0
    <3>1. {p \in Procs : loc[p].put = i} = {}
      BY <1>1, <2>1, <2>2
    <3>. QED
      BY <3>1, FS_EmptySet
  <2>7. Cardinality({p \in Procs : loc[p].then = i}) = 0
    <3>1. {p \in Procs : loc[p].then = i} = {}
      BY <1>1, <2>1, <2>2
    <3>. QED
      BY <3>1, FS_EmptySet
  <2>. QED
    BY <1>4, <2>3, <2>4, <2>5, <2>6, <2>7 DEF Pins
<1>. QED
  BY <1>1, <1>2, <1>3, <1>4, <1>5 DEF IInv

LEMMA Invariance == Spec /\ []FollowsLive => []IInv
<1>. USE InitKeeps, NextKeeps
<1>. QED
  BY PTL DEF Spec

(* i_count is the number of references held, whichever way each call       *)
(* leaves and wherever the others are, as long as no process fetches an    *)
(* inode that was freed after its entry was read.  (the iputs of namei.c)  *)
THEOREM CountsMatchCorrect == Spec /\ []FollowsLive => []CountsMatch
<1>1. IInv => CountsMatch
  BY DEF IInv
<1>. QED
  BY <1>1, Invariance, PTL

(* What a call puts back is counted and allocated: iput never meets a      *)
(* count of 0, nor takes a root away.  (iput, fs/inode.c)                  *)
PutsCounted ==
  \A p \in Procs :
    loc[p].pc = "iput" /\ loc[p].put # 0
      => /\ inode[loc[p].put].count > 0 /\ loc[p].put \in imap
         /\ loc[p].put = Root => inode[Root].count > Pins

THEOREM PutsCountedCorrect == Spec /\ []FollowsLive => []PutsCounted
<1>1. IInv => PutsCounted
  <2>. SUFFICES ASSUME IInv, NEW p \in Procs, loc[p].put # 0
                PROVE  /\ inode[loc[p].put].count > 0 /\ loc[p].put \in imap
                       /\ loc[p].put = Root => inode[Root].count > Pins
    BY DEF PutsCounted
  <2>1. PICK i : i = loc[p].put
    OBVIOUS
  <2>2. i \in Inodes /\ inode[i].count \in Int
    BY <2>1 DEF IInv, InCall, MaybeInode, InodesShaped
  <2>3. i \in imap
    BY <2>1, <2>2, FreeUnnamed
  <2>4. inode[i].count >= Times(i, loc[p], file[p]) + (IF i = Root THEN Pins ELSE 0)
    BY <2>2, Counted
  <2>5. Times(i, loc[p], file[p]) >= 1 /\ Times(i, loc[p], file[p]) \in Int
    BY <2>1 DEF Times, Is
  <2>6. inode[i].count > (IF i = Root THEN Pins ELSE 0)
    <3>. HIDE DEF Times
    <3>. QED
      BY <2>2, <2>4, <2>5 DEF Pins
  <2>. QED
    BY <2>1, <2>2, <2>3, <2>6 DEF Pins
<1>. QED
  BY <1>1, Invariance, PTL
====
