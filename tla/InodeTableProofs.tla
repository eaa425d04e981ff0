-------------------------- MODULE InodeTableProofs --------------------------
(***************************************************************************)
(* Theorems about InodeTable, for any number of places, processes, inodes  *)
(* and calls: i_count is the number of references, and a place nobody uses *)
(* is clean, unlocked and no pipe, so that get_empty_inode never sleeps.   *)
(* As long as inodes are freed alone, an inode has one place, what was     *)
(* written to it is not lost, its holders see it, and nothing panics; and  *)
(* they are freed alone if one process does all that removes inodes.       *)
(***************************************************************************)
EXTENDS InodeTable, FiniteSetTheorems, TLAPS

(***************************************************************************)
(* Lemmas about sets.                                                      *)
(***************************************************************************)
(* Sizes of finite sets.                                                   *)
LEMMA CardType ==
    ASSUME NEW S, IsFiniteSet(S)
    PROVE  Cardinality(S) \in Nat /\ (Cardinality(S) = 0 <=> S = {})
BY FS_CardinalityType, FS_EmptySet

LEMMA CardAdd ==
    ASSUME NEW S, NEW x, IsFiniteSet(S), x \notin S
    PROVE  IsFiniteSet(S \union {x}) /\ Cardinality(S \union {x}) = Cardinality(S) + 1
BY FS_AddElement

LEMMA CardRemove ==
    ASSUME NEW S, NEW x, IsFiniteSet(S), x \in S
    PROVE  IsFiniteSet(S \ {x}) /\ Cardinality(S \ {x}) = Cardinality(S) - 1
BY FS_RemoveElement

(* A set with one element in it counts at least one; if it counts exactly  *)
(* one, that is all there is in it.                                        *)
LEMMA CardOne ==
    ASSUME NEW S, IsFiniteSet(S), NEW x \in S
    PROVE  /\ Cardinality(S) >= 1
           /\ Cardinality(S) = 1 => S = {x}
<1>1. Cardinality(S) \in Nat /\ Cardinality(S) # 0
  BY CardType
<1>2. Cardinality(S) = 1 => \E y : S = {y}
  BY FS_Singleton
<1>. QED
  BY <1>1, <1>2

(* Two subsets of a finite set that differ at most in x.                   *)
In(x, S) == IF x \in S THEN 1 ELSE 0

LEMMA CardDiffer ==
    ASSUME NEW S, IsFiniteSet(S), NEW A \in SUBSET S, NEW B \in SUBSET S, NEW x \in S,
           \A y \in S : y # x => (y \in A <=> y \in B)
    PROVE  /\ Cardinality(A) \in Nat /\ Cardinality(B) \in Nat
           /\ Cardinality(B) = Cardinality(A) + In(x, B) - In(x, A)
<1>1. IsFiniteSet(A) /\ IsFiniteSet(B)
  BY FS_Subset
<1>2. Cardinality(A) \in Nat /\ Cardinality(B) \in Nat
  BY <1>1, CardType
<1>3. CASE x \in A /\ x \notin B
  <2>1. B = A \ {x}
    BY <1>3
  <2>. QED
    BY <1>1, <1>2, <1>3, <2>1, CardRemove DEF In
<1>4. CASE x \notin A /\ x \in B
  <2>1. B = A \union {x}
    BY <1>4
  <2>. QED
    BY <1>1, <1>2, <1>4, <2>1, CardAdd DEF In
<1>5. CASE x \in A <=> x \in B
  <2>1. B = A
    BY <1>5
  <2>. QED
    BY <1>2, <2>1 DEF In
<1>. QED
  BY <1>2, <1>3, <1>4, <1>5

(* Where each reference points to.                                         *)
At == [r \in References |-> Place(r)]
Count(P, i) == Cardinality({r \in References : P[r] = i})
Pin(k) == IF k \in Pinned THEN 1 ELSE 0

Ref(k, p) == [kind |-> k, by |-> p, fd |-> 0]
FileRef(p, f) == [kind |-> "file", by |-> p, fd |-> f]

(* A process that is putting an inode, has a place for one, or returns one. *)
AtPut(p) == pc[p] \in {"unlink", "sync_dev", "repeat", "truncate"}
            \/ (pc[p] \in {"write", "unlock"} /\ wback[p] \in {"sync_dev", "repeat"})
Putting(p) == pc[p] = "iput" \/ AtPut(p)
Taking(p) == pc[p] \in {"scan", "scan_wait", "new"}
Getting(p) == pc[p] \in {"read", "hit"} \/ (pc[p] = "unlock" /\ wback[p] = "hit")

(* What the locals of a process hold at each label.                        *)
LocalInv(p) == pc[p] # "panic" =>
  /\ put[p] # NULL <=> Putting(p)
  /\ empty[p] # NULL <=> Taking(p) \/ (Putting(p) /\ back[p] = "scan")
  /\ got[p] # NULL <=> Getting(p) \/ (Putting(p) /\ back[p] = "hit")
  /\ ~Putting(p) => back[p] = "idle"
  /\ pc[p] # "empty_wait" /\ wback[p] # "empty_wait"
  /\ pc[p] = "read" => wback[p] = "hit" /\ ino[p] = got[p]
  /\ pc[p] = "write" => wback[p] \in {"repeat", "sync", "sync_dev"}
  /\ pc[p] = "unlock" => wback[p] # "idle"
  /\ pc[p] \in {"write", "unlock"} /\ wback[p] # "repeat" => ino[p] # NULL
  /\ pc[p] = "scan_wait" => ino[p] # NULL
  /\ pc[p] \in {"scan", "scan_wait"} \/ back[p] = "scan" => want[p] \in Inos
  /\ pc[p] = "empty" => op[p] \in {"iget", "create", "pipe"}
  /\ pc[p] = "empty" /\ op[p] = "iget" => want[p] \in Inos

FilesFunction == file = [p \in Procs |-> file[p]]

CountInv == \A i \in Inodes : i_count[i] = Count(At, i) + Pin(i_ident[i])

(* What the places a process refers to are.                                *)
RefOK(p) ==
  /\ \A f \in Fds[p] : file[p][f] # NULL => i_pipe[file[p][f]] \/ i_ident[file[p][f]] # NoIno
  /\ empty[p] # NULL =>
       i_ident[empty[p]] = NoIno /\ i_count[empty[p]] = 1 /\ ~i_pipe[empty[p]]
  /\ got[p] # NULL => i_ident[got[p]] # NoIno
  /\ put[p] # NULL /\ AtPut(p) => i_ident[put[p]] # NoIno

(* The two inodes of a mount stay in the table.                            *)
PinInv ==
  \A k \in Pinned : used[k] /\ \E i \in Inodes : i_ident[i] = k

IInv ==
  /\ TypeOK /\ FilesFunction /\ (\A p \in Procs : LocalInv(p))
  /\ CountInv /\ (\A p \in Procs : RefOK(p)) /\ PinInv /\ UnusedIsClean

-----------------------------------------------------------------------------
(* References.                                                             *)

Kinds == {"empty", "got", "put"}

FileRefs == UNION {[kind : {"file"}, by : {p}, fd : Fds[p]] : p \in Procs}
CallRefs == [kind : Kinds, by : Procs, fd : {0}]
AllFds == UNION {Fds[p] : p \in Procs}

LEMMA RefsTwo == References = FileRefs \cup CallRefs
BY DEF References, FileRefs, CallRefs, Kinds

LEMMA RefsAre ==
  /\ \A k \in Kinds, p \in Procs : Ref(k, p) \in References
  /\ \A p \in Procs : \A f \in Fds[p] : FileRef(p, f) \in References
  /\ \A r \in References :
       /\ r.by \in Procs /\ r.kind \in Kinds \cup {"file"}
       /\ r.kind \in Kinds => r = Ref(r.kind, r.by)
       /\ r.kind = "file" => r.fd \in Fds[r.by] /\ r = FileRef(r.by, r.fd)
<1>1. ASSUME NEW k \in Kinds, NEW p \in Procs PROVE Ref(k, p) \in References
  <2>1. Ref(k, p) \in CallRefs
    BY DEF Ref, CallRefs
  <2>. QED
    BY <2>1, RefsTwo
<1>2. ASSUME NEW p \in Procs, NEW f \in Fds[p] PROVE FileRef(p, f) \in References
  <2>1. FileRef(p, f) \in [kind : {"file"}, by : {p}, fd : Fds[p]]
    BY DEF FileRef
  <2>2. FileRef(p, f) \in FileRefs
    BY <2>1 DEF FileRefs
  <2>. QED
    BY <2>2, RefsTwo
<1>3. ASSUME NEW r \in References
      PROVE  /\ r.by \in Procs /\ r.kind \in Kinds \cup {"file"}
             /\ r.kind \in Kinds => r = Ref(r.kind, r.by)
             /\ r.kind = "file" => r.fd \in Fds[r.by] /\ r = FileRef(r.by, r.fd)
  <2>1. CASE r \in CallRefs
    BY <2>1 DEF Kinds, Ref, CallRefs
  <2>2. CASE r \in FileRefs
    <3>1. PICK p \in Procs : r \in [kind : {"file"}, by : {p}, fd : Fds[p]]
      BY <2>2 DEF FileRefs
    <3>. QED
      BY <3>1 DEF Kinds, FileRef
  <2>. QED
    BY <2>1, <2>2, RefsTwo
<1>. QED
  BY <1>1, <1>2, <1>3

LEMMA RefsFinite == IsFiniteSet(References)
<1>. DEFINE Fs == AllFds \cup {0}
            Ks == {"empty", "got", "put", "file"}
            T == Ks \X (Procs \X Fs)
            g == [r \in References |-> <<r.kind, <<r.by, r.fd>>>>]
<1>1. IsFiniteSet(Ks)
  <2>1. IsFiniteSet({"empty"})
    BY FS_Singleton
  <2>2. IsFiniteSet({"empty"} \cup {"got"} \cup {"put"} \cup {"file"})
    BY <2>1, FS_AddElement
  <2>3. Ks = {"empty"} \cup {"got"} \cup {"put"} \cup {"file"}
    OBVIOUS
  <2>. QED
    BY <2>2, <2>3
<1>2. IsFiniteSet(Fs) /\ IsFiniteSet(Procs)
  <2>1. IsFiniteSet(Procs) /\ IsFiniteSet(AllFds)
    BY ConstantsAssumption DEF AllFds
  <2>2. IsFiniteSet(AllFds \cup {0})
    BY <2>1, FS_AddElement
  <2>. QED
    BY <2>1, <2>2
<1>3. IsFiniteSet(T)
  BY <1>1, <1>2, FS_Product
<1>4. \A r \in References : r.kind \in Ks /\ r.by \in Procs /\ r.fd \in Fs
  <2>1. ASSUME NEW r \in References PROVE r.kind \in Ks /\ r.by \in Procs /\ r.fd \in Fs
    <3>1. CASE r.kind \in Kinds
      <4>1. r.by \in Procs /\ r = Ref(r.kind, r.by)
        BY <3>1, RefsAre
      <4>2. r.fd = 0
        BY <4>1 DEF Ref
      <4>3. r.kind \in Ks
        BY <3>1 DEF Kinds
      <4>. QED
        BY <4>1, <4>2, <4>3
    <3>2. CASE r.kind = "file"
      <4>1. r.by \in Procs /\ r.fd \in Fds[r.by]
        BY <3>2, RefsAre
      <4>2. r.fd \in Fs
        BY <4>1 DEF AllFds
      <4>. QED
        BY <3>2, <4>1, <4>2
    <3>. QED
      BY <3>1, <3>2, RefsAre
  <2>. QED
    BY <2>1
<1>5. \A r, s \in References : r.kind = s.kind /\ r.by = s.by /\ r.fd = s.fd => r = s
  <2>1. ASSUME NEW r \in References PROVE r = [kind |-> r.kind, by |-> r.by, fd |-> r.fd]
    <3>1. CASE r.kind \in Kinds
      <4>1. r = Ref(r.kind, r.by)
        BY <3>1, RefsAre
      <4>2. r.fd = 0
        BY <4>1 DEF Ref
      <4>. QED
        BY <4>1, <4>2 DEF Ref
    <3>2. CASE r.kind = "file"
      BY <3>2, RefsAre DEF FileRef
    <3>. QED
      BY <3>1, <3>2, RefsAre
  <2>. QED
    BY <2>1
<1>6. g \in [References -> T]
  BY <1>4
<1>7. \A r, s \in References : g[r] = g[s] => r = s
  <2>1. ASSUME NEW r \in References, NEW s \in References, g[r] = g[s] PROVE r = s
    <3>1. <<r.kind, <<r.by, r.fd>>>> = <<s.kind, <<s.by, s.fd>>>>
      BY <2>1
    <3>2. r.kind = s.kind /\ <<r.by, r.fd>> = <<s.by, s.fd>>
      BY <3>1
    <3>3. r.by = s.by /\ r.fd = s.fd
      BY <3>2
    <3>. QED
      BY <1>5, <3>2, <3>3
  <2>. QED
    BY <2>1
<1>8. g \in Injection(References, T)
  <2>1. DOMAIN g = References
    OBVIOUS
  <2>. QED
    BY <1>6, <1>7, <2>1 DEF Injection, IsInjective
<1>. QED
  BY <1>3, <1>8, FS_Injection

(* A reference that moves from one place to another.                       *)
Is(x, i) == IF x = i THEN 1 ELSE 0
OnReferences(P) == P = [r \in References |-> P[r]]
Move(P, r, y) == [P EXCEPT ![r] = y]

LEMMA CountMove ==
  ASSUME NEW P, OnReferences(P), NEW r \in References, NEW y, NEW i
  PROVE  /\ Count(P, i) \in Nat /\ Count(Move(P, r, y), i) \in Nat
         /\ Count(Move(P, r, y), i) = Count(P, i) + Is(y, i) - Is(P[r], i)
<1>. DEFINE Q == [P EXCEPT ![r] = y]
            A == {s \in References : P[s] = i}
            B == {s \in References : Q[s] = i}
<1>1. \A s \in References : s # r => Q[s] = P[s]
  BY DEF OnReferences
<1>2. Q[r] = y
  BY DEF OnReferences
<1>. HIDE DEF Q
<1>3. A \in SUBSET References /\ B \in SUBSET References
  OBVIOUS
<1>4. \A s \in References : s # r => (s \in A <=> s \in B)
  BY <1>1
<1>5. In(r, B) = Is(y, i) /\ In(r, A) = Is(P[r], i)
  BY <1>2 DEF In, Is
<1>6. Count(P, i) = Cardinality(A) /\ Count(Q, i) = Cardinality(B)
  BY DEF Count
<1>. HIDE DEF A, B
<1>7. /\ Cardinality(A) \in Nat /\ Cardinality(B) \in Nat
      /\ Cardinality(B) = Cardinality(A) + In(r, B) - In(r, A)
  BY <1>3, <1>4, RefsFinite, CardDiffer
<1>. QED
  BY <1>5, <1>6, <1>7 DEF Q, Move

LEMMA AtValues ==
  /\ \A p \in Procs : /\ At[Ref("empty", p)] = empty[p]
                      /\ At[Ref("got", p)] = got[p]
                      /\ At[Ref("put", p)] = put[p]
                      /\ \A f \in Fds[p] : At[FileRef(p, f)] = file[p][f]
  /\ TypeOK => At \in [References -> Inodes \cup {NULL}]
<1>1. ASSUME NEW p \in Procs
      PROVE  /\ At[Ref("empty", p)] = empty[p]
             /\ At[Ref("got", p)] = got[p]
             /\ At[Ref("put", p)] = put[p]
  <2>1. /\ Ref("empty", p) \in References /\ Ref("got", p) \in References
        /\ Ref("put", p) \in References
    BY RefsAre DEF Kinds
  <2>. QED
    BY <2>1 DEF At, Place, Ref
<1>2. ASSUME NEW p \in Procs, NEW f \in Fds[p] PROVE At[FileRef(p, f)] = file[p][f]
  <2>1. FileRef(p, f) \in References
    BY RefsAre
  <2>. QED
    BY <2>1 DEF At, Place, FileRef
<1>3. ASSUME TypeOK, NEW r \in References PROVE Place(r) \in Inodes \cup {NULL}
  <2>1. CASE r.kind = "file"
    <3>1. r.by \in Procs /\ r.fd \in Fds[r.by]
      BY <2>1, RefsAre
    <3>2. file[r.by] \in [Fds[r.by] -> Inodes \cup {NULL}]
      BY <1>3, <3>1 DEF TypeOK
    <3>. QED
      BY <2>1, <3>1, <3>2 DEF Place
  <2>2. CASE r.kind \in Kinds
    <3>1. r.by \in Procs
      BY RefsAre
    <3>. QED
      BY <1>3, <2>2, <3>1 DEF TypeOK, Place, Kinds
  <2>. QED
    BY <2>1, <2>2, RefsAre
<1>. QED
  BY <1>1, <1>2, <1>3 DEF At

(* A place referred to is counted, and twice by two references, or by a    *)
(* reference and a mount.                                                  *)
LEMMA Counted ==
  ASSUME TypeOK, CountInv, NEW r \in References, At[r] # NULL
  PROVE  /\ At[r] \in Inodes
         /\ i_count[At[r]] >= 1
         /\ i_ident[At[r]] \in Pinned => i_count[At[r]] >= 2
         /\ \A s \in References : s # r /\ At[s] = At[r] => i_count[At[r]] >= 2
<1>. DEFINE i == At[r]
            S == {s \in References : At[s] = i}
<1>1. At \in [References -> Inodes \cup {NULL}]
  BY AtValues
<1>2. i \in Inodes
  BY <1>1
<1>3. i_count[i] = Count(At, i) + Pin(i_ident[i])
  BY <1>2 DEF CountInv
<1>4. Pin(i_ident[i]) \in {0, 1} /\ (i_ident[i] \in Pinned => Pin(i_ident[i]) = 1)
  BY DEF Pin
<1>5. Count(At, i) = Cardinality(S)
  BY DEF Count
<1>6. S \subseteq References /\ r \in S
  OBVIOUS
<1>7. IsFiniteSet(S)
  BY <1>6, RefsFinite, FS_Subset
<1>8. Cardinality(S) \in Nat /\ Cardinality(S) >= 1
  BY <1>6, <1>7, CardOne, CardType
<1>9. \A s \in References : s # r /\ At[s] = At[r] => Cardinality(S) >= 2
  <2>1. ASSUME NEW s \in References, s # r, At[s] = i PROVE Cardinality(S) >= 2
    <3>1. s \in S
      BY <2>1
    <3>2. Cardinality(S) # 1
      BY <1>6, <1>7, <2>1, <3>1, CardOne
    <3>. QED
      BY <1>8, <3>2
  <2>. QED
    BY <2>1
<1>. HIDE DEF S, i
<1>10. i_count[i] >= 1 /\ (i_ident[i] \in Pinned => i_count[i] >= 2)
  BY <1>3, <1>4, <1>5, <1>8
<1>11. \A s \in References : s # r /\ At[s] = At[r] => i_count[i] >= 2
  BY <1>3, <1>4, <1>5, <1>8, <1>9
<1>. QED
  BY <1>2, <1>10, <1>11 DEF i

LEMMA Uncounted ==
  ASSUME TypeOK, CountInv, NEW i \in Inodes, i_count[i] = 0
  PROVE  i_ident[i] \notin Pinned /\ \A r \in References : At[r] # i
<1>1. i # NULL
  BY DEF Inodes, NULL
<1>2. \A r \in References : At[r] # i
  BY <1>1, Counted
<1>3. Count(At, i) \in Nat
  BY RefsFinite, FS_Subset, CardType DEF Count
<1>4. i_count[i] = Count(At, i) + Pin(i_ident[i])
  BY DEF CountInv
<1>. QED
  BY <1>2, <1>3, <1>4 DEF Pin

(* What a step of process p does to its references.                        *)
CallDelta(p, i) ==
  ((Is(empty'[p], i) - Is(empty[p], i)) + (Is(got'[p], i) - Is(got[p], i)))
  + (Is(put'[p], i) - Is(put[p], i))

Others(p) ==
  \A q \in Procs \ {p} : /\ pc'[q] = pc[q] /\ op'[q] = op[q] /\ want'[q] = want[q]
                         /\ ino'[q] = ino[q] /\ back'[q] = back[q] /\ wback'[q] = wback[q]
                         /\ empty'[q] = empty[q] /\ got'[q] = got[q] /\ put'[q] = put[q]
                         /\ file'[q] = file[q]

(* P when the places p's call refers to are x, y and z.                     *)
Moved(P, p, x, y, z) ==
  [P EXCEPT ![Ref("empty", p)] = x, ![Ref("got", p)] = y, ![Ref("put", p)] = z]

LEMMA AtChange ==
  ASSUME NEW p \in Procs, Others(p), NEW P, OnReferences(P),
         \A r \in References : r.kind # "file" => P[r] = At[r],
         \A r \in References : r.kind = "file" => P[r] = Place(r)'
  PROVE  At' = Moved(P, p, empty'[p], got'[p], put'[p])
<1>. DEFINE Q == [P EXCEPT ![Ref("empty", p)] = empty'[p], ![Ref("got", p)] = got'[p],
                           ![Ref("put", p)] = put'[p]]
<1>1. At' = [r \in References |-> Place(r)']
  BY DEF At
<1>0. P = [r \in References |-> P[r]]
  BY DEF OnReferences
<1>2. ASSUME NEW r \in References PROVE Q[r] = Place(r)'
  <2>1. CASE r.kind = "file"
    <3>1. r # Ref("empty", p) /\ r # Ref("got", p) /\ r # Ref("put", p)
      BY <2>1 DEF Ref
    <3>2. Q[r] = P[r]
      BY <1>0, <3>1
    <3>. QED
      BY <2>1, <3>2
  <2>2. CASE r.kind \in Kinds /\ r.by # p
    <3>1. r # Ref("empty", p) /\ r # Ref("got", p) /\ r # Ref("put", p)
      BY <2>2 DEF Ref
    <3>2. Q[r] = P[r]
      BY <1>0, <3>1
    <3>3. r.by \in Procs \ {p}
      BY <2>2, RefsAre
    <3>4. r.kind # "file"
      BY <2>2 DEF Kinds
    <3>5. At[r] = Place(r)
      BY DEF At
    <3>6. Place(r)' = Place(r)
      BY <2>2, <3>3 DEF Place, Others, Kinds
    <3>. QED
      BY <3>2, <3>4, <3>5, <3>6
  <2>3. CASE r.kind \in Kinds /\ r.by = p
    <3>1. r = Ref(r.kind, p)
      BY <2>3, RefsAre
    <3>2. /\ Ref("empty", p) # Ref("got", p) /\ Ref("empty", p) # Ref("put", p)
          /\ Ref("got", p) # Ref("put", p)
      BY DEF Ref
    <3>3. CASE r.kind = "empty"
      <4>1. r = Ref("empty", p)
        BY <3>1, <3>3
      <4>2. Q[r] = empty'[p]
        BY <1>0, <3>2, <4>1
      <4>. QED
        BY <2>3, <3>3, <4>2 DEF Place
    <3>4. CASE r.kind = "got"
      <4>1. r = Ref("got", p)
        BY <3>1, <3>4
      <4>2. Q[r] = got'[p]
        BY <1>0, <3>2, <4>1
      <4>. QED
        BY <2>3, <3>4, <4>2 DEF Place
    <3>5. CASE r.kind = "put"
      <4>1. r = Ref("put", p)
        BY <3>1, <3>5
      <4>2. Q[r] = put'[p]
        BY <1>0, <3>2, <4>1
      <4>. QED
        BY <2>3, <3>5, <4>2 DEF Place
    <3>. QED
      BY <2>3, <3>3, <3>4, <3>5 DEF Kinds
  <2>. QED
    BY <2>1, <2>2, <2>3, RefsAre
<1>3. Q = [r \in References |-> Q[r]]
  BY <1>0
<1>. QED
  BY <1>1, <1>2, <1>3 DEF Moved

LEMMA CountThree ==
  ASSUME NEW p \in Procs, NEW P, OnReferences(P), NEW x, NEW y, NEW z, NEW i
  PROVE  /\ Count(P, i) \in Nat
         /\ Count(Moved(P, p, x, y, z), i)
            = Count(P, i) + (((Is(x, i) - Is(P[Ref("empty", p)], i))
                              + (Is(y, i) - Is(P[Ref("got", p)], i)))
                             + (Is(z, i) - Is(P[Ref("put", p)], i)))
<1>. DEFINE re == Ref("empty", p)  rg == Ref("got", p)  rp == Ref("put", p)
            P1 == Move(P, re, x)
            P2 == Move(P1, rg, y)
            P3 == Move(P2, rp, z)
<1>1. re \in References /\ rg \in References /\ rp \in References
  BY RefsAre DEF Kinds
<1>2. re # rg /\ re # rp /\ rg # rp
  BY DEF Ref
<1>. HIDE DEF re, rg, rp
<1>0. P = [r \in References |-> P[r]]
  BY DEF OnReferences
<1>3. OnReferences(P1) /\ OnReferences(P2)
  BY <1>0 DEF OnReferences, Move
<1>4. P1[rg] = P[rg] /\ P2[rp] = P[rp]
  BY <1>0, <1>1, <1>2 DEF Move
<1>5. P1 = Move(P, re, x) /\ P2 = Move(P1, rg, y) /\ P3 = Move(P2, rp, z)
  OBVIOUS
<1>. HIDE DEF P1, P2, P3
<1>7. /\ Count(P, i) \in Nat /\ Count(P1, i) \in Nat
      /\ Count(P1, i) = Count(P, i) + Is(x, i) - Is(P[re], i)
  BY <1>1, <1>3, <1>5, CountMove
<1>8. /\ Count(P2, i) \in Nat
      /\ Count(P2, i) = Count(P1, i) + Is(y, i) - Is(P1[rg], i)
  BY <1>1, <1>3, <1>5, CountMove
<1>9. /\ Count(P3, i) \in Nat
      /\ Count(P3, i) = Count(P2, i) + Is(z, i) - Is(P2[rp], i)
  BY <1>1, <1>3, <1>5, CountMove
<1>10. \A a : Is(a, i) \in {0, 1}
  BY DEF Is
<1>11. P3 = [P EXCEPT ![re] = x, ![rg] = y, ![rp] = z]
  BY DEF P1, P2, P3, Move
<1>12. Count(P3, i) = Count(P, i) + (((Is(x, i) - Is(P[re], i)) + (Is(y, i) - Is(P[rg], i)))
                                     + (Is(z, i) - Is(P[rp], i)))
  BY <1>4, <1>7, <1>8, <1>9, <1>10
<1>. QED
  BY <1>7, <1>11, <1>12 DEF re, rg, rp, Moved

LEMMA CountSame ==
  ASSUME TypeOK, NEW p \in Procs, Others(p), file'[p] = file[p], NEW i
  PROVE  Count(At, i) \in Nat /\ Count(At', i) = Count(At, i) + CallDelta(p, i)
<1>1. OnReferences(At)
  BY DEF At, OnReferences
<1>2. ASSUME NEW r \in References, r.kind = "file" PROVE At[r] = Place(r)'
  <2>1. r.by \in Procs
    BY <1>2, RefsAre
  <2>2. file'[r.by] = file[r.by]
    BY <2>1 DEF Others
  <2>. QED
    BY <1>2, <2>2 DEF At, Place
<1>4. At' = Moved(At, p, empty'[p], got'[p], put'[p])
  BY <1>1, <1>2, AtChange
<1>5. /\ Count(At, i) \in Nat
      /\ Count(Moved(At, p, empty'[p], got'[p], put'[p]), i)
         = Count(At, i) + (((Is(empty'[p], i) - Is(At[Ref("empty", p)], i))
                            + (Is(got'[p], i) - Is(At[Ref("got", p)], i)))
                           + (Is(put'[p], i) - Is(At[Ref("put", p)], i)))
  BY <1>1, CountThree
<1>6. At[Ref("empty", p)] = empty[p] /\ At[Ref("got", p)] = got[p] /\ At[Ref("put", p)] = put[p]
  BY AtValues
<1>. QED
  BY <1>4, <1>5, <1>6 DEF CallDelta

LEMMA CountFile ==
  ASSUME TypeOK, NEW p \in Procs, NEW f \in Fds[p], NEW x, Others(p),
         file'[p] = [file[p] EXCEPT ![f] = x], NEW i
  PROVE  /\ Count(At, i) \in Nat
         /\ Count(At', i) = Count(At, i) + (Is(x, i) - Is(file[p][f], i)) + CallDelta(p, i)
<1>. DEFINE h == FileRef(p, f)
            P == [At EXCEPT ![h] = x]
<1>1. OnReferences(At)
  BY DEF At, OnReferences
<1>2. h \in References /\ h.kind = "file" /\ At[h] = file[p][f]
  BY RefsAre, AtValues DEF FileRef
<1>3. OnReferences(P)
  BY <1>1 DEF OnReferences
<1>4. P[h] = x /\ \A r \in References : r # h => P[r] = At[r]
  BY <1>1, <1>2 DEF OnReferences
<1>5. file[p] \in [Fds[p] -> Inodes \cup {NULL}]
  BY DEF TypeOK
<1>. HIDE DEF P
<1>6. ASSUME NEW r \in References, r.kind = "file" PROVE P[r] = Place(r)'
  <2>1. r.by \in Procs /\ r.fd \in Fds[r.by] /\ r = FileRef(r.by, r.fd)
    BY <1>6, RefsAre
  <2>2. Place(r)' = file'[r.by][r.fd]
    BY <1>6 DEF Place
  <2>3. Place(r) = file[r.by][r.fd] /\ At[r] = Place(r)
    BY <1>6 DEF Place, At
  <2>4. CASE r = h
    <3>1. r.by = p /\ r.fd = f
      BY <2>4 DEF FileRef
    <3>2. file'[p][f] = x
      BY <1>5
    <3>. QED
      BY <1>4, <2>2, <2>4, <3>1, <3>2
  <2>5. CASE r # h /\ r.by = p
    <3>1. r.fd # f
      BY <2>1, <2>5
    <3>2. file'[p][r.fd] = file[p][r.fd]
      BY <1>5, <2>1, <2>5, <3>1
    <3>. QED
      BY <1>4, <2>2, <2>3, <2>5, <3>2
  <2>6. CASE r # h /\ r.by # p
    <3>1. file'[r.by] = file[r.by]
      BY <2>1, <2>6 DEF Others
    <3>. QED
      BY <1>4, <2>2, <2>3, <2>6, <3>1
  <2>. QED
    BY <2>4, <2>5, <2>6
<1>7. \A r \in References : r.kind # "file" => P[r] = At[r]
  BY <1>2, <1>4
<1>9. At' = Moved(P, p, empty'[p], got'[p], put'[p])
  BY <1>3, <1>6, <1>7, AtChange
<1>10. Ref("empty", p) \in References /\ Ref("got", p) \in References /\ Ref("put", p) \in References
  BY RefsAre DEF Kinds
<1>11. /\ P[Ref("empty", p)] = empty[p] /\ P[Ref("got", p)] = got[p] /\ P[Ref("put", p)] = put[p]
  <2>1. /\ Ref("empty", p).kind # "file" /\ Ref("got", p).kind # "file"
        /\ Ref("put", p).kind # "file"
    BY DEF Ref
  <2>. QED
    BY <1>7, <1>10, <2>1, AtValues
<1>12. /\ Count(P, i) \in Nat
       /\ Count(Moved(P, p, empty'[p], got'[p], put'[p]), i)
          = Count(P, i) + (((Is(empty'[p], i) - Is(P[Ref("empty", p)], i))
                            + (Is(got'[p], i) - Is(P[Ref("got", p)], i)))
                           + (Is(put'[p], i) - Is(P[Ref("put", p)], i)))
  BY <1>3, CountThree
<1>13. Count(At', i) = Count(P, i) + CallDelta(p, i)
  BY <1>9, <1>11, <1>12 DEF CallDelta
<1>14. /\ Count(At, i) \in Nat
       /\ Count(P, i) = Count(At, i) + Is(x, i) - Is(At[h], i)
  <2>1. P = Move(At, h, x)
    BY DEF P, Move
  <2>. QED
    BY <1>1, <1>2, <2>1, CountMove
<1>15. \A a : Is(a, i) \in {0, 1}
  BY DEF Is
<1>16. CallDelta(p, i) \in Int
  BY <1>15 DEF CallDelta
<1>. QED
  BY <1>2, <1>13, <1>14, <1>15, <1>16

(* get_pipe_inode fills two files.                                         *)
LEMMA CountPipe ==
  ASSUME TypeOK, NEW p \in Procs, NEW f \in Fds[p], NEW g \in Fds[p], f # g,
         NEW x \in Inodes, Others(p),
         file[p][f] = NULL, file[p][g] = NULL,
         file'[p] = [file[p] EXCEPT ![f] = x, ![g] = x],
         UNCHANGED <<empty, got, put>>, NEW i \in Inodes
  PROVE  /\ Count(At, i) \in Nat
         /\ Count(At', i) = Count(At, i) + 2 * Is(x, i)
<1>. DEFINE h == FileRef(p, f)
            k == FileRef(p, g)
            S == {r \in References : At[r] = i}
            S2 == {r \in References : At'[r] = i}
<1>1. file[p] \in [Fds[p] -> Inodes \cup {NULL}] /\ i # NULL
  BY DEF TypeOK, Inodes, NULL
<1>2. h \in References /\ k \in References /\ h # k /\ h.kind = "file" /\ k.kind = "file"
  BY RefsAre DEF FileRef
<1>3. At[h] = NULL /\ At[k] = NULL
  BY AtValues
<1>4. file'[p][f] = x /\ file'[p][g] = x /\ \A e \in Fds[p] : e # f /\ e # g => file'[p][e] = file[p][e]
  BY <1>1
<1>5. \A r \in References : At[r] = Place(r) /\ At'[r] = Place(r)'
  BY DEF At
<1>6. At'[h] = x /\ At'[k] = x
  <2>1. Place(h)' = file'[p][f] /\ Place(k)' = file'[p][g]
    BY DEF Place, FileRef
  <2>. QED
    BY <1>2, <1>4, <1>5, <2>1
<1>7. ASSUME NEW r \in References, r # h, r # k PROVE At'[r] = At[r]
  <2>1. CASE r.kind = "file"
    <3>1. r.by \in Procs /\ r.fd \in Fds[r.by] /\ r = FileRef(r.by, r.fd)
      BY <2>1, RefsAre
    <3>2. file'[r.by][r.fd] = file[r.by][r.fd]
      <4>1. CASE r.by = p
        BY <1>4, <1>7, <3>1, <4>1
      <4>2. CASE r.by # p
        BY <3>1, <4>2 DEF Others
      <4>. QED
        BY <4>1, <4>2
    <3>. QED
      BY <1>5, <2>1, <3>2 DEF Place
  <2>2. CASE r.kind \in Kinds
    BY <1>5, <2>2 DEF Place, Kinds
  <2>. QED
    BY <2>1, <2>2, RefsAre
<1>8. IsFiniteSet(S)
  BY RefsFinite, FS_Subset
<1>9. h \notin S /\ k \notin S
  BY <1>1, <1>3
<1>10. Count(At, i) = Cardinality(S) /\ Count(At', i) = Cardinality(S2)
  BY DEF Count
<1>11. CASE x # i
  <2>1. S2 = S
    BY <1>6, <1>7, <1>9, <1>11
  <2>2. Cardinality(S) \in Nat
    BY <1>8, CardType
  <2>3. Is(x, i) = 0
    BY <1>11 DEF Is
  <2>. HIDE DEF S, S2
  <2>. QED
    BY <1>10, <2>1, <2>2, <2>3
<1>12. CASE x = i
  <2>1. S2 = (S \cup {h}) \cup {k}
    BY <1>2, <1>6, <1>7, <1>12
  <2>. HIDE DEF S, S2, h, k
  <2>2. IsFiniteSet(S \cup {h}) /\ Cardinality(S \cup {h}) = Cardinality(S) + 1
    BY <1>8, <1>9, CardAdd
  <2>3. k \notin S \cup {h}
    BY <1>2, <1>9
  <2>4. Cardinality(S2) = Cardinality(S) + 1 + 1
    BY <2>1, <2>2, <2>3, CardAdd
  <2>5. Cardinality(S) \in Nat
    BY <1>8, CardType
  <2>. QED
    BY <1>10, <1>12, <2>4, <2>5 DEF Is
<1>. QED
  BY <1>11, <1>12

-----------------------------------------------------------------------------
(* What a step leaves alone.                                               *)

LEMMA PinnedInos == Pinned \subseteq Inos /\ NoIno \notin Pinned
BY ConstantsAssumption DEF Pinned

(* Whether a process refers to place x.                                    *)
NotAt(q, x) == /\ empty[q] # x /\ got[q] # x /\ put[q] # x
               /\ \A f \in Fds[q] : file[q][f] # x

LEMMA NobodyAt ==
  ASSUME TypeOK, CountInv, NEW x \in Inodes, i_count[x] = 0
  PROVE  i_ident[x] \notin Pinned /\ \A q \in Procs : NotAt(q, x)
<1>1. i_ident[x] \notin Pinned /\ \A r \in References : At[r] # x
  BY Uncounted
<1>2. ASSUME NEW q \in Procs PROVE NotAt(q, x)
  <2>1. /\ Ref("empty", q) \in References /\ Ref("got", q) \in References
        /\ Ref("put", q) \in References /\ \A f \in Fds[q] : FileRef(q, f) \in References
    BY RefsAre DEF Kinds
  <2>. QED
    BY <1>1, <2>1, AtValues DEF NotAt
<1>. QED
  BY <1>1, <1>2

(* A place referred to once: by a process's own empty, got or put.         *)
LEMMA OnlyOne ==
  ASSUME TypeOK, CountInv, NEW p \in Procs, NEW k \in Kinds, NEW x,
         At[Ref(k, p)] = x, x # NULL, i_count[x] <= 1
  PROVE  /\ x \in Inodes /\ i_count[x] = 1 /\ i_ident[x] \notin Pinned
         /\ \A s \in References : s # Ref(k, p) => At[s] # x
         /\ \A q \in Procs \ {p} : NotAt(q, x)
         /\ \A f \in Fds[p] : file[p][f] # x
         /\ k # "empty" => empty[p] # x
         /\ k # "got" => got[p] # x
         /\ k # "put" => put[p] # x
<1>1. Ref(k, p) \in References
  BY RefsAre
<1>2. x \in Inodes /\ i_count[x] >= 1 /\ (i_ident[x] \in Pinned => i_count[x] >= 2)
      /\ \A s \in References : s # Ref(k, p) /\ At[s] = x => i_count[x] >= 2
  BY <1>1, Counted
<1>3. i_count[x] \in Nat
  BY <1>2 DEF TypeOK
<1>4. /\ i_count[x] = 1 /\ i_ident[x] \notin Pinned
      /\ \A s \in References : s # Ref(k, p) => At[s] # x
  BY <1>2, <1>3
<1>5. ASSUME NEW q \in Procs
      PROVE  /\ Ref("empty", q) \in References /\ Ref("got", q) \in References
             /\ Ref("put", q) \in References
             /\ \A f \in Fds[q] : FileRef(q, f) \in References /\ FileRef(q, f) # Ref(k, p)
             /\ q # p \/ k # "empty" => Ref("empty", q) # Ref(k, p)
             /\ q # p \/ k # "got" => Ref("got", q) # Ref(k, p)
             /\ q # p \/ k # "put" => Ref("put", q) # Ref(k, p)
  <2>1. /\ Ref("empty", q) \in References /\ Ref("got", q) \in References
        /\ Ref("put", q) \in References /\ \A f \in Fds[q] : FileRef(q, f) \in References
    BY RefsAre DEF Kinds
  <2>2. /\ \A f \in Fds[q] : FileRef(q, f) # Ref(k, p)
        /\ q # p \/ k # "empty" => Ref("empty", q) # Ref(k, p)
        /\ q # p \/ k # "got" => Ref("got", q) # Ref(k, p)
        /\ q # p \/ k # "put" => Ref("put", q) # Ref(k, p)
    BY DEF Ref, FileRef, Kinds
  <2>. QED
    BY <2>1, <2>2
<1>6. ASSUME NEW q \in Procs \ {p} PROVE NotAt(q, x)
  BY <1>4, <1>5, AtValues DEF NotAt
<1>7. /\ \A f \in Fds[p] : file[p][f] # x
      /\ k # "empty" => empty[p] # x
      /\ k # "got" => got[p] # x
      /\ k # "put" => put[p] # x
  BY <1>4, <1>5, AtValues
<1>. QED
  BY <1>2, <1>4, <1>6, <1>7

(* The other processes keep what they have when a step does not touch it.  *)
LEMMA LocalKept ==
  ASSUME NEW p \in Procs, Others(p), NEW q \in Procs \ {p}, LocalInv(q)
  PROVE  LocalInv(q)'
BY DEF Others, LocalInv, Putting, AtPut, Taking, Getting

LEMMA TouchKeeps ==
  ASSUME TypeOK, NEW p \in Procs, Others(p), NEW x,
         \A i \in Inodes \ {x} : /\ i_ident'[i] = i_ident[i] /\ i_count'[i] = i_count[i]
                                 /\ i_pipe'[i] = i_pipe[i],
         NEW q \in Procs \ {p}, NotAt(q, x), RefOK(q)
  PROVE  RefOK(q)'
<1>1. /\ file'[q] = file[q] /\ empty'[q] = empty[q] /\ got'[q] = got[q] /\ put'[q] = put[q]
      /\ AtPut(q)' <=> AtPut(q)
  BY DEF Others, AtPut
<1>2. /\ empty[q] \in Inodes \cup {NULL} /\ got[q] \in Inodes \cup {NULL}
      /\ put[q] \in Inodes \cup {NULL}
      /\ \A f \in Fds[q] : file[q][f] \in Inodes \cup {NULL}
  BY DEF TypeOK
<1>. QED
  BY <1>1, <1>2 DEF RefOK, NotAt

LEMMA RecountKeeps ==
  ASSUME TypeOK, NEW p \in Procs, Others(p), NEW x, UNCHANGED <<i_ident, i_pipe>>,
         \A i \in Inodes \ {x} : i_count'[i] = i_count[i],
         NEW q \in Procs \ {p}, empty[q] # x, RefOK(q)
  PROVE  RefOK(q)'
<1>1. /\ file'[q] = file[q] /\ empty'[q] = empty[q] /\ got'[q] = got[q] /\ put'[q] = put[q]
      /\ AtPut(q)' <=> AtPut(q)
  BY DEF Others, AtPut
<1>2. empty[q] \in Inodes \cup {NULL}
  BY DEF TypeOK
<1>. QED
  BY <1>1, <1>2 DEF RefOK

LEMMA SameKeeps ==
  ASSUME NEW p \in Procs, Others(p), UNCHANGED <<i_ident, i_count, i_pipe>>,
         NEW q \in Procs \ {p}, RefOK(q)
  PROVE  RefOK(q)'
BY DEF RefOK, Others, AtPut

LEMMA PinKept ==
  ASSUME PinInv, NEW x, \A i \in Inodes \ {x} : i_ident'[i] = i_ident[i],
         i_ident[x] \notin Pinned, \A k \in Pinned : used'[k] = used[k]
  PROVE  PinInv'
BY DEF PinInv, Pinned, Inodes

(* A step that moves no reference and gives no place another inode.        *)
LEMMA Quiet ==
  ASSUME IInv, NEW p \in Procs, Others(p),
         UNCHANGED <<i_ident, i_count, i_pipe, used, empty, got, put, file>>,
         put[p] # NULL /\ AtPut(p)' => i_ident[put[p]] # NoIno,
         \A i \in Inodes : /\ i_dirt'[i] => i_dirt[i] \/ i_count[i] # 0
                           /\ i_lock'[i] => i_lock[i] \/ i_count[i] # 0
  PROVE  /\ FilesFunction' /\ (\A q \in Procs \ {p} : LocalInv(q)')
         /\ CountInv' /\ (\A q \in Procs : RefOK(q)') /\ PinInv' /\ UnusedIsClean'
<1>1. FilesFunction'
  BY DEF IInv, FilesFunction
<1>2. \A q \in Procs \ {p} : LocalInv(q)'
  BY LocalKept DEF IInv
<1>3. CountInv'
  <2>1. At' = At
    BY DEF At, Place
  <2>. QED
    BY <2>1 DEF IInv, CountInv, Count
<1>4. ASSUME NEW q \in Procs PROVE RefOK(q)'
  <2>1. RefOK(q)
    BY DEF IInv
  <2>2. CASE q = p
    BY <2>1, <2>2 DEF RefOK
  <2>3. CASE q # p
    <3>1. AtPut(q)' <=> AtPut(q)
      BY <2>3 DEF Others, AtPut
    <3>. QED
      BY <2>1, <3>1 DEF RefOK
  <2>. QED
    BY <2>2, <2>3
<1>5. PinInv'
  BY DEF IInv, PinInv
<1>6. UnusedIsClean'
  BY DEF IInv, UnusedIsClean
<1>. QED
  BY <1>1, <1>2, <1>3, <1>4, <1>5, <1>6

-----------------------------------------------------------------------------
(* The steps that move no reference and give no place another inode.       *)

LEMMA Assemble ==
  ASSUME TypeOK', FilesFunction', NEW p \in Procs, LocalInv(p)',
         \A q \in Procs \ {p} : LocalInv(q)', CountInv', \A q \in Procs : RefOK(q)',
         PinInv', UnusedIsClean'
  PROVE  IInv'
BY DEF IInv

LEMMA CallIgetKeeps == ASSUME IInv, NEW p \in Procs, CallIget(p) PROVE IInv'
<1>. USE DEF CallIget, Goto, tableVars, diskVars, putVars
<1>1. PICK k \in Names[p] : want' = [want EXCEPT ![p] = k]
  OBVIOUS
<1>2. k \in Inos
  BY ConstantsAssumption
<1>3. TypeOK'
  BY <1>1, <1>2 DEF IInv, TypeOK, Labels, OpNames
<1>4. Others(p)
  BY <1>1 DEF IInv, TypeOK, Others
<1>5. LocalInv(p)'
  <2>1. pc'[p] = "empty" /\ op'[p] = "iget" /\ want'[p] = k
    BY <1>1 DEF IInv, TypeOK
  <2>2. LocalInv(p)
    BY DEF IInv
  <2>. QED
    BY <1>2, <2>1, <2>2 DEF LocalInv, Putting, AtPut, Taking, Getting
<1>6. ~AtPut(p)'
  BY <1>1 DEF IInv, TypeOK, AtPut
<1>. QED
  BY <1>3, <1>4, <1>5, <1>6, Quiet, Assemble

LEMMA CallNewKeeps == ASSUME IInv, NEW p \in Procs, CallNew(p) PROVE IInv'
<1>. USE DEF CallNew, Goto, tableVars, diskVars, putVars
<1>1. PICK o \in {"create", "pipe"} : op' = [op EXCEPT ![p] = o]
  OBVIOUS
<1>2. TypeOK'
  BY <1>1 DEF IInv, TypeOK, Labels, OpNames
<1>3. Others(p)
  BY <1>1 DEF IInv, TypeOK, Others
<1>4. LocalInv(p)'
  <2>1. pc'[p] = "empty" /\ op'[p] = o
    BY <1>1 DEF IInv, TypeOK
  <2>2. LocalInv(p)
    BY DEF IInv
  <2>. QED
    BY <2>1, <2>2 DEF LocalInv, Putting, AtPut, Taking, Getting
<1>5. ~AtPut(p)'
  BY <1>1 DEF IInv, TypeOK, AtPut
<1>. QED
  BY <1>2, <1>3, <1>4, <1>5, Quiet, Assemble

LEMMA CallSyncKeeps == ASSUME IInv, NEW p \in Procs, CallSync(p) PROVE IInv'
<1>. USE DEF CallSync, Goto, tableVars, diskVars, callVars, putVars
<1>1. TypeOK'
  BY DEF IInv, TypeOK, Labels
<1>2. Others(p)
  BY DEF IInv, TypeOK, Others
<1>3. LocalInv(p)'
  <2>1. pc'[p] = "sync"
    BY DEF IInv, TypeOK
  <2>2. LocalInv(p)
    BY DEF IInv
  <2>. QED
    BY <2>1, <2>2 DEF LocalInv, Putting, AtPut, Taking, Getting
<1>4. ~AtPut(p)'
  BY DEF IInv, TypeOK, AtPut
<1>. QED
  BY <1>1, <1>2, <1>3, <1>4, Quiet, Assemble

(* A file a process holds is a place that is counted.                      *)
LEMMA HeldPlace ==
  ASSUME IInv, NEW p \in Procs, NEW f \in Held(p)
  PROVE  /\ f \in Fds[p] /\ file[p][f] \in Inodes /\ i_count[file[p][f]] >= 1
         /\ i_pipe[file[p][f]] \/ i_ident[file[p][f]] # NoIno
<1>1. f \in Fds[p] /\ file[p][f] # NULL
  BY DEF Held, Free
<1>2. At[FileRef(p, f)] = file[p][f] /\ FileRef(p, f) \in References
  BY <1>1, AtValues, RefsAre
<1>3. file[p][f] \in Inodes /\ i_count[file[p][f]] >= 1
  BY <1>1, <1>2, Counted DEF IInv
<1>. QED
  BY <1>1, <1>3 DEF IInv, RefOK

(* So is the place its call refers to.                                     *)
LEMMA CallPlace ==
  ASSUME IInv, NEW p \in Procs
  PROVE  /\ put[p] # NULL => put[p] \in Inodes /\ i_count[put[p]] >= 1
         /\ got[p] # NULL => got[p] \in Inodes /\ i_count[got[p]] >= 1
         /\ empty[p] # NULL => empty[p] \in Inodes /\ i_count[empty[p]] >= 1
<1>1. /\ Ref("empty", p) \in References /\ Ref("got", p) \in References
      /\ Ref("put", p) \in References
  BY RefsAre DEF Kinds
<1>2. At[Ref("empty", p)] = empty[p] /\ At[Ref("got", p)] = got[p] /\ At[Ref("put", p)] = put[p]
  BY AtValues
<1>. QED
  BY <1>1, <1>2, Counted DEF IInv

LEMMA ModifyKeeps == ASSUME IInv, NEW p \in Procs, Modify(p) PROVE IInv'
<1>. USE DEF Modify, procVars, callVars, putVars
<1>1. PICK f \in Held(p) :
        /\ ~i_pipe[file[p][f]]
        /\ i_dirt' = [i_dirt EXCEPT ![file[p][f]] = TRUE]
        /\ saved' = [saved EXCEPT ![i_ident[file[p][f]]] = FALSE]
        /\ fresh' = [j \in Inodes |-> fresh[j] /\ (j = file[p][f] \/ i_ident[j] # i_ident[file[p][f]])]
  OBVIOUS
<1>2. /\ file[p][f] \in Inodes /\ i_count[file[p][f]] # 0
      /\ i_ident[file[p][f]] # NoIno
  BY <1>1, HeldPlace
<1>3. TypeOK'
  <2>1. fresh' \in [Inodes -> BOOLEAN]
    BY <1>1 DEF IInv, TypeOK
  <2>2. saved' \in [Inos -> BOOLEAN] /\ i_dirt' \in [Inodes -> BOOLEAN]
    BY <1>1 DEF IInv, TypeOK
  <2>3. \A i \in Inodes : i_dirt'[i] => i_ident[i] # NoIno
    BY <1>1, <1>2 DEF IInv, TypeOK
  <2>. QED
    BY <2>1, <2>2, <2>3 DEF IInv, TypeOK
<1>4. Others(p)
  BY DEF IInv, TypeOK, Others
<1>5. LocalInv(p)' /\ ~AtPut(p)'
  BY DEF IInv, LocalInv, Putting, AtPut, Taking, Getting
<1>6. \A i \in Inodes : i_dirt'[i] => i_dirt[i] \/ i_count[i] # 0
  BY <1>1, <1>2 DEF IInv, TypeOK
<1>. QED
  BY <1>3, <1>4, <1>5, <1>6, Quiet, Assemble

LEMMA UnlinkedKeeps == ASSUME IInv, NEW p \in Procs, Unlinked(p) PROVE IInv'
<1>. USE DEF Unlinked, Goto, callVars, putVars
<1>1. put[p] \in Inodes /\ i_count[put[p]] # 0 /\ i_ident[put[p]] # NoIno
  <2>1. LocalInv(p) /\ RefOK(p)
    BY DEF IInv
  <2>2. put[p] # NULL /\ AtPut(p)
    BY <2>1 DEF LocalInv, Putting, AtPut
  <2>. QED
    BY <2>1, <2>2, CallPlace DEF RefOK
<1>2. TypeOK'
  BY <1>1 DEF IInv, TypeOK, Labels
<1>3. Others(p)
  BY DEF IInv, TypeOK, Others
<1>4. LocalInv(p)'
  <2>1. pc'[p] = "iput" /\ LocalInv(p)
    BY DEF IInv, TypeOK
  <2>. QED
    BY <2>1 DEF LocalInv, Putting, AtPut, Taking, Getting
<1>5. \A i \in Inodes : i_dirt'[i] => i_dirt[i] \/ i_count[i] # 0
  BY <1>1 DEF IInv, TypeOK
<1>. QED
  BY <1>1, <1>2, <1>3, <1>4, <1>5, Quiet, Assemble

(* The place read or written is one the process refers to, or one that     *)
(* sync_inodes is at.                                                      *)
LEMMA SubjectPlace ==
  ASSUME IInv, NEW p \in Procs, pc[p] \in {"write", "unlock"}
  PROVE  Subject(p) \in Inodes
<1>1. LocalInv(p) /\ put[p] \in Inodes \cup {NULL} /\ ino[p] \in Inodes \cup {NULL}
  BY DEF IInv, TypeOK
<1>. QED
  BY <1>1 DEF LocalInv, Subject, Putting, AtPut

LEMMA WriteCopyKeeps == ASSUME IInv, NEW p \in Procs, WriteCopy(p) PROVE IInv'
<1>. USE DEF WriteCopy, Goto, callVars, putVars
<1>. DEFINE i == Subject(p)
            k == IF i_ident[i] = NoIno THEN LastIno ELSE i_ident[i]
<1>1. i \in Inodes
  BY SubjectPlace
<1>2. /\ saved' = [saved EXCEPT ![k] = fresh[i] /\ i_ident[i] = k]
      /\ d_nlinks' = [d_nlinks EXCEPT ![k] = i_nlinks[i]]
      /\ i_dirt' = [i_dirt EXCEPT ![i] = FALSE]
  OBVIOUS
<1>. HIDE DEF i, k
<1>3. TypeOK'
  <2>1. i_nlinks[i] \in {0, 1} /\ fresh[i] \in BOOLEAN
    BY <1>1 DEF IInv, TypeOK
  <2>2. saved' \in [Inos -> BOOLEAN]
    BY <1>2, <2>1 DEF IInv, TypeOK
  <2>3. d_nlinks' \in [Inos -> {0, 1}]
    BY <1>2, <2>1 DEF IInv, TypeOK
  <2>4. i_dirt' \in [Inodes -> BOOLEAN] /\ \A j \in Inodes : i_dirt'[j] => i_dirt[j]
    BY <1>2 DEF IInv, TypeOK
  <2>5. pc' \in [Procs -> Labels]
    BY DEF IInv, TypeOK, Labels
  <2>. QED
    BY <2>2, <2>3, <2>4, <2>5 DEF IInv, TypeOK
<1>4. Others(p)
  BY DEF IInv, TypeOK, Others
<1>5. pc'[p] = "unlock" /\ LocalInv(p)
  BY DEF IInv, TypeOK
<1>6. LocalInv(p)' /\ (AtPut(p)' <=> AtPut(p))
  BY <1>5 DEF LocalInv, Putting, AtPut, Taking, Getting
<1>7. \A j \in Inodes : i_dirt'[j] => i_dirt[j]
  BY <1>2 DEF IInv, TypeOK
<1>8. put[p] # NULL /\ AtPut(p)' => i_ident[put[p]] # NoIno
  BY <1>6 DEF IInv, RefOK
<1>. QED
  BY <1>3, <1>4, <1>6, <1>7, <1>8, Quiet, Assemble

LEMMA ReadCopyKeeps == ASSUME IInv, NEW p \in Procs, ReadCopy(p) PROVE IInv'
<1>. USE DEF ReadCopy, Goto, callVars, putVars, diskVars
<1>1. LocalInv(p) /\ RefOK(p)
  BY DEF IInv
<1>2. ino[p] \in Inodes /\ i_ident[ino[p]] \in Inos
  <2>1. ino[p] = got[p] /\ got[p] # NULL
    BY <1>1 DEF LocalInv, Getting
  <2>. QED
    BY <1>1, <2>1, CallPlace DEF IInv, RefOK, TypeOK
<1>3. TypeOK'
  <2>1. saved[i_ident[ino[p]]] \in BOOLEAN /\ d_nlinks[i_ident[ino[p]]] \in {0, 1}
    BY <1>2 DEF IInv, TypeOK
  <2>2. fresh' \in [Inodes -> BOOLEAN] /\ i_nlinks' \in [Inodes -> {0, 1}]
    BY <2>1 DEF IInv, TypeOK
  <2>3. pc' \in [Procs -> Labels]
    BY DEF IInv, TypeOK, Labels
  <2>. QED
    BY <2>2, <2>3 DEF IInv, TypeOK
<1>4. Others(p)
  BY DEF IInv, TypeOK, Others
<1>5. pc'[p] = "unlock"
  BY DEF IInv, TypeOK
<1>6. LocalInv(p)' /\ ~AtPut(p)'
  BY <1>1, <1>5 DEF LocalInv, Putting, AtPut, Taking, Getting
<1>. QED
  BY <1>3, <1>4, <1>6, Quiet, Assemble

LEMMA UnlockKeeps == ASSUME IInv, NEW p \in Procs, Unlock(p) PROVE IInv'
<1>. USE DEF Unlock, Goto, callVars, putVars, diskVars
<1>1. LocalInv(p) /\ RefOK(p) /\ wback[p] \in {"idle", "empty_wait", "repeat", "sync", "sync_dev", "hit"}
  BY DEF IInv, TypeOK
<1>2. pc'[p] = wback[p] /\ wback'[p] = "idle" /\ wback[p] \in {"repeat", "sync", "sync_dev", "hit"}
  BY <1>1 DEF IInv, TypeOK, LocalInv
<1>3. TypeOK'
  BY <1>2 DEF IInv, TypeOK, Labels
<1>4. Others(p)
  BY DEF IInv, TypeOK, Others
<1>5. LocalInv(p)' /\ (AtPut(p)' => AtPut(p))
  BY <1>1, <1>2 DEF LocalInv, Putting, AtPut, Taking, Getting
<1>6. \A i \in Inodes : i_lock'[i] => i_lock[i]
  BY DEF IInv, TypeOK
<1>7. put[p] # NULL /\ AtPut(p)' => i_ident[put[p]] # NoIno
  BY <1>1, <1>5 DEF RefOK
<1>. QED
  BY <1>3, <1>4, <1>5, <1>6, <1>7, Quiet, Assemble

(* sync_inodes writes a dirty place only, which somebody uses.             *)
LEMMA SyncInodesKeeps == ASSUME IInv, NEW p \in Procs, SyncInodes(p) PROVE IInv'
<1>. USE DEF SyncInodes, Goto, callVars, putVars, diskVars
<1>1. LocalInv(p)
  BY DEF IInv
<1>2. cursor[p] \in 1..(NR_INODE + 1) /\ NR_INODE \in Nat
  BY ConstantsAssumption DEF IInv, TypeOK
<1>3. CASE cursor[p] > NR_INODE
  <2>0. /\ cursor' = [cursor EXCEPT ![p] = 1] /\ ino' = [ino EXCEPT ![p] = NULL]
        /\ \E l \in {"idle", "repeat"} : /\ pc' = [pc EXCEPT ![p] = l]
                                       /\ l = "idle" <=> pc[p] = "sync"
        /\ UNCHANGED <<i_lock, wback>>
        /\ 1 \in 1..(NR_INODE + 1)
    BY <1>2, <1>3
  <2>1. TypeOK'
    BY <2>0 DEF IInv, TypeOK, Labels
  <2>2. Others(p)
    BY <1>3 DEF IInv, TypeOK, Others
  <2>3. /\ pc'[p] = IF pc[p] = "sync" THEN "idle" ELSE "repeat"
        /\ wback'[p] = wback[p]
    BY <1>3 DEF IInv, TypeOK
  <2>4. LocalInv(p)' /\ (AtPut(p)' => AtPut(p))
    BY <1>1, <2>3 DEF LocalInv, Putting, AtPut, Taking, Getting
  <2>5. put[p] # NULL /\ AtPut(p)' => i_ident[put[p]] # NoIno
    BY <1>1, <2>4 DEF RefOK, IInv
  <2>. QED
    BY <1>3, <2>1, <2>2, <2>4, <2>5, Quiet, Assemble
<1>4. CASE cursor[p] <= NR_INODE /\ i_dirt[cursor[p]] /\ ~i_pipe[cursor[p]]
  <2>. DEFINE i == cursor[p]
  <2>1. /\ i \in Inodes /\ i # NULL
        /\ cursor' = [cursor EXCEPT ![p] = i + 1] /\ ino' = [ino EXCEPT ![p] = i]
        /\ i_lock' = [i_lock EXCEPT ![i] = TRUE]
        /\ wback' = [wback EXCEPT ![p] = pc[p]] /\ pc' = [pc EXCEPT ![p] = "write"]
    BY <1>2, <1>4 DEF StartWrite, Inodes, NULL
  <2>2. i_count[i] # 0
    BY <1>4, <2>1 DEF IInv, UnusedIsClean
  <2>3. i + 1 \in 1..(NR_INODE + 1)
    BY <1>2, <1>4
  <2>. HIDE DEF i
  <2>4. TypeOK'
    BY <2>1, <2>3 DEF IInv, TypeOK, Labels
  <2>5. Others(p)
    BY <2>1 DEF IInv, TypeOK, Others
  <2>6. pc'[p] = "write" /\ wback'[p] = pc[p] /\ ino'[p] = i
    BY <2>1 DEF IInv, TypeOK
  <2>7. LocalInv(p)' /\ (AtPut(p)' => AtPut(p))
    BY <1>1, <2>1, <2>6 DEF LocalInv, Putting, AtPut, Taking, Getting
  <2>8. \A j \in Inodes : i_lock'[j] => i_lock[j] \/ i_count[j] # 0
    BY <2>1, <2>2 DEF IInv, TypeOK
  <2>9. put[p] # NULL /\ AtPut(p)' => i_ident[put[p]] # NoIno
    BY <1>1, <2>7 DEF RefOK, IInv
  <2>. QED
    BY <2>4, <2>5, <2>7, <2>8, <2>9, Quiet, Assemble
<1>5. CASE cursor[p] <= NR_INODE /\ ~(i_dirt[cursor[p]] /\ ~i_pipe[cursor[p]])
  <2>1. cursor' = [cursor EXCEPT ![p] = cursor[p] + 1] /\ UNCHANGED <<pc, i_lock, ino, wback>>
    BY <1>2, <1>5
  <2>2. cursor[p] + 1 \in 1..(NR_INODE + 1)
    BY <1>2, <1>5
  <2>3. TypeOK'
    BY <2>1, <2>2 DEF IInv, TypeOK
  <2>4. Others(p)
    BY <2>1 DEF IInv, TypeOK, Others
  <2>5. LocalInv(p)' /\ (AtPut(p)' => AtPut(p))
    BY <1>1, <2>1 DEF LocalInv, Putting, AtPut, Taking, Getting
  <2>6. put[p] # NULL /\ AtPut(p)' => i_ident[put[p]] # NoIno
    BY <1>1, <2>5 DEF RefOK, IInv
  <2>. QED
    BY <2>1, <2>3, <2>4, <2>5, <2>6, Quiet, Assemble
<1>. QED
  BY <1>2, <1>3, <1>4, <1>5

-----------------------------------------------------------------------------
(* iput's branches that write, truncate or only wait.                      *)

Puts(p, i) == /\ put[p] = i /\ i \in Inodes /\ i_count[i] >= 1 /\ ~i_lock[i]
              /\ Putting(p) /\ pc[p] \in {"iput", "repeat"}
              /\ pc[p] = "repeat" => i_ident[i] # NoIno

LEMMA IputPuts ==
  ASSUME IInv, NEW p \in Procs, pc[p] \in {"iput", "repeat"}, ~i_lock[put[p]]
  PROVE  Puts(p, put[p])
<1>1. LocalInv(p) /\ RefOK(p)
  BY DEF IInv
<1>2. Putting(p) /\ put[p] # NULL /\ (pc[p] = "repeat" => AtPut(p))
  BY <1>1 DEF LocalInv, Putting, AtPut
<1>. QED
  BY <1>1, <1>2, CallPlace DEF Puts, RefOK

(* The inode stays with the process, which goes on to label l.             *)
LEMMA IputStays ==
  ASSUME IInv, NEW p \in Procs, NEW i, Puts(p, i), NEW l \in {"panic", "sync_dev", "truncate"},
         l # "panic" => i_ident[i] # NoIno, Goto(p, l),
         UNCHANGED <<tableVars, last_inode, fresh, diskVars, callVars, ino, putVars, wback, cursor>>
  PROVE  IInv'
<1>. USE DEF Goto, tableVars, diskVars, callVars, putVars
<1>1. TypeOK'
  BY DEF IInv, TypeOK, Labels
<1>2. Others(p)
  BY DEF IInv, TypeOK, Others
<1>3. pc'[p] = l /\ LocalInv(p)
  BY DEF IInv, TypeOK
<1>4. LocalInv(p)'
  BY <1>3 DEF Puts, LocalInv, Putting, AtPut, Taking, Getting
<1>5. put[p] # NULL /\ AtPut(p)' => i_ident[put[p]] # NoIno
  <2>1. CASE l = "panic"
    BY <1>3, <2>1 DEF AtPut
  <2>2. CASE l # "panic"
    BY <2>2 DEF Puts
  <2>. QED
    BY <2>1, <2>2
<1>. QED
  BY <1>1, <1>2, <1>4, <1>5, Quiet, Assemble

(* It is written first.                                                    *)
LEMMA IputWrites ==
  ASSUME IInv, NEW p \in Procs, NEW i, Puts(p, i), StartWrite(p, i, "repeat"),
         UNCHANGED <<i_ident, i_count, i_dirt, i_nlinks, i_pipe, last_inode, fresh, diskVars,
                     callVars, ino, putVars, cursor>>
  PROVE  IInv'
<1>. USE DEF Goto, diskVars, callVars, putVars
<1>1. /\ i_lock' = [i_lock EXCEPT ![i] = TRUE] /\ wback' = [wback EXCEPT ![p] = "repeat"]
      /\ pc' = [pc EXCEPT ![p] = "write"] /\ i_ident[i] # NoIno
  BY DEF StartWrite
<1>2. TypeOK'
  BY <1>1 DEF IInv, TypeOK, Labels
<1>3. Others(p)
  BY <1>1 DEF IInv, TypeOK, Others
<1>4. pc'[p] = "write" /\ wback'[p] = "repeat" /\ LocalInv(p)
  BY <1>1 DEF IInv, TypeOK
<1>5. LocalInv(p)'
  BY <1>4 DEF Puts, LocalInv, Putting, AtPut, Taking, Getting
<1>6. put[p] = i /\ i_count[i] # 0
  BY DEF Puts
<1>7. \A j \in Inodes : i_lock'[j] => i_lock[j] \/ i_count[j] # 0
  BY <1>1, <1>6 DEF IInv, TypeOK
<1>. QED
  BY <1>1, <1>2, <1>3, <1>5, <1>6, <1>7, Quiet, Assemble

-----------------------------------------------------------------------------
(* The end of iput: one reference less.                                    *)

LEMMA IsNull == \A j \in Inodes : Is(NULL, j) = 0
BY DEF Is, Inodes, NULL

LEMMA IputDrops ==
  ASSUME IInv, NEW p \in Procs, NEW i, Puts(p, i), Uncount(i), IputReturns(p),
         UNCHANGED <<i_ident, i_lock, i_nlinks, last_inode, fresh, diskVars, callVars, ino,
                     wback, cursor>>,
         i_dirt' \in [Inodes -> BOOLEAN], i_pipe' \in [Inodes -> BOOLEAN],
         \A j \in Inodes \ {i} : i_dirt'[j] = i_dirt[j] /\ i_pipe'[j] = i_pipe[j],
         i_dirt'[i] => i_dirt[i] /\ i_count[i] > 1,
         i_pipe'[i] <=> i_pipe[i] /\ i_count[i] > 1
  PROVE  IInv'
<1>. USE DEF Goto, diskVars, callVars, Uncount, IputReturns
<1>1. /\ LocalInv(p) /\ RefOK(p) /\ put[p] = i /\ i \in Inodes /\ i_count[i] \in Nat
      /\ i_count[i] >= 1 /\ i # NULL /\ ~i_lock[i] /\ back[p] \in {"idle", "scan", "hit"}
  <2>1. put[p] = i /\ i \in Inodes /\ i_count[i] >= 1 /\ ~i_lock[i]
    BY DEF Puts
  <2>2. i_count[i] \in Nat /\ back[p] \in {"idle", "scan", "hit"}
    BY <2>1 DEF IInv, TypeOK
  <2>3. i # NULL
    BY <2>1 DEF Inodes, NULL
  <2>. QED
    BY <2>1, <2>2, <2>3 DEF IInv
<1>2. /\ i_count' = [i_count EXCEPT ![i] = i_count[i] - 1]
      /\ put' = [put EXCEPT ![p] = NULL] /\ back' = [back EXCEPT ![p] = "idle"]
      /\ pc' = [pc EXCEPT ![p] = back[p]]
  OBVIOUS
<1>3. /\ pc'[p] = back[p] /\ put'[p] = NULL /\ back'[p] = "idle" /\ wback'[p] = wback[p]
      /\ empty'[p] = empty[p] /\ got'[p] = got[p] /\ file'[p] = file[p]
  BY <1>2 DEF IInv, TypeOK
<1>4. \A j \in Inodes : i_count'[j] = i_count[j] - Is(i, j)
  BY <1>1, <1>2 DEF IInv, TypeOK, Is
<1>6. Others(p)
  BY <1>2 DEF IInv, TypeOK, Others
<1>7. i_count[i] = 1 => /\ \A q \in Procs \ {p} : NotAt(q, i)
                        /\ empty[p] # i /\ \A f \in Fds[p] : file[p][f] # i
  <2>1. At[Ref("put", p)] = i
    BY <1>1, AtValues
  <2>. QED
    BY <1>1, <2>1, OnlyOne DEF Kinds, IInv
<1>8. i_count[i] > 1 => i_pipe' = i_pipe /\ \A q \in Procs : empty[q] # i
  <2>1. SUFFICES ASSUME i_count[i] > 1
                 PROVE  i_pipe' = i_pipe /\ \A q \in Procs : empty[q] # i
    OBVIOUS
  <2>2. i_pipe \in [Inodes -> BOOLEAN]
    BY DEF IInv, TypeOK
  <2>3. \A j \in Inodes : i_pipe'[j] = i_pipe[j]
    BY <1>1, <2>1, <2>2
  <2>4. i_pipe' = i_pipe
    BY <2>2, <2>3
  <2>5. ASSUME NEW q \in Procs PROVE empty[q] # i
    <3>1. RefOK(q)
      BY DEF IInv
    <3>. QED
      BY <1>1, <2>1, <3>1 DEF RefOK
  <2>. QED
    BY <2>4, <2>5
<1>9. TypeOK'
  <2>1. i_count' \in [Inodes -> Nat]
    BY <1>1, <1>2 DEF IInv, TypeOK
  <2>2. \A j \in Inodes : /\ i_dirt'[j] => i_ident[j] # NoIno
                          /\ i_pipe'[j] => i_ident[j] = NoIno /\ i_count'[j] > 0
    <3>1. ASSUME NEW j \in Inodes
          PROVE  /\ i_dirt'[j] => i_ident[j] # NoIno
                 /\ i_pipe'[j] => i_ident[j] = NoIno /\ i_count'[j] > 0
      <4>1. CASE j = i
        <5>1. i_count'[j] = i_count[j] - 1
          BY <1>1, <1>4, <4>1 DEF Is
        <5>. QED
          BY <1>1, <4>1, <5>1 DEF IInv, TypeOK
      <4>2. CASE j # i
        <5>1. i_count'[j] = i_count[j]
          BY <1>2, <4>2 DEF IInv, TypeOK
        <5>. QED
          BY <4>2, <5>1 DEF IInv, TypeOK
      <4>. QED
        BY <4>1, <4>2
    <3>. QED
      BY <3>1
  <2>3. pc' \in [Procs -> Labels] /\ put' \in [Procs -> Inodes \cup {NULL}]
    BY <1>1, <1>2 DEF IInv, TypeOK, Labels
  <2>4. back' \in [Procs -> {"idle", "scan", "hit"}]
    BY <1>2 DEF IInv, TypeOK
  <2>. QED
    BY <2>1, <2>2, <2>3, <2>4 DEF IInv, TypeOK
<1>10. FilesFunction'
  BY DEF IInv, FilesFunction
<1>11. LocalInv(p)'
  BY <1>1, <1>3 DEF Puts, LocalInv, Putting, AtPut, Taking, Getting, IInv
<1>12. \A q \in Procs \ {p} : LocalInv(q)'
  BY <1>6, LocalKept DEF IInv
<1>13. CountInv'
  <2>1. ASSUME NEW j \in Inodes PROVE i_count'[j] = Count(At', j) + Pin(i_ident'[j])
    <3>1. Count(At, j) \in Nat /\ Count(At', j) = Count(At, j) + CallDelta(p, j)
      BY <1>3, <1>6, CountSame DEF IInv
    <3>2. CallDelta(p, j) = 0 - Is(i, j)
      <4>1. Is(NULL, j) = 0 /\ Is(i, j) \in {0, 1} /\ Is(empty[p], j) \in {0, 1}
            /\ Is(got[p], j) \in {0, 1}
        BY IsNull DEF Is
      <4>. QED
        BY <1>1, <1>3, <4>1 DEF CallDelta
    <3>3. i_count[j] = Count(At, j) + Pin(i_ident[j])
      BY DEF IInv, CountInv
    <3>4. Pin(i_ident[j]) \in {0, 1} /\ Is(i, j) \in {0, 1}
      BY DEF Pin, Is
    <3>. QED
      BY <1>4, <3>1, <3>2, <3>3, <3>4
  <2>. QED
    BY <2>1 DEF CountInv
<1>14. ASSUME NEW q \in Procs \ {p} PROVE RefOK(q)'
  <2>1. RefOK(q)
    BY DEF IInv
  <2>2. \A j \in Inodes \ {i} : /\ i_ident'[j] = i_ident[j] /\ i_count'[j] = i_count[j]
                                /\ i_pipe'[j] = i_pipe[j]
    BY <1>2 DEF IInv, TypeOK
  <2>3. CASE i_count[i] = 1
    BY <1>6, <1>7, <2>1, <2>2, <2>3, TouchKeeps DEF IInv
  <2>4. CASE i_count[i] > 1
    BY <1>6, <1>8, <2>1, <2>2, <2>4, RecountKeeps DEF IInv
  <2>. QED
    BY <1>1, <2>3, <2>4
<1>15. RefOK(p)'
  <2>1. /\ got[p] # NULL => i_ident[got[p]] # NoIno
        /\ empty[p] # NULL => i_ident[empty[p]] = NoIno /\ i_count[empty[p]] = 1
                              /\ ~i_pipe[empty[p]] /\ empty[p] \in Inodes
        /\ \A f \in Fds[p] : file[p][f] # NULL =>
             file[p][f] \in Inodes /\ (i_pipe[file[p][f]] \/ i_ident[file[p][f]] # NoIno)
    BY <1>1 DEF RefOK, IInv, TypeOK
  <2>2. empty[p] # i
    BY <1>1, <1>7, <1>8
  <2>3. empty[p] # NULL => i_count'[empty[p]] = 1 /\ ~i_pipe'[empty[p]]
    BY <1>2, <2>1, <2>2 DEF IInv, TypeOK
  <2>4. \A f \in Fds[p] : file[p][f] # NULL => i_pipe'[file[p][f]] \/ i_ident[file[p][f]] # NoIno
    <3>1. CASE i_count[i] = 1
      BY <1>7, <2>1, <3>1
    <3>2. CASE i_count[i] > 1
      BY <1>8, <2>1, <3>2
    <3>. QED
      BY <1>1, <3>1, <3>2
  <2>. QED
    BY <1>3, <2>1, <2>3, <2>4 DEF RefOK
<1>16. PinInv'
  BY DEF IInv, PinInv
<1>17. UnusedIsClean'
  <2>1. ASSUME NEW j \in Inodes, i_count'[j] = 0 PROVE ~i_dirt'[j] /\ ~i_lock[j] /\ ~i_pipe'[j]
    <3>1. CASE j = i
      <4>1. i_count[i] = 1
        BY <1>1, <1>2, <2>1, <3>1 DEF IInv, TypeOK
      <4>. QED
        BY <1>1, <3>1, <4>1
    <3>2. CASE j # i
      <4>1. i_count[j] = 0
        BY <1>2, <2>1, <3>2 DEF IInv, TypeOK
      <4>. QED
        BY <3>2, <4>1 DEF IInv, UnusedIsClean
    <3>. QED
      BY <3>1, <3>2
  <2>. QED
    BY <2>1 DEF UnusedIsClean
<1>18. \A q \in Procs : RefOK(q)'
  BY <1>14, <1>15
<1>. QED
  BY <1>9, <1>10, <1>11, <1>12, <1>13, <1>16, <1>17, <1>18, Assemble

(* iput's loop, for an inode that is no pipe.                              *)
LEMMA DropKeeps ==
  ASSUME IInv, NEW p \in Procs, Puts(p, put[p]), Drop(p), i_ident[put[p]] # NoIno,
         UNCHANGED <<i_ident, i_nlinks, last_inode, fresh, diskVars, callVars, ino, cursor>>
  PROVE  IInv'
<1>. DEFINE i == put[p]
<1>1. i \in Inodes /\ i_count[i] \in Nat /\ i_count[i] >= 1 /\ i_pipe[i] = FALSE
      /\ i_dirt \in [Inodes -> BOOLEAN] /\ i_pipe \in [Inodes -> BOOLEAN]
  <2>1. i \in Inodes /\ i_count[i] >= 1
    BY DEF Puts
  <2>. QED
    BY <2>1 DEF IInv, TypeOK
<1>2. UNCHANGED <<i_dirt, i_pipe>>
  BY DEF Drop
<1>3. CASE Uncount(i) /\ IputReturns(p) /\ UNCHANGED <<i_lock, wback>> /\ (i_count[i] > 1 \/ ~i_dirt[i])
  BY <1>1, <1>2, <1>3, IputDrops
<1>4. CASE Goto(p, "truncate") /\ UNCHANGED <<i_count, putVars, i_lock, wback>>
  BY <1>2, <1>4, IputStays DEF tableVars
<1>5. CASE StartWrite(p, i, "repeat") /\ UNCHANGED <<i_count, putVars>>
  BY <1>2, <1>5, IputWrites
<1>. QED
  BY <1>3, <1>4, <1>5 DEF Drop

LEMMA RepeatKeeps == ASSUME IInv, NEW p \in Procs, Repeat(p) PROVE IInv'
<1>1. Puts(p, put[p]) /\ i_ident[put[p]] # NoIno
  BY IputPuts DEF Repeat, Puts
<1>. QED
  BY <1>1, DropKeeps DEF Repeat

LEMMA IputKeeps == ASSUME IInv, NEW p \in Procs, Iput(p) PROVE IInv'
<1>. DEFINE i == put[p]
<1>1. Puts(p, i)
  BY IputPuts DEF Iput
<1>2. i \in Inodes /\ i_count[i] \in Nat /\ i_count[i] >= 1
      /\ i_dirt \in [Inodes -> BOOLEAN] /\ i_pipe \in [Inodes -> BOOLEAN]
      /\ i_dirt[i] \in BOOLEAN
  <2>1. i \in Inodes /\ i_count[i] >= 1
    BY <1>1 DEF Puts
  <2>. QED
    BY <2>1 DEF IInv, TypeOK
<1>3. UNCHANGED <<i_ident, i_nlinks, last_inode, fresh, diskVars, callVars, ino, cursor>>
  BY DEF Iput
<1>4. CASE i_pipe[i]
  <2>1. /\ Uncount(i) /\ IputReturns(p) /\ UNCHANGED <<i_lock, wback>>
        /\ i_pipe' = [i_pipe EXCEPT ![i] = i_count[i] > 1]
        /\ i_dirt' = [i_dirt EXCEPT ![i] = i_dirt[i] /\ i_count[i] > 1]
    BY <1>2, <1>4 DEF Iput
  <2>2. /\ i_dirt' \in [Inodes -> BOOLEAN] /\ i_pipe' \in [Inodes -> BOOLEAN]
        /\ \A j \in Inodes \ {i} : i_dirt'[j] = i_dirt[j] /\ i_pipe'[j] = i_pipe[j]
        /\ i_dirt'[i] => i_dirt[i] /\ i_count[i] > 1
        /\ i_pipe'[i] <=> i_pipe[i] /\ i_count[i] > 1
    <3>. DEFINE b == i_count[i] > 1
                c == i_dirt[i] /\ i_count[i] > 1
    <3>1. i_pipe' = [i_pipe EXCEPT ![i] = b] /\ i_dirt' = [i_dirt EXCEPT ![i] = c]
      BY <2>1
    <3>2. b \in BOOLEAN /\ c \in BOOLEAN
      OBVIOUS
    <3>3. (b <=> i_pipe[i] /\ i_count[i] > 1) /\ (c => i_dirt[i] /\ i_count[i] > 1)
      BY <1>4
    <3>. HIDE DEF b, c, i
    <3>4. i_pipe' \in [Inodes -> BOOLEAN] /\ i_dirt' \in [Inodes -> BOOLEAN]
          /\ i_pipe'[i] = b /\ i_dirt'[i] = c
      BY <1>2, <3>1, <3>2
    <3>5. \A j \in Inodes \ {i} : i_dirt'[j] = i_dirt[j] /\ i_pipe'[j] = i_pipe[j]
      BY <1>2, <3>1
    <3>. QED
      BY <3>3, <3>4, <3>5
  <2>. QED
    BY <1>1, <1>3, <2>1, <2>2, IputDrops
<1>5. CASE ~i_pipe[i] /\ i_ident[i] = NoIno
  <2>1. Uncount(i) /\ IputReturns(p) /\ UNCHANGED <<i_dirt, i_lock, i_pipe, wback>>
    BY <1>2, <1>5 DEF Iput
  <2>2. ~i_dirt[i]
    BY <1>2, <1>5 DEF IInv, TypeOK
  <2>. QED
    BY <1>1, <1>2, <1>3, <1>5, <2>1, <2>2, IputDrops
<1>6. CASE ~i_pipe[i] /\ i_ident[i] # NoIno /\ i_ident[i] \in Special
  <2>1. Goto(p, "sync_dev") /\ UNCHANGED <<i_count, i_dirt, i_lock, i_pipe, putVars, wback>>
    BY <1>2, <1>6 DEF Iput
  <2>. QED
    BY <1>1, <1>3, <1>6, <2>1, IputStays DEF tableVars
<1>7. CASE ~i_pipe[i] /\ i_ident[i] # NoIno /\ i_ident[i] \notin Special
  <2>1. Drop(p)
    BY <1>2, <1>7 DEF Iput
  <2>. QED
    BY <1>1, <1>3, <1>7, <2>1, DropKeeps
<1>. QED
  BY <1>4, <1>5, <1>6, <1>7

-----------------------------------------------------------------------------
(* A place that is cleared.                                                *)

(* free_inode clears the place of its process's put, which nothing else    *)
(* refers to.                                                              *)
LEMMA FreeInodeKeeps == ASSUME IInv, NEW p \in Procs, FreeInode(p) PROVE IInv'
<1>. DEFINE i == put[p]
<1>. USE DEF FreeInode, Goto, callVars
<1>1. LocalInv(p) /\ RefOK(p) /\ AtPut(p) /\ Putting(p)
  BY DEF IInv, AtPut, Putting
<1>2. put[p] # NULL
  BY <1>1 DEF LocalInv
<1>3. i \in Inodes /\ i_count[i] \in Nat /\ i_count[i] >= 1 /\ i_ident[i] # NoIno
      /\ back[p] \in {"idle", "scan", "hit"}
  <2>1. i \in Inodes /\ i_count[i] >= 1 /\ i_ident[i] # NoIno
    BY <1>1, <1>2, CallPlace DEF RefOK
  <2>. QED
    BY <2>1 DEF IInv, TypeOK
<1>4. CASE i_count[i] > 1 \/ i_nlinks[i] # 0 \/ ~used[i_ident[i]]
  <2>1. pc' = [pc EXCEPT ![p] = "panic"] /\ UNCHANGED <<tableVars, fresh, used, putVars>>
    BY <1>4 DEF Panic
  <2>2. TypeOK'
    BY <2>1 DEF IInv, TypeOK, Labels, tableVars, putVars
  <2>3. Others(p)
    BY <2>1 DEF IInv, TypeOK, Others, putVars
  <2>4. pc'[p] = "panic"
    BY <2>1 DEF IInv, TypeOK
  <2>5. LocalInv(p)' /\ ~AtPut(p)'
    BY <2>4 DEF LocalInv, AtPut
  <2>. QED
    BY <2>1, <2>2, <2>3, <2>5, Quiet, Assemble DEF tableVars, putVars
<1>5. CASE i_count[i] = 1 /\ used[i_ident[i]]
           /\ ~(i_count[i] > 1 \/ i_nlinks[i] # 0 \/ ~used[i_ident[i]])
  <2>1. /\ used' = [used EXCEPT ![i_ident[i]] = FALSE]
        /\ Clear(i, 0, FALSE) /\ IputReturns(p)
    BY <1>5
  <2>2. UNCHANGED <<last_inode, saved, d_nlinks, entry, op, want, empty, got, file, ino, wback, cursor>>
    OBVIOUS
  <2>3. i_ident[i] \notin Pinned /\ (\A q \in Procs \ {p} : NotAt(q, i))
        /\ empty[p] # i /\ got[p] # i /\ \A f \in Fds[p] : file[p][f] # i
    <3>1. At[Ref("put", p)] = i
      BY AtValues
    <3>. QED
      BY <1>2, <1>5, <3>1, OnlyOne DEF Kinds, IInv
  <2>4. /\ pc' = [pc EXCEPT ![p] = back[p]] /\ put' = [put EXCEPT ![p] = NULL]
        /\ back' = [back EXCEPT ![p] = "idle"]
    BY <2>1 DEF IputReturns
  <2>5. /\ pc'[p] = back[p] /\ put'[p] = NULL /\ back'[p] = "idle" /\ wback'[p] = wback[p]
        /\ empty'[p] = empty[p] /\ got'[p] = got[p] /\ file'[p] = file[p]
    BY <2>2, <2>4 DEF IInv, TypeOK
  <2>6. Others(p)
    BY <2>2, <2>4 DEF IInv, TypeOK, Others
  <2>7. /\ i_ident' = [i_ident EXCEPT ![i] = NoIno] /\ i_count' = [i_count EXCEPT ![i] = 0]
        /\ i_dirt' = [i_dirt EXCEPT ![i] = FALSE] /\ i_lock' = [i_lock EXCEPT ![i] = FALSE]
        /\ i_nlinks' = [i_nlinks EXCEPT ![i] = 0] /\ i_pipe' = [i_pipe EXCEPT ![i] = FALSE]
        /\ fresh' = [fresh EXCEPT ![i] = FALSE]
    BY <2>1 DEF Clear
  <2>8. /\ i_ident'[i] = NoIno /\ i_count'[i] = 0 /\ i_dirt'[i] = FALSE /\ i_lock'[i] = FALSE
        /\ i_pipe'[i] = FALSE
        /\ \A j \in Inodes \ {i} : /\ i_ident'[j] = i_ident[j] /\ i_count'[j] = i_count[j]
                                   /\ i_pipe'[j] = i_pipe[j] /\ i_dirt'[j] = i_dirt[j]
                                   /\ i_lock'[j] = i_lock[j]
    BY <1>3, <2>7 DEF IInv, TypeOK
  <2>9. TypeOK'
    <3>1. /\ i_ident' \in [Inodes -> Inos \cup {NoIno}] /\ i_count' \in [Inodes -> Nat]
          /\ i_dirt' \in [Inodes -> BOOLEAN] /\ i_lock' \in [Inodes -> BOOLEAN]
          /\ i_nlinks' \in [Inodes -> {0, 1}] /\ i_pipe' \in [Inodes -> BOOLEAN]
          /\ fresh' \in [Inodes -> BOOLEAN]
      BY <2>7 DEF IInv, TypeOK
    <3>2. used' \in [Inos -> BOOLEAN]
      BY <2>1 DEF IInv, TypeOK
    <3>3. pc' \in [Procs -> Labels] /\ put' \in [Procs -> Inodes \cup {NULL}]
          /\ back' \in [Procs -> {"idle", "scan", "hit"}]
      BY <1>3, <2>4 DEF IInv, TypeOK, Labels
    <3>4. \A j \in Inodes : /\ i_dirt'[j] => i_ident'[j] # NoIno
                            /\ i_pipe'[j] => i_ident'[j] = NoIno /\ i_count'[j] > 0
      BY <2>8 DEF IInv, TypeOK
    <3>. QED
      BY <2>2, <3>1, <3>2, <3>3, <3>4 DEF IInv, TypeOK
  <2>10. FilesFunction'
    BY <2>2 DEF IInv, FilesFunction
  <2>11. LocalInv(p)'
    BY <1>1, <1>3, <2>2, <2>5 DEF LocalInv, Putting, AtPut, Taking, Getting
  <2>12. \A q \in Procs \ {p} : LocalInv(q)'
    BY <2>6, LocalKept DEF IInv
  <2>13. CountInv'
    <3>1. ASSUME NEW j \in Inodes PROVE i_count'[j] = Count(At', j) + Pin(i_ident'[j])
      <4>1. Count(At, j) \in Nat /\ Count(At', j) = Count(At, j) + CallDelta(p, j)
        BY <2>5, <2>6, CountSame DEF IInv
      <4>2. CallDelta(p, j) = 0 - Is(i, j)
        <5>1. Is(NULL, j) = 0 /\ Is(i, j) \in {0, 1} /\ Is(empty[p], j) \in {0, 1}
              /\ Is(got[p], j) \in {0, 1}
          BY IsNull DEF Is
        <5>. QED
          BY <2>5, <5>1 DEF CallDelta
      <4>3. i_count[j] = Count(At, j) + Pin(i_ident[j])
        BY DEF IInv, CountInv
      <4>4. Pin(i_ident'[j]) = Pin(i_ident[j]) /\ Pin(i_ident[j]) \in {0, 1}
        <5>1. CASE j = i
          BY <2>3, <2>8, <5>1, PinnedInos DEF Pin
        <5>2. CASE j # i
          BY <2>8, <5>2 DEF Pin
        <5>. QED
          BY <5>1, <5>2
      <4>5. i_count'[j] = i_count[j] - Is(i, j)
        BY <1>5, <2>8 DEF Is, IInv, TypeOK
      <4>6. Is(i, j) \in {0, 1}
        BY DEF Is
      <4>. QED
        BY <4>1, <4>2, <4>3, <4>4, <4>5, <4>6
    <3>. QED
      BY <3>1 DEF CountInv
  <2>14. ASSUME NEW q \in Procs PROVE RefOK(q)'
    <3>1. RefOK(q)
      BY DEF IInv
    <3>2. CASE q # p
      BY <2>3, <2>6, <2>8, <3>1, <3>2, TouchKeeps DEF IInv
    <3>3. CASE q = p
      <4>1. /\ empty[p] \in Inodes \cup {NULL} /\ got[p] \in Inodes \cup {NULL}
            /\ \A f \in Fds[p] : file[p][f] \in Inodes \cup {NULL}
        BY DEF IInv, TypeOK
      <4>2. empty[p] # NULL =>
             i_ident'[empty[p]] = NoIno /\ i_count'[empty[p]] = 1 /\ ~i_pipe'[empty[p]]
        BY <1>1, <2>3, <2>8, <4>1 DEF RefOK
      <4>3. got[p] # NULL => i_ident'[got[p]] # NoIno
        BY <1>1, <2>3, <2>8, <4>1 DEF RefOK
      <4>4. \A f \in Fds[p] : file[p][f] # NULL => i_pipe'[file[p][f]] \/ i_ident'[file[p][f]] # NoIno
        BY <1>1, <2>3, <2>8, <4>1 DEF RefOK
      <4>. QED
        BY <2>5, <3>3, <4>2, <4>3, <4>4 DEF RefOK
    <3>. QED
      BY <3>2, <3>3
  <2>15. PinInv'
    <3>1. \A k \in Pinned : used'[k] = used[k]
      BY <2>1, <2>3, PinnedInos DEF IInv, TypeOK
    <3>. QED
      BY <2>3, <2>8, <3>1, PinKept DEF IInv
  <2>16. UnusedIsClean'
    BY <2>8 DEF IInv, UnusedIsClean
  <2>. QED
    BY <2>9, <2>10, <2>11, <2>12, <2>13, <2>14, <2>15, <2>16, Assemble
<1>. QED
  BY <1>3, <1>4, <1>5

-----------------------------------------------------------------------------
(* A reference that moves.                                                 *)

LEMMA FileChange ==
  ASSUME FilesFunction, TypeOK, NEW p \in Procs, NEW x \in [Fds[p] -> Inodes \cup {NULL}],
         file' = [file EXCEPT ![p] = x]
  PROVE  /\ file'[p] = x /\ (\A q \in Procs \ {p} : file'[q] = file[q])
         /\ FilesFunction' /\ \A q \in Procs : file'[q] \in [Fds[q] -> Inodes \cup {NULL}]
<1>1. file = [q \in Procs |-> file[q]]
  BY DEF FilesFunction
<1>2. file'[p] = x /\ (\A q \in Procs \ {p} : file'[q] = file[q]) /\ file' = [q \in Procs |-> file'[q]]
  BY <1>1
<1>3. \A q \in Procs : file'[q] \in [Fds[q] -> Inodes \cup {NULL}]
  BY <1>2 DEF TypeOK
<1>. QED
  BY <1>2, <1>3 DEF FilesFunction

(* A process gives one of its inodes to iput.                              *)
LEMMA GiveUpKeeps ==
  ASSUME IInv, NEW p \in Procs, pc[p] = "idle", NEW f \in Held(p),
         put' = [put EXCEPT ![p] = file[p][f]], file' = [file EXCEPT ![p][f] = NULL],
         NEW l \in {"iput", "unlink"}, Goto(p, l),
         l = "unlink" => i_ident[file[p][f]] # NoIno,
         entry' \in [Inos -> BOOLEAN],
         UNCHANGED <<tableVars, last_inode, fresh, saved, d_nlinks, used, op, want, ino, empty,
                     got, back, wback, cursor>>
  PROVE  IInv'
<1>. DEFINE i == file[p][f]
            x == [file[p] EXCEPT ![f] = NULL]
<1>. USE DEF Goto, tableVars
<1>1. LocalInv(p) /\ RefOK(p)
  BY DEF IInv
<1>2. f \in Fds[p] /\ i \in Inodes /\ i # NULL
  BY HeldPlace DEF Inodes, NULL
<1>3. put[p] = NULL
  BY <1>1 DEF LocalInv, Putting, AtPut
<1>4. x \in [Fds[p] -> Inodes \cup {NULL}] /\ file' = [file EXCEPT ![p] = x]
  BY DEF IInv, TypeOK
<1>5. /\ file'[p] = x /\ (\A q \in Procs \ {p} : file'[q] = file[q])
      /\ FilesFunction' /\ \A q \in Procs : file'[q] \in [Fds[q] -> Inodes \cup {NULL}]
  <2>. HIDE DEF x
  <2>. QED
    BY <1>4, FileChange DEF IInv
<1>6. /\ pc'[p] = l /\ put'[p] = i /\ back'[p] = back[p] /\ wback'[p] = wback[p]
      /\ empty'[p] = empty[p] /\ got'[p] = got[p]
  BY DEF IInv, TypeOK
<1>7. Others(p)
  BY <1>5 DEF IInv, TypeOK, Others
<1>8. TypeOK'
  <2>1. pc' \in [Procs -> Labels]
    BY DEF IInv, TypeOK, Labels
  <2>2. put' \in [Procs -> Inodes \cup {NULL}]
    BY <1>2 DEF IInv, TypeOK
  <2>. QED
    BY <1>5, <2>1, <2>2 DEF IInv, TypeOK
<1>9. LocalInv(p)'
  BY <1>1, <1>2, <1>6 DEF LocalInv, Putting, AtPut, Taking, Getting
<1>10. \A q \in Procs \ {p} : LocalInv(q)'
  BY <1>7, LocalKept DEF IInv
<1>11. CountInv'
  <2>1. ASSUME NEW j \in Inodes PROVE i_count'[j] = Count(At', j) + Pin(i_ident'[j])
    <3>1. Count(At, j) \in Nat
          /\ Count(At', j) = Count(At, j) + (Is(NULL, j) - Is(i, j)) + CallDelta(p, j)
      BY <1>2, <1>5, <1>7, CountFile DEF IInv
    <3>2. \A a : Is(a, j) \in {0, 1}
      BY DEF Is
    <3>3. Is(NULL, j) = 0
      BY IsNull
    <3>4. CallDelta(p, j) = Is(i, j)
      <4>. HIDE DEF i
      <4>. QED
        BY <1>3, <1>6, <3>2, <3>3 DEF CallDelta
    <3>5. Count(At', j) = Count(At, j)
      <4>. HIDE DEF i
      <4>. QED
        BY <3>1, <3>2, <3>3, <3>4
    <3>. QED
      BY <3>5 DEF IInv, CountInv
  <2>. QED
    BY <2>1 DEF CountInv
<1>12. ASSUME NEW q \in Procs PROVE RefOK(q)'
  <2>1. CASE q # p
    <3>1. RefOK(q) /\ q \in Procs \ {p}
      BY <2>1 DEF IInv
    <3>. QED
      BY <1>7, <3>1, SameKeeps
  <2>2. CASE q = p
    <3>1. \A g \in Fds[p] : file'[p][g] # NULL => g # f /\ file'[p][g] = file[p][g]
      BY <1>5 DEF IInv, TypeOK
    <3>2. \A g \in Fds[p] : file'[p][g] # NULL =>
            i_pipe[file'[p][g]] \/ i_ident[file'[p][g]] # NoIno
      BY <1>1, <3>1 DEF RefOK
    <3>3. put'[p] # NULL /\ AtPut(p)' => i_ident[put'[p]] # NoIno
      BY <1>6 DEF AtPut
    <3>. QED
      BY <1>1, <1>6, <2>2, <3>2, <3>3 DEF RefOK
  <2>. QED
    BY <2>1, <2>2
<1>13. PinInv' /\ UnusedIsClean'
  BY DEF IInv, PinInv, UnusedIsClean
<1>. QED
  BY <1>5, <1>8, <1>9, <1>10, <1>11, <1>12, <1>13, Assemble

LEMMA CallIputKeeps == ASSUME IInv, NEW p \in Procs, CallIput(p) PROVE IInv'
<1>1. PICK f \in Held(p) : /\ put' = [put EXCEPT ![p] = file[p][f]]
                           /\ file' = [file EXCEPT ![p][f] = NULL]
  BY DEF CallIput
<1>2. entry' \in [Inos -> BOOLEAN]
  BY DEF CallIput, diskVars, IInv, TypeOK
<1>. QED
  BY <1>1, <1>2, GiveUpKeeps DEF CallIput, diskVars

LEMMA CallUnlinkKeeps == ASSUME IInv, NEW p \in Procs, CallUnlink(p) PROVE IInv'
<1>1. PICK f \in Held(p) :
        /\ i_ident[file[p][f]] \in Removable
        /\ entry' = [entry EXCEPT ![i_ident[file[p][f]]] = FALSE]
        /\ put' = [put EXCEPT ![p] = file[p][f]]
        /\ file' = [file EXCEPT ![p][f] = NULL]
  BY DEF CallUnlink
<1>2. i_ident[file[p][f]] # NoIno
  BY <1>1, ConstantsAssumption
<1>3. entry' \in [Inos -> BOOLEAN]
  BY <1>1 DEF IInv, TypeOK
<1>. QED
  BY <1>1, <1>2, <1>3, GiveUpKeeps DEF CallUnlink

LEMMA HitKeeps == ASSUME IInv, NEW p \in Procs, Hit(p) PROVE IInv'
<1>. USE DEF Hit, Goto, tableVars, putVars
<1>1. PICK f \in Free(p) : file' = [file EXCEPT ![p][f] = got[p]]
  OBVIOUS
<1>. DEFINE i == got[p]
            x == [file[p] EXCEPT ![f] = i]
<1>2. LocalInv(p) /\ RefOK(p)
  BY DEF IInv
<1>3. f \in Fds[p] /\ file[p][f] = NULL
  BY DEF Free
<1>4. got[p] # NULL /\ put[p] = NULL
  BY <1>2 DEF LocalInv, Putting, AtPut, Getting
<1>5. i \in Inodes /\ i_ident[i] # NoIno
  BY <1>2, <1>4, CallPlace DEF RefOK
<1>6. x \in [Fds[p] -> Inodes \cup {NULL}] /\ file' = [file EXCEPT ![p] = x]
  <2>1. file[p] \in [Fds[p] -> Inodes \cup {NULL}]
    BY DEF IInv, TypeOK
  <2>. QED
    BY <1>1, <1>5, <2>1
<1>7. /\ file'[p] = x /\ (\A q \in Procs \ {p} : file'[q] = file[q])
      /\ FilesFunction' /\ \A q \in Procs : file'[q] \in [Fds[q] -> Inodes \cup {NULL}]
  <2>. HIDE DEF x
  <2>. QED
    BY <1>6, FileChange DEF IInv
<1>8. /\ pc'[p] = "idle" /\ got'[p] = NULL /\ put'[p] = put[p] /\ back'[p] = back[p]
      /\ empty'[p] = empty[p] /\ wback'[p] = wback[p]
  BY DEF IInv, TypeOK
<1>9. Others(p)
  BY <1>7 DEF IInv, TypeOK, Others
<1>10. TypeOK'
  <2>1. pc' \in [Procs -> Labels] /\ op' \in [Procs -> OpNames \cup {"none"}]
    BY DEF IInv, TypeOK, Labels
  <2>2. got' \in [Procs -> Inodes \cup {NULL}] /\ ino' \in [Procs -> Inodes \cup {NULL}]
        /\ want' \in [Procs -> Inos \cup {NoIno}]
    BY DEF IInv, TypeOK
  <2>3. entry' \in [Inos -> BOOLEAN]
    BY DEF IInv, TypeOK
  <2>. QED
    BY <1>7, <2>1, <2>2, <2>3 DEF IInv, TypeOK
<1>11. LocalInv(p)'
  BY <1>2, <1>8 DEF LocalInv, Putting, AtPut, Taking, Getting
<1>12. \A q \in Procs \ {p} : LocalInv(q)'
  BY <1>9, LocalKept DEF IInv
<1>13. CountInv'
  <2>1. ASSUME NEW j \in Inodes PROVE i_count'[j] = Count(At', j) + Pin(i_ident'[j])
    <3>1. Count(At, j) \in Nat
          /\ Count(At', j) = Count(At, j) + (Is(i, j) - Is(NULL, j)) + CallDelta(p, j)
      <4>1. file'[p] = [file[p] EXCEPT ![f] = i]
        BY <1>7
      <4>. HIDE DEF i, x
      <4>2. Count(At, j) \in Nat
            /\ Count(At', j) = Count(At, j) + (Is(i, j) - Is(file[p][f], j)) + CallDelta(p, j)
        BY <1>3, <1>9, <4>1, CountFile DEF IInv
      <4>. QED
        BY <1>3, <4>2
    <3>2. \A a : Is(a, j) \in {0, 1}
      BY DEF Is
    <3>3. Is(NULL, j) = 0
      BY IsNull
    <3>4. CallDelta(p, j) = 0 - Is(i, j)
      BY <1>8, <3>2, <3>3 DEF CallDelta
    <3>5. Count(At', j) = Count(At, j)
      BY <3>1, <3>2, <3>3, <3>4
    <3>. QED
      BY <3>5 DEF IInv, CountInv
  <2>. QED
    BY <2>1 DEF CountInv
<1>14. ASSUME NEW q \in Procs PROVE RefOK(q)'
  <2>1. CASE q # p
    <3>1. RefOK(q) /\ q \in Procs \ {p}
      BY <2>1 DEF IInv
    <3>. QED
      BY <1>9, <3>1, SameKeeps
  <2>2. CASE q = p
    <3>1. \A g \in Fds[p] : file'[p][g] = IF g = f THEN i ELSE file[p][g]
      BY <1>7 DEF IInv, TypeOK
    <3>2. \A g \in Fds[p] : file'[p][g] # NULL =>
            i_pipe[file'[p][g]] \/ i_ident[file'[p][g]] # NoIno
      BY <1>2, <1>5, <3>1 DEF RefOK
    <3>. QED
      BY <1>2, <1>4, <1>8, <2>2, <3>2 DEF RefOK
  <2>. QED
    BY <2>1, <2>2
<1>15. PinInv' /\ UnusedIsClean'
  BY DEF IInv, PinInv, UnusedIsClean
<1>. QED
  BY <1>7, <1>10, <1>11, <1>12, <1>13, <1>14, <1>15, Assemble

-----------------------------------------------------------------------------
(* iget and new_inode.                                                     *)

(* The empty place of a process is nobody else's.                          *)
LEMMA EmptyPlace ==
  ASSUME IInv, NEW p \in Procs, Taking(p)
  PROVE  /\ empty[p] \in Inodes /\ empty[p] # NULL
         /\ i_ident[empty[p]] = NoIno /\ i_count[empty[p]] = 1 /\ ~i_pipe[empty[p]]
         /\ \A q \in Procs \ {p} : NotAt(q, empty[p])
         /\ \A f \in Fds[p] : file[p][f] # empty[p]
         /\ got[p] = NULL /\ put[p] = NULL /\ back[p] = "idle"
<1>1. LocalInv(p) /\ RefOK(p)
  BY DEF IInv
<1>2. empty[p] # NULL /\ got[p] = NULL /\ put[p] = NULL /\ back[p] = "idle"
  BY <1>1 DEF LocalInv, Putting, AtPut, Taking, Getting
<1>3. i_ident[empty[p]] = NoIno /\ i_count[empty[p]] = 1 /\ ~i_pipe[empty[p]]
  BY <1>1, <1>2 DEF RefOK
<1>4. At[Ref("empty", p)] = empty[p]
  BY AtValues
<1>. QED
  BY <1>2, <1>3, <1>4, OnlyOne DEF Kinds, IInv

(* iget gives its empty place the identity it looked for.                  *)
LEMMA InstallKeeps ==
  ASSUME IInv, NEW p \in Procs, pc[p] = "scan", Install(p),
         \A i \in Inodes : i_ident[i] # want[p],
         UNCHANGED <<i_count, want, putVars, i_dirt, i_nlinks, i_pipe, last_inode, fresh,
                     diskVars, op, cursor, file>>
  PROVE  IInv'
<1>. DEFINE e == empty[p]
            k == want[p]
<1>. USE DEF Goto, diskVars, putVars
<1>1. Taking(p) /\ LocalInv(p) /\ RefOK(p)
  BY DEF IInv, Taking
<1>2. /\ e \in Inodes /\ e # NULL /\ i_ident[e] = NoIno /\ i_count[e] = 1 /\ ~i_pipe[e]
      /\ (\A q \in Procs \ {p} : NotAt(q, e)) /\ (\A f \in Fds[p] : file[p][f] # e)
      /\ got[p] = NULL /\ put[p] = NULL /\ back[p] = "idle"
  BY <1>1, EmptyPlace
<1>3. k \in Inos /\ k # NoIno
  BY <1>1, ConstantsAssumption DEF LocalInv
<1>4. k \notin Pinned
  BY DEF IInv, PinInv
<1>5. /\ i_ident' = [i_ident EXCEPT ![e] = k] /\ i_lock' = [i_lock EXCEPT ![e] = TRUE]
      /\ ino' = [ino EXCEPT ![p] = e] /\ got' = [got EXCEPT ![p] = e]
      /\ empty' = [empty EXCEPT ![p] = NULL] /\ wback' = [wback EXCEPT ![p] = "hit"]
      /\ pc' = [pc EXCEPT ![p] = "read"]
  BY DEF Install
<1>. HIDE DEF e, k
<1>6. /\ pc'[p] = "read" /\ wback'[p] = "hit" /\ ino'[p] = e /\ got'[p] = e /\ empty'[p] = NULL
      /\ put'[p] = NULL /\ back'[p] = "idle" /\ file'[p] = file[p]
  BY <1>2, <1>5 DEF IInv, TypeOK
<1>7. Others(p)
  BY <1>5 DEF IInv, TypeOK, Others
<1>8. i_ident'[e] = k /\ \A j \in Inodes \ {e} : i_ident'[j] = i_ident[j] /\ i_lock'[j] = i_lock[j]
  BY <1>2, <1>5 DEF IInv, TypeOK
<1>9. TypeOK'
  <2>1. i_ident' \in [Inodes -> Inos \cup {NoIno}] /\ i_lock' \in [Inodes -> BOOLEAN]
    BY <1>3, <1>5 DEF IInv, TypeOK
  <2>2. /\ ino' \in [Procs -> Inodes \cup {NULL}] /\ got' \in [Procs -> Inodes \cup {NULL}]
        /\ empty' \in [Procs -> Inodes \cup {NULL}]
    BY <1>2, <1>5 DEF IInv, TypeOK
  <2>3. /\ wback' \in [Procs -> {"idle", "empty_wait", "repeat", "sync", "sync_dev", "hit"}]
        /\ pc' \in [Procs -> Labels]
    BY <1>5 DEF IInv, TypeOK, Labels
  <2>4. \A j \in Inodes : /\ i_dirt[j] => i_ident'[j] # NoIno
                          /\ i_pipe[j] => i_ident'[j] = NoIno /\ i_count[j] > 0
    BY <1>2, <1>3, <1>8 DEF IInv, TypeOK
  <2>. QED
    BY <2>1, <2>2, <2>3, <2>4 DEF IInv, TypeOK
<1>10. FilesFunction'
  BY DEF IInv, FilesFunction
<1>11. LocalInv(p)'
  BY <1>1, <1>2, <1>6 DEF LocalInv, Putting, AtPut, Taking, Getting
<1>12. \A q \in Procs \ {p} : LocalInv(q)'
  BY <1>7, LocalKept DEF IInv
<1>13. CountInv'
  <2>1. ASSUME NEW j \in Inodes PROVE i_count'[j] = Count(At', j) + Pin(i_ident'[j])
    <3>1. Count(At, j) \in Nat /\ Count(At', j) = Count(At, j) + CallDelta(p, j)
      BY <1>6, <1>7, CountSame DEF IInv
    <3>2. CallDelta(p, j) = 0
      <4>1. \A a : Is(a, j) \in {0, 1}
        BY DEF Is
      <4>. QED
        BY <1>2, <1>6, <4>1 DEF CallDelta, e
    <3>3. Pin(i_ident'[j]) = Pin(i_ident[j])
      BY <1>2, <1>4, <1>8, PinnedInos DEF Pin
    <3>. QED
      BY <3>1, <3>2, <3>3 DEF IInv, CountInv
  <2>. QED
    BY <2>1 DEF CountInv
<1>14. ASSUME NEW q \in Procs PROVE RefOK(q)'
  <2>1. CASE q # p
    <3>1. RefOK(q) /\ q \in Procs \ {p}
      BY <2>1 DEF IInv
    <3>. QED
      BY <1>2, <1>7, <1>8, <3>1, TouchKeeps DEF IInv
  <2>2. CASE q = p
    <3>1. \A f \in Fds[p] : file[p][f] # NULL =>
            file[p][f] \in Inodes /\ i_ident'[file[p][f]] = i_ident[file[p][f]]
      BY <1>2, <1>8 DEF IInv, TypeOK
    <3>2. \A f \in Fds[p] : file[p][f] # NULL => i_pipe[file[p][f]] \/ i_ident'[file[p][f]] # NoIno
      BY <1>1, <3>1 DEF RefOK
    <3>3. i_ident'[e] # NoIno
      BY <1>3, <1>8
    <3>. QED
      BY <1>6, <2>2, <3>2, <3>3 DEF RefOK
  <2>. QED
    BY <2>1, <2>2
<1>15. PinInv'
  BY <1>2, <1>8, PinKept, PinnedInos DEF IInv
<1>16. UnusedIsClean'
  BY <1>2, <1>8 DEF IInv, UnusedIsClean
<1>. QED
  BY <1>9, <1>10, <1>11, <1>12, <1>13, <1>14, <1>15, <1>16, Assemble

(* iget counts the inode it has found.                                     *)
LEMMA FoundKeeps ==
  ASSUME IInv, NEW p \in Procs, pc[p] \in {"scan", "scan_wait"}, NEW i \in Inodes, Found(p, i),
         i_ident[i] = want[p],
         UNCHANGED <<i_dirt, i_nlinks, i_pipe, last_inode, fresh, diskVars, op, cursor, file>>
  PROVE  IInv'
<1>. DEFINE e == empty[p]
            c == i_count[i] + 1
<1>. USE DEF Goto, diskVars, putVars
<1>1. Taking(p) /\ LocalInv(p) /\ RefOK(p)
  BY DEF IInv, Taking
<1>2. /\ e \in Inodes /\ e # NULL /\ i_ident[e] = NoIno /\ i_count[e] = 1 /\ ~i_pipe[e]
      /\ got[p] = NULL /\ put[p] = NULL /\ back[p] = "idle"
  BY <1>1, EmptyPlace
<1>3. i_ident[i] \in Inos /\ i_ident[i] # NoIno /\ i # NULL
  BY <1>1, ConstantsAssumption DEF LocalInv, Inodes, NULL
<1>4. ASSUME NEW q \in Procs PROVE empty[q] # i
  <2>1. RefOK(q)
    BY DEF IInv
  <2>. QED
    BY <1>3, <2>1 DEF RefOK
<1>5. /\ i_count' = [i_count EXCEPT ![i] = c] /\ ino' = [ino EXCEPT ![p] = i]
      /\ pc' = [pc EXCEPT ![p] = "iput"] /\ UNCHANGED <<i_ident, i_lock, wback>>
  BY DEF Found
<1>6. i_count[i] \in Nat /\ c \in Nat
  BY DEF IInv, TypeOK
<1>7. i_count'[i] = c /\ \A j \in Inodes \ {i} : i_count'[j] = i_count[j]
  BY <1>5 DEF IInv, TypeOK
<1>8. /\ want[p] = MountPoint
      /\ put' = [put EXCEPT ![p] = i] /\ back' = [back EXCEPT ![p] = "scan"]
      /\ want' = [want EXCEPT ![p] = MountRoot] /\ UNCHANGED <<got, empty>>
      \/ /\ got' = [got EXCEPT ![p] = i] /\ put' = [put EXCEPT ![p] = e]
         /\ empty' = [empty EXCEPT ![p] = NULL] /\ back' = [back EXCEPT ![p] = "hit"]
         /\ UNCHANGED want
  BY DEF Found
<1>. HIDE DEF e, c
<1>9. /\ pc'[p] = "iput" /\ wback'[p] = wback[p] /\ file'[p] = file[p] /\ op'[p] = op[p]
  BY <1>5 DEF IInv, TypeOK
<1>10. \/ /\ put'[p] = i /\ back'[p] = "scan" /\ want'[p] = MountRoot /\ got'[p] = NULL
          /\ empty'[p] = e /\ want[p] = MountPoint
       \/ /\ put'[p] = e /\ back'[p] = "hit" /\ got'[p] = i /\ empty'[p] = NULL
          /\ want'[p] = want[p]
  BY <1>2, <1>8 DEF IInv, TypeOK, e
<1>11. want[p] = MountPoint => MountRoot \in Inos
  BY <1>3, ConstantsAssumption
<1>12. Others(p)
  BY <1>5, <1>8 DEF IInv, TypeOK, Others
<1>13. TypeOK'
  <2>1. i_count' \in [Inodes -> Nat] /\ ino' \in [Procs -> Inodes \cup {NULL}]
        /\ pc' \in [Procs -> Labels]
    BY <1>5, <1>6 DEF IInv, TypeOK, Labels
  <2>2. /\ put' \in [Procs -> Inodes \cup {NULL}] /\ got' \in [Procs -> Inodes \cup {NULL}]
        /\ empty' \in [Procs -> Inodes \cup {NULL}]
    BY SMTT(60), <1>2, <1>8 DEF IInv, TypeOK
  <2>3. back' \in [Procs -> {"idle", "scan", "hit"}]
    BY <1>8 DEF IInv, TypeOK
  <2>4. want' \in [Procs -> Inos \cup {NoIno}]
    BY <1>8, <1>11 DEF IInv, TypeOK
  <2>5. \A j \in Inodes : i_pipe[j] => i_ident[j] = NoIno /\ i_count'[j] > 0
    BY <1>3, <1>7 DEF IInv, TypeOK
  <2>. QED
    BY <1>5, <2>1, <2>2, <2>3, <2>4, <2>5 DEF IInv, TypeOK
<1>14. FilesFunction'
  BY DEF IInv, FilesFunction
<1>15. LocalInv(p)'
  <2>1. want'[p] \in Inos
    BY <1>3, <1>10, <1>11
  <2>. QED
    BY <1>1, <1>2, <1>3, <1>9, <1>10, <2>1 DEF LocalInv, Putting, AtPut, Taking, Getting
<1>16. \A q \in Procs \ {p} : LocalInv(q)'
  BY <1>12, LocalKept DEF IInv
<1>17. CountInv'
  <2>1. ASSUME NEW j \in Inodes PROVE i_count'[j] = Count(At', j) + Pin(i_ident'[j])
    <3>1. Count(At, j) \in Nat /\ Count(At', j) = Count(At, j) + CallDelta(p, j)
      BY <1>9, <1>12, CountSame DEF IInv
    <3>2. (\A a : Is(a, j) \in {0, 1}) /\ Is(NULL, j) = 0
      BY IsNull DEF Is
    <3>3. CallDelta(p, j) = Is(i, j)
      BY <1>2, <1>10, <3>2 DEF CallDelta, e
    <3>4. i_count'[j] = i_count[j] + Is(i, j)
      <4>1. CASE j = i
        BY <1>7, <4>1 DEF Is, c
      <4>2. CASE j # i
        <5>1. Is(i, j) = 0 /\ i_count[j] \in Nat /\ i_count'[j] = i_count[j]
          BY <1>7, <4>2 DEF Is, IInv, TypeOK
        <5>. QED
          BY <5>1
      <4>. QED
        BY <4>1, <4>2
    <3>5. i_count[j] = Count(At, j) + Pin(i_ident[j]) /\ i_ident'[j] = i_ident[j]
      BY <1>5 DEF IInv, CountInv
    <3>6. Pin(i_ident[j]) \in {0, 1}
      BY DEF Pin
    <3>. QED
      BY <3>1, <3>2, <3>3, <3>4, <3>5, <3>6
  <2>. QED
    BY <2>1 DEF CountInv
<1>18. ASSUME NEW q \in Procs PROVE RefOK(q)'
  <2>1. CASE q # p
    <3>1. RefOK(q) /\ q \in Procs \ {p}
      BY <2>1 DEF IInv
    <3>. QED
      BY <1>4, <1>5, <1>7, <1>12, <3>1, RecountKeeps DEF IInv
  <2>2. CASE q = p
    <3>1. i_count'[e] = 1
      BY <1>2, <1>4, <1>7 DEF e
    <3>2. ~AtPut(p)'
      BY <1>9 DEF AtPut
    <3>. QED
      BY <1>1, <1>2, <1>3, <1>5, <1>9, <1>10, <2>2, <3>1, <3>2 DEF RefOK
  <2>. QED
    BY <2>1, <2>2
<1>19. PinInv'
  BY <1>5 DEF IInv, PinInv
<1>20. UnusedIsClean'
  <2>1. \A j \in Inodes : i_count'[j] = 0 => i_count[j] = 0
    BY <1>6, <1>7 DEF c
  <2>. QED
    BY <1>5, <2>1 DEF IInv, UnusedIsClean
<1>. QED
  BY <1>13, <1>14, <1>15, <1>16, <1>17, <1>18, <1>19, <1>20, Assemble

LEMMA ScanKeeps == ASSUME IInv, NEW p \in Procs, Scan(p) PROVE IInv'
<1>. USE DEF Scan
<1>. DEFINE found == {i \in Inodes : i_ident[i] = want[p]}
<1>1. CASE found = {}
  <2>1. Install(p) /\ UNCHANGED <<i_count, want, putVars>>
    BY <1>1
  <2>2. \A i \in Inodes : i_ident[i] # want[p]
    BY <1>1
  <2>. QED
    BY <2>1, <2>2, InstallKeeps
<1>2. CASE found # {}
  <2>1. PICK i \in Inodes :
          /\ i_ident[i] = want[p]
          /\ IF i_lock[i]
             THEN /\ ino' = [ino EXCEPT ![p] = i]
                  /\ Goto(p, "scan_wait")
                  /\ UNCHANGED <<i_ident, i_count, i_lock, want, got, empty, putVars, wback>>
             ELSE Found(p, i)
    BY <1>2
  <2>2. CASE ~i_lock[i]
    BY <2>1, <2>2, FoundKeeps
  <2>3. CASE i_lock[i]
    <3>1. /\ ino' = [ino EXCEPT ![p] = i] /\ pc' = [pc EXCEPT ![p] = "scan_wait"]
          /\ UNCHANGED <<tableVars, last_inode, fresh, diskVars, callVars, putVars, wback, cursor>>
      BY <2>1, <2>3 DEF Goto, tableVars, callVars
    <3>2. TypeOK'
      BY <3>1 DEF IInv, TypeOK, Labels, tableVars, diskVars, callVars, putVars
    <3>3. Others(p)
      BY <3>1 DEF IInv, TypeOK, Others, callVars, putVars
    <3>4. pc'[p] = "scan_wait" /\ ino'[p] = i /\ LocalInv(p) /\ i # NULL
      BY <3>1 DEF IInv, TypeOK, Inodes, NULL
    <3>5. LocalInv(p)' /\ ~AtPut(p)'
      BY <3>1, <3>4 DEF LocalInv, Putting, AtPut, Taking, Getting, callVars, putVars
    <3>. QED
      BY <3>1, <3>2, <3>3, <3>5, Quiet, Assemble DEF tableVars, diskVars, callVars, putVars
  <2>. QED
    BY <2>2, <2>3
<1>. QED
  BY <1>1, <1>2

LEMMA ScanReadyKeeps == ASSUME IInv, NEW p \in Procs, ScanReady(p) PROVE IInv'
<1>. USE DEF ScanReady
<1>1. LocalInv(p) /\ ino[p] \in Inodes
  BY DEF IInv, LocalInv, TypeOK
<1>2. CASE i_ident[ino[p]] = want[p]
  BY <1>1, <1>2, FoundKeeps
<1>3. CASE i_ident[ino[p]] # want[p]
  <2>1. /\ pc' = [pc EXCEPT ![p] = "scan"]
        /\ UNCHANGED <<tableVars, last_inode, fresh, diskVars, callVars, ino, putVars, wback, cursor>>
    BY <1>3 DEF Goto, tableVars, callVars
  <2>2. TypeOK'
    BY <2>1 DEF IInv, TypeOK, Labels, tableVars, diskVars, callVars, putVars
  <2>3. Others(p)
    BY <2>1 DEF IInv, TypeOK, Others, callVars, putVars
  <2>4. pc'[p] = "scan"
    BY <2>1 DEF IInv, TypeOK
  <2>5. LocalInv(p)' /\ ~AtPut(p)'
    BY <1>1, <2>1, <2>4 DEF LocalInv, Putting, AtPut, Taking, Getting, callVars, putVars
  <2>. QED
    BY <2>1, <2>2, <2>3, <2>5, Quiet, Assemble DEF tableVars, diskVars, callVars, putVars
<1>. QED
  BY <1>2, <1>3

(* new_inode without a free bit puts its empty place back.                 *)
LEMMA NewInodeFails ==
  ASSUME IInv, NEW p \in Procs, pc[p] = "new",
         put' = [put EXCEPT ![p] = empty[p]], empty' = [empty EXCEPT ![p] = NULL],
         Goto(p, "iput"),
         UNCHANGED <<tableVars, fresh, saved, used, got, back, last_inode, d_nlinks, entry, op,
                     want, ino, wback, cursor, file>>
  PROVE  IInv'
<1>. DEFINE e == empty[p]
<1>. USE DEF Goto, tableVars
<1>1. Taking(p) /\ LocalInv(p) /\ RefOK(p)
  BY DEF IInv, Taking
<1>2. e \in Inodes /\ e # NULL /\ got[p] = NULL /\ put[p] = NULL /\ back[p] = "idle"
  BY <1>1, EmptyPlace
<1>3. /\ pc'[p] = "iput" /\ put'[p] = e /\ empty'[p] = NULL /\ got'[p] = NULL
      /\ back'[p] = "idle" /\ file'[p] = file[p] /\ wback'[p] = wback[p]
  BY <1>2 DEF IInv, TypeOK
<1>4. Others(p)
  BY DEF IInv, TypeOK, Others
<1>5. TypeOK'
  BY <1>2 DEF IInv, TypeOK, Labels
<1>6. FilesFunction' /\ PinInv' /\ UnusedIsClean'
  BY DEF IInv, FilesFunction, PinInv, UnusedIsClean
<1>7. LocalInv(p)'
  BY <1>1, <1>2, <1>3 DEF LocalInv, Putting, AtPut, Taking, Getting
<1>8. \A q \in Procs \ {p} : LocalInv(q)'
  BY <1>4, LocalKept DEF IInv
<1>9. CountInv'
  <2>1. ASSUME NEW j \in Inodes PROVE i_count'[j] = Count(At', j) + Pin(i_ident'[j])
    <3>1. Count(At, j) \in Nat /\ Count(At', j) = Count(At, j) + CallDelta(p, j)
      BY <1>3, <1>4, CountSame DEF IInv
    <3>2. CallDelta(p, j) = 0
      <4>1. \A a : Is(a, j) \in {0, 1}
        BY DEF Is
      <4>. QED
        BY <1>2, <1>3, <4>1 DEF CallDelta
    <3>. QED
      BY <3>1, <3>2 DEF IInv, CountInv
  <2>. QED
    BY <2>1 DEF CountInv
<1>10. ASSUME NEW q \in Procs PROVE RefOK(q)'
  <2>1. CASE q # p
    BY <1>4, <2>1, SameKeeps DEF IInv
  <2>2. CASE q = p
    <3>1. ~AtPut(p)'
      BY <1>3 DEF AtPut
    <3>. QED
      BY <1>1, <1>3, <2>2, <3>1 DEF RefOK
  <2>. QED
    BY <2>1, <2>2
<1>. QED
  BY <1>5, <1>6, <1>7, <1>8, <1>9, <1>10, Assemble

(* Or gives it a free inode, which is none of a mount.                     *)
LEMMA NewInodeTakes ==
  ASSUME IInv, NEW p \in Procs, pc[p] = "new", NEW k \in Inos, ~used[k],
         used' = [used EXCEPT ![k] = TRUE],
         i_ident' = [i_ident EXCEPT ![empty[p]] = k],
         fresh' \in [Inodes -> BOOLEAN],
         saved' = [saved EXCEPT ![k] = FALSE],
         i_nlinks' = [i_nlinks EXCEPT ![empty[p]] = 1],
         i_dirt' = [i_dirt EXCEPT ![empty[p]] = TRUE],
         got' = [got EXCEPT ![p] = empty[p]], empty' = [empty EXCEPT ![p] = NULL],
         Goto(p, "hit"),
         UNCHANGED <<i_count, i_lock, i_pipe, last_inode, d_nlinks, entry, op, want, ino,
                     putVars, wback, cursor, file>>
  PROVE  IInv'
<1>. DEFINE e == empty[p]
<1>. USE DEF Goto, putVars
<1>1. Taking(p) /\ LocalInv(p) /\ RefOK(p)
  BY DEF IInv, Taking
<1>2. /\ e \in Inodes /\ e # NULL /\ i_ident[e] = NoIno /\ i_count[e] = 1 /\ ~i_pipe[e]
      /\ (\A q \in Procs \ {p} : NotAt(q, e)) /\ (\A f \in Fds[p] : file[p][f] # e)
      /\ got[p] = NULL /\ put[p] = NULL /\ back[p] = "idle"
  BY <1>1, EmptyPlace
<1>3. k \notin Pinned /\ k # NoIno
  BY ConstantsAssumption DEF IInv, PinInv
<1>4. /\ i_ident' = [i_ident EXCEPT ![e] = k] /\ i_dirt' = [i_dirt EXCEPT ![e] = TRUE]
      /\ i_nlinks' = [i_nlinks EXCEPT ![e] = 1] /\ got' = [got EXCEPT ![p] = e]
      /\ empty' = [empty EXCEPT ![p] = NULL] /\ pc' = [pc EXCEPT ![p] = "hit"]
  OBVIOUS
<1>. HIDE DEF e
<1>5. /\ pc'[p] = "hit" /\ wback'[p] = wback[p] /\ got'[p] = e /\ empty'[p] = NULL
      /\ put'[p] = NULL /\ back'[p] = "idle" /\ file'[p] = file[p]
  BY <1>2, <1>4 DEF IInv, TypeOK
<1>6. Others(p)
  BY <1>4 DEF IInv, TypeOK, Others
<1>7. i_ident'[e] = k /\ \A j \in Inodes \ {e} : i_ident'[j] = i_ident[j] /\ i_dirt'[j] = i_dirt[j]
  BY <1>2, <1>4 DEF IInv, TypeOK
<1>8. TypeOK'
  <2>1. /\ i_ident' \in [Inodes -> Inos \cup {NoIno}] /\ i_dirt' \in [Inodes -> BOOLEAN]
        /\ i_nlinks' \in [Inodes -> {0, 1}]
    <3>1. i_ident \in [Inodes -> Inos \cup {NoIno}] /\ i_dirt \in [Inodes -> BOOLEAN]
          /\ i_nlinks \in [Inodes -> {0, 1}]
      BY DEF IInv, TypeOK
    <3>2. i_ident' \in [Inodes -> Inos \cup {NoIno}]
      BY <1>4, <3>1
    <3>3. i_dirt' \in [Inodes -> BOOLEAN]
      BY <1>4, <3>1
    <3>4. i_nlinks' \in [Inodes -> {0, 1}]
      BY <1>4, <3>1
    <3>. QED
      BY <3>2, <3>3, <3>4
  <2>2. used' \in [Inos -> BOOLEAN] /\ saved' \in [Inos -> BOOLEAN]
    BY DEF IInv, TypeOK
  <2>3. /\ got' \in [Procs -> Inodes \cup {NULL}] /\ empty' \in [Procs -> Inodes \cup {NULL}]
        /\ pc' \in [Procs -> Labels]
    BY <1>2, <1>4 DEF IInv, TypeOK, Labels
  <2>4. \A j \in Inodes : /\ i_dirt'[j] => i_ident'[j] # NoIno
                          /\ i_pipe[j] => i_ident'[j] = NoIno /\ i_count[j] > 0
    BY <1>2, <1>3, <1>7 DEF IInv, TypeOK
  <2>. QED
    BY <2>1, <2>2, <2>3, <2>4 DEF IInv, TypeOK
<1>9. FilesFunction'
  BY DEF IInv, FilesFunction
<1>10. LocalInv(p)'
  BY <1>1, <1>2, <1>5 DEF LocalInv, Putting, AtPut, Taking, Getting
<1>11. \A q \in Procs \ {p} : LocalInv(q)'
  BY <1>6, LocalKept DEF IInv
<1>12. CountInv'
  <2>1. ASSUME NEW j \in Inodes PROVE i_count'[j] = Count(At', j) + Pin(i_ident'[j])
    <3>1. Count(At, j) \in Nat /\ Count(At', j) = Count(At, j) + CallDelta(p, j)
      BY <1>5, <1>6, CountSame DEF IInv
    <3>2. CallDelta(p, j) = 0
      <4>1. \A a : Is(a, j) \in {0, 1}
        BY DEF Is
      <4>. QED
        BY <1>2, <1>5, <4>1 DEF CallDelta, e
    <3>3. Pin(i_ident'[j]) = Pin(i_ident[j])
      BY <1>2, <1>3, <1>7, PinnedInos DEF Pin
    <3>. QED
      BY <3>1, <3>2, <3>3 DEF IInv, CountInv
  <2>. QED
    BY <2>1 DEF CountInv
<1>13. ASSUME NEW q \in Procs PROVE RefOK(q)'
  <2>1. CASE q # p
    <3>1. RefOK(q) /\ q \in Procs \ {p}
      BY <2>1 DEF IInv
    <3>. QED
      BY <1>2, <1>6, <1>7, <3>1, TouchKeeps DEF IInv
  <2>2. CASE q = p
    <3>1. \A f \in Fds[p] : file[p][f] # NULL =>
            file[p][f] \in Inodes /\ i_ident'[file[p][f]] = i_ident[file[p][f]]
      <4>1. \A f \in Fds[p] : file[p][f] \in Inodes \cup {NULL}
        BY DEF IInv, TypeOK
      <4>. QED
        BY <1>2, <1>7, <4>1
    <3>2. \A f \in Fds[p] : file[p][f] # NULL => i_pipe[file[p][f]] \/ i_ident'[file[p][f]] # NoIno
      BY <1>1, <3>1 DEF RefOK
    <3>3. i_ident'[e] # NoIno
      BY <1>3, <1>7
    <3>. QED
      BY <1>5, <2>2, <3>2, <3>3 DEF RefOK
  <2>. QED
    BY <2>1, <2>2
<1>14. PinInv'
  <2>1. \A j \in Pinned : used'[j] = used[j]
    BY <1>3, PinnedInos DEF IInv, TypeOK
  <2>. QED
    BY <1>2, <1>7, <2>1, PinKept, PinnedInos DEF IInv
<1>15. UnusedIsClean'
  <2>1. ASSUME NEW j \in Inodes, i_count[j] = 0 PROVE ~i_dirt'[j] /\ ~i_lock[j] /\ ~i_pipe[j]
    <3>1. j # e
      BY <1>2, <2>1
    <3>. QED
      BY <1>7, <2>1, <3>1 DEF IInv, UnusedIsClean
  <2>. QED
    BY <2>1 DEF UnusedIsClean
<1>. QED
  BY <1>8, <1>9, <1>10, <1>11, <1>12, <1>13, <1>14, <1>15, Assemble

LEMMA NewInodeKeeps == ASSUME IInv, NEW p \in Procs, NewInode(p) PROVE IInv'
<1>. USE DEF NewInode
<1>1. CASE \A k \in Inos : used[k]
  BY <1>1, NewInodeFails DEF tableVars, putVars
<1>2. CASE ~ \A k \in Inos : used[k]
  <2>1. PICK k \in Inos :
          /\ ~used[k]
          /\ used' = [used EXCEPT ![k] = TRUE]
          /\ i_ident' = [i_ident EXCEPT ![empty[p]] = k]
          /\ fresh' = [i \in Inodes |-> i = empty[p] \/ (fresh[i] /\ i_ident[i] # k)]
          /\ saved' = [saved EXCEPT ![k] = FALSE]
    BY <1>2
  <2>2. fresh' \in [Inodes -> BOOLEAN]
    BY <2>1
  <2>. QED
    BY <1>2, <2>1, <2>2, NewInodeTakes
<1>. QED
  BY <1>1, <1>2

-----------------------------------------------------------------------------
(* get_empty_inode.                                                        *)

Times(n, i, j) == IF i = j THEN n ELSE 0

(* A place that is taken loses what it held; nobody referred to it.  What  *)
(* the three ways to take it have in common.                               *)
Cleared(p, i, n, b) ==
  /\ i_ident'[i] = NoIno /\ i_count'[i] = n /\ i_pipe'[i] = b
  /\ \A j \in Inodes \ {i} : /\ i_ident'[j] = i_ident[j] /\ i_count'[j] = i_count[j]
                             /\ i_pipe'[j] = i_pipe[j]
  /\ i_ident' \in [Inodes -> Inos \cup {NoIno}] /\ i_count' \in [Inodes -> Nat]
  /\ i_dirt' \in [Inodes -> BOOLEAN] /\ i_lock' \in [Inodes -> BOOLEAN]
  /\ i_nlinks' \in [Inodes -> {0, 1}] /\ i_pipe' \in [Inodes -> BOOLEAN]
  /\ fresh' \in [Inodes -> BOOLEAN]
  /\ \A j \in Inodes : /\ i_dirt'[j] => i_ident'[j] # NoIno
                       /\ i_pipe'[j] => i_ident'[j] = NoIno /\ i_count'[j] > 0
  /\ \A q \in Procs : NotAt(q, i)
  /\ \A q \in Procs \ {p} : LocalInv(q)' /\ RefOK(q)'
  /\ \A j \in Inodes : i_count'[j] = Count(At, j) + Times(n, i, j) + Pin(i_ident'[j])
  /\ PinInv' /\ UnusedIsClean'

LEMMA ClearKeeps ==
  ASSUME IInv, NEW p \in Procs, NEW i \in Inodes, i_count[i] = 0,
         NEW n \in Nat, NEW b \in BOOLEAN, b => n > 0, Clear(i, n, b), Others(p),
         UNCHANGED used
  PROVE  Cleared(p, i, n, b)
<1>1. i_ident[i] \notin Pinned /\ \A q \in Procs : NotAt(q, i)
  BY NobodyAt DEF IInv
<1>2. /\ i_ident' = [i_ident EXCEPT ![i] = NoIno] /\ i_count' = [i_count EXCEPT ![i] = n]
      /\ i_dirt' = [i_dirt EXCEPT ![i] = FALSE] /\ i_lock' = [i_lock EXCEPT ![i] = FALSE]
      /\ i_nlinks' = [i_nlinks EXCEPT ![i] = 0] /\ i_pipe' = [i_pipe EXCEPT ![i] = b]
      /\ fresh' = [fresh EXCEPT ![i] = FALSE]
  BY DEF Clear
<1>3. /\ i_ident \in [Inodes -> Inos \cup {NoIno}] /\ i_count \in [Inodes -> Nat]
      /\ i_dirt \in [Inodes -> BOOLEAN] /\ i_lock \in [Inodes -> BOOLEAN]
      /\ i_nlinks \in [Inodes -> {0, 1}] /\ i_pipe \in [Inodes -> BOOLEAN]
      /\ fresh \in [Inodes -> BOOLEAN]
  BY DEF IInv, TypeOK
<1>4. /\ i_ident'[i] = NoIno /\ i_count'[i] = n /\ i_pipe'[i] = b /\ ~i_dirt'[i] /\ ~i_lock'[i]
      /\ \A j \in Inodes \ {i} : /\ i_ident'[j] = i_ident[j] /\ i_count'[j] = i_count[j]
                                 /\ i_pipe'[j] = i_pipe[j] /\ i_dirt'[j] = i_dirt[j]
                                 /\ i_lock'[j] = i_lock[j]
  BY <1>2, <1>3
<1>5. /\ i_ident' \in [Inodes -> Inos \cup {NoIno}] /\ i_count' \in [Inodes -> Nat]
      /\ i_dirt' \in [Inodes -> BOOLEAN] /\ i_lock' \in [Inodes -> BOOLEAN]
      /\ i_nlinks' \in [Inodes -> {0, 1}] /\ i_pipe' \in [Inodes -> BOOLEAN]
      /\ fresh' \in [Inodes -> BOOLEAN]
  BY <1>2, <1>3
<1>6. \A j \in Inodes : /\ i_dirt'[j] => i_ident'[j] # NoIno
                        /\ i_pipe'[j] => i_ident'[j] = NoIno /\ i_count'[j] > 0
  <2>1. \A j \in Inodes : /\ i_dirt[j] => i_ident[j] # NoIno
                          /\ i_pipe[j] => i_ident[j] = NoIno /\ i_count[j] > 0
    BY DEF IInv, TypeOK
  <2>. QED
    BY <1>4, <2>1
<1>7. ASSUME NEW q \in Procs \ {p} PROVE LocalInv(q)' /\ RefOK(q)'
  <2>1. LocalInv(q) /\ RefOK(q) /\ NotAt(q, i) /\ TypeOK
    BY <1>1 DEF IInv
  <2>2. LocalInv(q)'
    BY <2>1, LocalKept
  <2>3. RefOK(q)'
    BY <1>4, <2>1, TouchKeeps
  <2>. QED
    BY <2>2, <2>3
<1>8. ASSUME NEW j \in Inodes PROVE i_count'[j] = Count(At, j) + Times(n, i, j) + Pin(i_ident'[j])
  <2>1. Count(At, j) \in Nat
    BY RefsFinite, FS_Subset, CardType DEF Count
  <2>2. i_count[j] = Count(At, j) + Pin(i_ident[j]) /\ Pin(i_ident[j]) \in {0, 1}
    BY DEF IInv, CountInv, Pin
  <2>3. CASE j = i
    <3>1. Pin(i_ident[j]) = 0 /\ Pin(i_ident'[j]) = 0 /\ Times(n, i, j) = n
      BY <1>1, <1>4, <2>3, PinnedInos DEF Pin, Times
    <3>2. Count(At, j) = 0
      BY <2>1, <2>2, <2>3, <3>1
    <3>. QED
      BY <1>4, <2>3, <3>1, <3>2
  <2>4. CASE j # i
    <3>1. Times(n, i, j) = 0 /\ i_count'[j] = i_count[j] /\ i_ident'[j] = i_ident[j]
      BY <1>4, <2>4 DEF Times
    <3>. QED
      BY <2>1, <2>2, <3>1
  <2>. QED
    BY <2>3, <2>4
<1>9. PinInv'
  BY <1>1, <1>4, PinKept DEF IInv
<1>10. UnusedIsClean'
  <2>1. ASSUME NEW j \in Inodes, i_count'[j] = 0 PROVE ~i_dirt'[j] /\ ~i_lock'[j] /\ ~i_pipe'[j]
    <3>1. CASE j = i
      BY <1>4, <1>6, <2>1, <3>1
    <3>2. CASE j # i
      BY <1>4, <2>1, <3>2 DEF IInv, UnusedIsClean
    <3>. QED
      BY <3>1, <3>2
  <2>. QED
    BY <2>1 DEF UnusedIsClean
<1>. QED
  BY <1>1, <1>4, <1>5, <1>6, <1>7, <1>8, <1>9, <1>10 DEF Cleared

(* For iget or new_inode.                                                  *)
LEMMA TakeOneKeeps ==
  ASSUME IInv, NEW p \in Procs, pc[p] = "empty", NEW i \in Inodes, i_count[i] = 0,
         op[p] \in {"iget", "create"}, Clear(i, 1, FALSE), last_inode' \in Inodes,
         ino' = [ino EXCEPT ![p] = NULL], empty' = [empty EXCEPT ![p] = i],
         NEW l \in {"scan", "new"}, l = "scan" => op[p] = "iget", Goto(p, l),
         UNCHANGED <<op, file, wback, diskVars, want, got, putVars, cursor>>
  PROVE  IInv'
<1>. USE DEF Goto, diskVars, putVars
<1>1. LocalInv(p) /\ RefOK(p) /\ i # NULL
  BY DEF IInv, Inodes, NULL
<1>2. put[p] = NULL /\ empty[p] = NULL /\ got[p] = NULL /\ back[p] = "idle"
  BY <1>1 DEF LocalInv, Putting, AtPut, Taking, Getting
<1>3. /\ pc'[p] = l /\ empty'[p] = i /\ put'[p] = NULL /\ got'[p] = NULL /\ back'[p] = "idle"
      /\ wback'[p] = wback[p] /\ file'[p] = file[p] /\ want'[p] = want[p] /\ op'[p] = op[p]
  BY <1>2 DEF IInv, TypeOK
<1>4. Others(p)
  BY DEF IInv, TypeOK, Others
<1>5. /\ i_ident'[i] = NoIno /\ i_count'[i] = 1 /\ i_pipe'[i] = FALSE
      /\ \A j \in Inodes \ {i} : i_ident'[j] = i_ident[j] /\ i_pipe'[j] = i_pipe[j]
      /\ i_ident' \in [Inodes -> Inos \cup {NoIno}] /\ i_count' \in [Inodes -> Nat]
      /\ i_dirt' \in [Inodes -> BOOLEAN] /\ i_lock' \in [Inodes -> BOOLEAN]
      /\ i_nlinks' \in [Inodes -> {0, 1}] /\ i_pipe' \in [Inodes -> BOOLEAN]
      /\ fresh' \in [Inodes -> BOOLEAN]
      /\ \A j \in Inodes : /\ i_dirt'[j] => i_ident'[j] # NoIno
                           /\ i_pipe'[j] => i_ident'[j] = NoIno /\ i_count'[j] > 0
      /\ \A q \in Procs : NotAt(q, i)
      /\ \A q \in Procs \ {p} : LocalInv(q)' /\ RefOK(q)'
      /\ \A j \in Inodes : i_count'[j] = Count(At, j) + Times(1, i, j) + Pin(i_ident'[j])
      /\ PinInv' /\ UnusedIsClean'
  <2>1. UNCHANGED used
    OBVIOUS
  <2>. HIDE DEF Goto, diskVars, putVars
  <2>2. Cleared(p, i, 1, FALSE)
    <3>1. 1 \in Nat /\ FALSE \in BOOLEAN /\ (FALSE => 1 > 0)
      OBVIOUS
    <3>. QED
      BY <1>4, <2>1, <3>1, ClearKeeps, Zenon
  <2>. QED
    BY <2>2 DEF Cleared
<1>6. TypeOK'
  <2>1. /\ ino' \in [Procs -> Inodes \cup {NULL}] /\ empty' \in [Procs -> Inodes \cup {NULL}]
        /\ pc' \in [Procs -> Labels]
    BY DEF IInv, TypeOK, Labels
  <2>. QED
    BY <1>5, <2>1 DEF IInv, TypeOK
<1>7. FilesFunction'
  BY DEF IInv, FilesFunction
<1>8. LocalInv(p)'
  BY <1>1, <1>2, <1>3 DEF LocalInv, Putting, AtPut, Taking, Getting
<1>9. CountInv'
  <2>1. ASSUME NEW j \in Inodes PROVE i_count'[j] = Count(At', j) + Pin(i_ident'[j])
    <3>1. Count(At, j) \in Nat /\ Count(At', j) = Count(At, j) + CallDelta(p, j)
      BY <1>3, <1>4, CountSame DEF IInv
    <3>2. CallDelta(p, j) = Is(i, j)
      <4>1. (\A a : Is(a, j) \in {0, 1}) /\ Is(NULL, j) = 0
        BY IsNull DEF Is
      <4>. QED
        BY <1>2, <1>3, <4>1 DEF CallDelta
    <3>3. i_count'[j] = Count(At, j) + Times(1, i, j) + Pin(i_ident'[j]) /\ Is(i, j) \in {0, 1}
      BY <1>5 DEF Is
    <3>4. Times(1, i, j) = Is(i, j)
      BY DEF Times, Is
    <3>. QED
      BY <3>1, <3>2, <3>3, <3>4
  <2>. QED
    BY <2>1 DEF CountInv
<1>10. RefOK(p)'
  <2>1. \A f \in Fds[p] : file[p][f] # NULL =>
          /\ file[p][f] \in Inodes \ {i}
          /\ i_pipe[file[p][f]] \/ i_ident[file[p][f]] # NoIno
    BY <1>1, <1>5 DEF IInv, TypeOK, NotAt, RefOK
  <2>2. \A f \in Fds[p] : file[p][f] # NULL => i_pipe'[file[p][f]] \/ i_ident'[file[p][f]] # NoIno
    BY <1>5, <2>1
  <2>. QED
    BY <1>3, <1>5, <2>2 DEF RefOK
<1>11. \A q \in Procs : RefOK(q)'
  BY <1>5, <1>10
<1>. QED
  BY <1>5, <1>6, <1>7, <1>8, <1>9, <1>11, Assemble

(* For get_pipe_inode: both ends are in files of the process.              *)
LEMMA TakeBothKeeps ==
  ASSUME IInv, NEW p \in Procs, pc[p] = "empty", NEW i \in Inodes, i_count[i] = 0,
         Clear(i, 2, TRUE), last_inode' \in Inodes,
         NEW f \in Free(p), NEW g \in Free(p), f # g,
         file' = [file EXCEPT ![p][f] = i, ![p][g] = i],
         ino' = [ino EXCEPT ![p] = NULL], op' = [op EXCEPT ![p] = "none"], Goto(p, "idle"),
         UNCHANGED <<empty, wback, diskVars, want, got, putVars, cursor>>
  PROVE  IInv'
<1>. DEFINE x == [file[p] EXCEPT ![f] = i, ![g] = i]
<1>. USE DEF Goto, diskVars, putVars
<1>1. LocalInv(p) /\ RefOK(p) /\ i # NULL
  BY DEF IInv, Inodes, NULL
<1>2. f \in Fds[p] /\ g \in Fds[p] /\ file[p][f] = NULL /\ file[p][g] = NULL
  BY DEF Free
<1>3. put[p] = NULL /\ empty[p] = NULL /\ got[p] = NULL /\ back[p] = "idle"
  BY <1>1 DEF LocalInv, Putting, AtPut, Taking, Getting
<1>4. /\ pc'[p] = "idle" /\ empty'[p] = NULL /\ put'[p] = NULL /\ got'[p] = NULL
      /\ back'[p] = "idle" /\ wback'[p] = wback[p]
  BY <1>3 DEF IInv, TypeOK
<1>5. /\ file'[p] = x /\ (\A q \in Procs \ {p} : file'[q] = file[q])
      /\ FilesFunction' /\ \A q \in Procs : file'[q] \in [Fds[q] -> Inodes \cup {NULL}]
  <2>1. file[p] \in [Fds[p] -> Inodes \cup {NULL}]
    BY DEF IInv, TypeOK
  <2>2. x \in [Fds[p] -> Inodes \cup {NULL}]
    BY <2>1
  <2>3. file = [q \in Procs |-> file[q]]
    BY DEF IInv, FilesFunction
  <2>4. file' = [file EXCEPT ![p] = x]
    BY <2>3
  <2>. HIDE DEF x
  <2>. QED
    BY <2>2, <2>4, FileChange DEF IInv
<1>6. Others(p)
  BY ZenonT(60), <1>5 DEF IInv, TypeOK, Others
<1>7. /\ i_ident'[i] = NoIno /\ i_count'[i] = 2 /\ i_pipe'[i] = TRUE
      /\ \A j \in Inodes \ {i} : i_ident'[j] = i_ident[j] /\ i_pipe'[j] = i_pipe[j]
      /\ i_ident' \in [Inodes -> Inos \cup {NoIno}] /\ i_count' \in [Inodes -> Nat]
      /\ i_dirt' \in [Inodes -> BOOLEAN] /\ i_lock' \in [Inodes -> BOOLEAN]
      /\ i_nlinks' \in [Inodes -> {0, 1}] /\ i_pipe' \in [Inodes -> BOOLEAN]
      /\ fresh' \in [Inodes -> BOOLEAN]
      /\ \A j \in Inodes : /\ i_dirt'[j] => i_ident'[j] # NoIno
                           /\ i_pipe'[j] => i_ident'[j] = NoIno /\ i_count'[j] > 0
      /\ \A q \in Procs : NotAt(q, i)
      /\ \A q \in Procs \ {p} : LocalInv(q)' /\ RefOK(q)'
      /\ \A j \in Inodes : i_count'[j] = Count(At, j) + Times(2, i, j) + Pin(i_ident'[j])
      /\ PinInv' /\ UnusedIsClean'
  <2>1. UNCHANGED used
    OBVIOUS
  <2>. HIDE DEF Goto, diskVars, putVars
  <2>2. Cleared(p, i, 2, TRUE)
    <3>1. 2 \in Nat /\ TRUE \in BOOLEAN /\ (TRUE => 2 > 0)
      OBVIOUS
    <3>. QED
      BY <1>6, <2>1, <3>1, ClearKeeps, Zenon
  <2>. QED
    BY <2>2 DEF Cleared
<1>8. TypeOK'
  <2>1. /\ ino' \in [Procs -> Inodes \cup {NULL}] /\ op' \in [Procs -> OpNames \cup {"none"}]
        /\ pc' \in [Procs -> Labels]
    BY DEF IInv, TypeOK, Labels
  <2>. QED
    BY <1>5, <1>7, <2>1 DEF IInv, TypeOK
<1>9. LocalInv(p)'
  BY <1>1, <1>3, <1>4 DEF LocalInv, Putting, AtPut, Taking, Getting
<1>10. CountInv'
  <2>1. ASSUME NEW j \in Inodes PROVE i_count'[j] = Count(At', j) + Pin(i_ident'[j])
    <3>1. Count(At, j) \in Nat /\ Count(At', j) = Count(At, j) + 2 * Is(i, j)
      <4>1. file'[p] = [file[p] EXCEPT ![f] = i, ![g] = i] /\ UNCHANGED <<empty, got, put>>
        BY <1>5
      <4>. HIDE DEF x
      <4>. QED
        BY ZenonT(60), <1>2, <1>6, <4>1, CountPipe DEF IInv
    <3>2. Times(2, i, j) = 2 * Is(i, j)
      BY DEF Times, Is
    <3>. QED
      BY <1>7, <3>1, <3>2
  <2>. QED
    BY <2>1 DEF CountInv
<1>11. RefOK(p)'
  <2>1. file[p] \in [Fds[p] -> Inodes \cup {NULL}]
    BY DEF IInv, TypeOK
  <2>2. ASSUME NEW h \in Fds[p], file'[p][h] # NULL
        PROVE  i_pipe'[file'[p][h]] \/ i_ident'[file'[p][h]] # NoIno
    <3>1. CASE h = f \/ h = g
      BY <1>5, <1>7, <2>1, <3>1
    <3>2. CASE h # f /\ h # g
      <4>1. file'[p][h] = file[p][h]
        BY <1>5, <2>1, <3>2
      <4>2. file[p][h] \in Inodes \ {i}
        BY <1>7, <2>1, <2>2, <4>1 DEF NotAt
      <4>3. i_pipe[file[p][h]] \/ i_ident[file[p][h]] # NoIno
        BY <1>1, <2>2, <4>1 DEF RefOK
      <4>. QED
        BY <1>7, <4>1, <4>2, <4>3
    <3>. QED
      BY <3>1, <3>2
  <2>. QED
    BY <1>4, <2>2 DEF RefOK
<1>12. \A q \in Procs : RefOK(q)'
  BY <1>7, <1>11
<1>. QED
  BY <1>5, <1>7, <1>8, <1>9, <1>10, <1>12, Assemble

(* Or there is no page for the pipe.                                       *)
LEMMA TakeNoneKeeps ==
  ASSUME IInv, NEW p \in Procs, pc[p] = "empty", NEW i \in Inodes, i_count[i] = 0,
         Clear(i, 0, FALSE), last_inode' \in Inodes,
         ino' = [ino EXCEPT ![p] = NULL], op' = [op EXCEPT ![p] = "none"], Goto(p, "idle"),
         UNCHANGED <<file, empty, wback, diskVars, want, got, putVars, cursor>>
  PROVE  IInv'
<1>. USE DEF Goto, diskVars, putVars
<1>1. LocalInv(p) /\ RefOK(p) /\ i # NULL
  BY DEF IInv, Inodes, NULL
<1>2. put[p] = NULL /\ empty[p] = NULL /\ got[p] = NULL /\ back[p] = "idle"
  BY <1>1 DEF LocalInv, Putting, AtPut, Taking, Getting
<1>3. /\ pc'[p] = "idle" /\ empty'[p] = NULL /\ put'[p] = NULL /\ got'[p] = NULL
      /\ back'[p] = "idle" /\ wback'[p] = wback[p] /\ file'[p] = file[p]
  BY <1>2 DEF IInv, TypeOK
<1>4. Others(p)
  BY DEF IInv, TypeOK, Others
<1>5. /\ \A j \in Inodes \ {i} : i_ident'[j] = i_ident[j] /\ i_pipe'[j] = i_pipe[j]
      /\ i_ident' \in [Inodes -> Inos \cup {NoIno}] /\ i_count' \in [Inodes -> Nat]
      /\ i_dirt' \in [Inodes -> BOOLEAN] /\ i_lock' \in [Inodes -> BOOLEAN]
      /\ i_nlinks' \in [Inodes -> {0, 1}] /\ i_pipe' \in [Inodes -> BOOLEAN]
      /\ fresh' \in [Inodes -> BOOLEAN]
      /\ \A j \in Inodes : /\ i_dirt'[j] => i_ident'[j] # NoIno
                           /\ i_pipe'[j] => i_ident'[j] = NoIno /\ i_count'[j] > 0
      /\ \A q \in Procs : NotAt(q, i)
      /\ \A q \in Procs \ {p} : LocalInv(q)' /\ RefOK(q)'
      /\ \A j \in Inodes : i_count'[j] = Count(At, j) + Times(0, i, j) + Pin(i_ident'[j])
      /\ PinInv' /\ UnusedIsClean'
  <2>1. UNCHANGED used
    OBVIOUS
  <2>. HIDE DEF Goto, diskVars, putVars
  <2>2. Cleared(p, i, 0, FALSE)
    <3>1. 0 \in Nat /\ FALSE \in BOOLEAN /\ (FALSE => 0 > 0)
      OBVIOUS
    <3>. QED
      BY <1>4, <2>1, <3>1, ClearKeeps, Zenon
  <2>. QED
    BY <2>2 DEF Cleared
<1>6. TypeOK'
  <2>1. /\ ino' \in [Procs -> Inodes \cup {NULL}] /\ op' \in [Procs -> OpNames \cup {"none"}]
        /\ pc' \in [Procs -> Labels]
    BY DEF IInv, TypeOK, Labels
  <2>. QED
    BY <1>5, <2>1 DEF IInv, TypeOK
<1>7. FilesFunction'
  BY DEF IInv, FilesFunction
<1>8. LocalInv(p)'
  BY <1>1, <1>2, <1>3 DEF LocalInv, Putting, AtPut, Taking, Getting
<1>9. CountInv'
  <2>1. ASSUME NEW j \in Inodes PROVE i_count'[j] = Count(At', j) + Pin(i_ident'[j])
    <3>1. Count(At, j) \in Nat /\ Count(At', j) = Count(At, j) + CallDelta(p, j)
      BY <1>3, <1>4, CountSame DEF IInv
    <3>2. CallDelta(p, j) = 0 /\ Is(i, j) \in {0, 1}
      BY <1>2, <1>3 DEF CallDelta, Is
    <3>3. Times(0, i, j) = 0
      BY DEF Times
    <3>. QED
      BY <1>5, <3>1, <3>2, <3>3
  <2>. QED
    BY <2>1 DEF CountInv
<1>10. RefOK(p)'
  <2>1. \A f \in Fds[p] : file[p][f] # NULL =>
          /\ file[p][f] \in Inodes \ {i}
          /\ i_pipe[file[p][f]] \/ i_ident[file[p][f]] # NoIno
    BY <1>1, <1>5 DEF IInv, TypeOK, NotAt, RefOK
  <2>2. \A f \in Fds[p] : file[p][f] # NULL => i_pipe'[file[p][f]] \/ i_ident'[file[p][f]] # NoIno
    BY <1>5, <2>1
  <2>. QED
    BY <1>3, <2>2 DEF RefOK
<1>11. \A q \in Procs : RefOK(q)'
  BY <1>5, <1>10
<1>. QED
  BY <1>5, <1>6, <1>7, <1>8, <1>9, <1>11, Assemble

(* get_empty_inode finds a clean, unlocked place in its first round: no    *)
(* place nobody uses is dirty or locked.                                   *)
LEMMA GetEmptyKeeps == ASSUME IInv, NEW p \in Procs, GetEmpty(p) PROVE IInv'
<1>. USE DEF GetEmpty
<1>1. LocalInv(p)
  BY DEF IInv
<1>2. pc[p] = "empty" /\ op[p] \in {"iget", "create", "pipe"}
  BY <1>1 DEF LocalInv
<1>3. CASE Unused = {}
  <2>1. /\ pc' = [pc EXCEPT ![p] = "panic"]
        /\ UNCHANGED <<tableVars, fresh, last_inode, op, ino, wback, empty, file, diskVars, want,
                       got, putVars, cursor>>
    BY <1>2, <1>3 DEF Panic, Goto
  <2>2. TypeOK'
    BY <2>1 DEF IInv, TypeOK, Labels, tableVars, diskVars, putVars
  <2>3. Others(p)
    BY <2>1 DEF IInv, TypeOK, Others, putVars
  <2>4. pc'[p] = "panic"
    BY <2>1 DEF IInv, TypeOK
  <2>5. LocalInv(p)' /\ ~AtPut(p)'
    BY <2>4 DEF LocalInv, AtPut
  <2>. QED
    BY <2>1, <2>2, <2>3, <2>5, Quiet, Assemble DEF tableVars, diskVars, putVars
<1>4. CASE Unused # {}
  <2>1. PICK i \in Inodes :
          /\ RoundEnds(i)
          /\ last_inode' = IF Good # {} THEN i ELSE last_inode
          /\ UseEmpty(p, i)
    BY <1>2, <1>4
  <2>2. Good = Unused
    BY DEF IInv, UnusedIsClean, Good, Unused
  <2>3. i \in Good
    BY <1>4, <2>1, <2>2 DEF RoundEnds
  <2>4. i_count[i] = 0 /\ ~i_dirt[i] /\ ~i_lock[i] /\ TakeEmpty(p, i)
    BY <2>1, <2>3 DEF Good, Unused, UseEmpty
  <2>5. last_inode' \in Inodes /\ UNCHANGED <<diskVars, want, got, putVars, cursor>>
    BY <2>1 DEF IInv, TypeOK
  <2>6. CASE op[p] = "pipe"
    <3>1. /\ ino' = [ino EXCEPT ![p] = NULL] /\ UNCHANGED wback
          /\ op' = [op EXCEPT ![p] = "none"] /\ Goto(p, "idle") /\ UNCHANGED empty
      BY <2>4, <2>6 DEF TakeEmpty, TakePipe
    <3>2. CASE Clear(i, 2, TRUE)
               /\ \E f, g \in Free(p) : f # g /\ file' = [file EXCEPT ![p][f] = i, ![p][g] = i]
      <4>1. PICK f \in Free(p), g \in Free(p) :
              f # g /\ file' = [file EXCEPT ![p][f] = i, ![p][g] = i]
        BY <3>2
      <4>. QED
        BY <1>2, <2>4, <2>5, <3>1, <3>2, <4>1, TakeBothKeeps
    <3>3. CASE Clear(i, 0, FALSE) /\ UNCHANGED file
      BY <1>2, <2>4, <2>5, <3>1, <3>3, TakeNoneKeeps
    <3>. QED
      BY <2>4, <2>6, <3>2, <3>3 DEF TakeEmpty, TakePipe
  <2>7. CASE op[p] # "pipe"
    <3>1. /\ ino' = [ino EXCEPT ![p] = NULL] /\ UNCHANGED wback /\ Clear(i, 1, FALSE)
          /\ empty' = [empty EXCEPT ![p] = i] /\ UNCHANGED <<op, file>>
          /\ Goto(p, IF op[p] = "iget" THEN "scan" ELSE "new")
      BY <2>4, <2>7 DEF TakeEmpty
    <3>2. CASE op[p] = "iget"
      <4>1. Goto(p, "scan")
        BY <3>1, <3>2
      <4>. QED
        BY <1>2, <2>4, <2>5, <3>1, <3>2, <4>1, TakeOneKeeps
    <3>3. CASE op[p] = "create"
      <4>1. Goto(p, "new")
        BY <3>1, <3>3
      <4>. QED
        BY <1>2, <2>4, <2>5, <3>1, <3>3, <4>1, TakeOneKeeps
    <3>. QED
      BY <1>2, <2>7, <3>2, <3>3
  <2>. QED
    BY <2>6, <2>7
<1>. QED
  BY <1>3, <1>4

-----------------------------------------------------------------------------
(* The theorems.                                                           *)

LEMMA InitHolds == Init => IInv
<1>. SUFFICES ASSUME Init PROVE IInv
  OBVIOUS
<1>. USE DEF Init
<1>1. NR_INODE \in Nat /\ 1 \in Inodes /\ 2 \in Inodes
  BY ConstantsAssumption DEF Inodes
<1>2. Pinned = {} \/ (Pinned = {MountPoint, MountRoot} /\ MountPoint \in Inos /\ MountRoot \in Inos)
  BY ConstantsAssumption DEF Pinned
<1>3. \A i \in Inodes : /\ i_ident[i] \in Inos \cup {NoIno}
                        /\ i_ident[i] # NoIno <=> i_ident[i] \in Pinned
                        /\ i_count[i] = Pin(i_ident[i])
                        /\ i_count[i] \in {0, 1}
  <2>1. ASSUME NEW i \in Inodes
        PROVE  /\ i_ident[i] \in Inos \cup {NoIno}
               /\ i_ident[i] # NoIno <=> i_ident[i] \in Pinned
    <3>1. CASE Pinned = {}
      BY <3>1
    <3>2. CASE Pinned # {}
      BY <1>2, <3>2, PinnedInos
    <3>. QED
      BY <3>1, <3>2
  <2>2. ASSUME NEW i \in Inodes
        PROVE  i_count[i] = Pin(i_ident[i]) /\ i_count[i] \in {0, 1}
    <3>1. i_count[i] = IF i_ident[i] = NoIno THEN 0 ELSE 1
      OBVIOUS
    <3>. QED
      BY <2>1, <3>1 DEF Pin
  <2>. QED
    BY <2>1, <2>2
<1>4. \A p \in Procs : /\ file[p] = [f \in Fds[p] |-> NULL]
                       /\ empty[p] = NULL /\ got[p] = NULL /\ put[p] = NULL
  OBVIOUS
<1>5. TypeOK
  <2>1. i_ident \in [Inodes -> Inos \cup {NoIno}]
    BY <1>3
  <2>2. i_count \in [Inodes -> Nat] /\ i_nlinks \in [Inodes -> {0, 1}]
    BY <1>3
  <2>3. /\ i_dirt \in [Inodes -> BOOLEAN] /\ i_lock \in [Inodes -> BOOLEAN]
        /\ i_pipe \in [Inodes -> BOOLEAN] /\ fresh \in [Inodes -> BOOLEAN]
        /\ last_inode \in Inodes /\ \A i \in Inodes : ~i_dirt[i] /\ ~i_pipe[i]
    BY <1>1
  <2>4. /\ saved \in [Inos -> BOOLEAN] /\ d_nlinks \in [Inos -> {0, 1}]
        /\ used \in [Inos -> BOOLEAN] /\ entry \in [Inos -> BOOLEAN]
    OBVIOUS
  <2>5. /\ pc \in [Procs -> Labels] /\ op \in [Procs -> OpNames \cup {"none"}]
        /\ want \in [Procs -> Inos \cup {NoIno}]
        /\ ino \in [Procs -> Inodes \cup {NULL}] /\ empty \in [Procs -> Inodes \cup {NULL}]
        /\ got \in [Procs -> Inodes \cup {NULL}] /\ put \in [Procs -> Inodes \cup {NULL}]
        /\ back \in [Procs -> {"idle", "scan", "hit"}]
        /\ wback \in [Procs -> {"idle", "empty_wait", "repeat", "sync", "sync_dev", "hit"}]
    BY DEF Labels
  <2>6. cursor \in [Procs -> 1..(NR_INODE + 1)]
    BY <1>1
  <2>7. \A p \in Procs : file[p] \in [Fds[p] -> Inodes \cup {NULL}]
    BY <1>4
  <2>. HIDE DEF Init
  <2>. QED
    BY <2>1, <2>2, <2>3, <2>4, <2>5, <2>6, <2>7 DEF TypeOK
<1>6. FilesFunction
  BY DEF FilesFunction
<1>7. \A p \in Procs : LocalInv(p) /\ RefOK(p)
  BY <1>4 DEF LocalInv, RefOK, Putting, AtPut, Taking, Getting
<1>8. CountInv
  <2>1. ASSUME NEW r \in References PROVE At[r] = NULL
    <3>1. CASE r.kind \in Kinds
      <4>1. r.by \in Procs /\ r = Ref(r.kind, r.by) /\ r.kind \in {"empty", "got", "put"}
        BY <3>1, RefsAre DEF Kinds
      <4>2. empty[r.by] = NULL /\ got[r.by] = NULL /\ put[r.by] = NULL
        BY <1>4, <4>1
      <4>. HIDE DEF Init
      <4>. QED
        BY <4>1, <4>2, AtValues
    <3>2. CASE r.kind = "file"
      <4>1. r.by \in Procs /\ r.fd \in Fds[r.by] /\ r = FileRef(r.by, r.fd)
        BY <3>2, RefsAre
      <4>2. file[r.by][r.fd] = NULL
        BY <1>4, <4>1
      <4>. HIDE DEF Init
      <4>. QED
        BY <4>1, <4>2, AtValues
    <3>. QED
      BY <3>1, <3>2, RefsAre
  <2>2. ASSUME NEW i \in Inodes PROVE i_count[i] = Count(At, i) + Pin(i_ident[i])
    <3>1. i # NULL
      BY DEF Inodes, NULL
    <3>2. {r \in References : At[r] = i} = {}
      BY <2>1, <3>1
    <3>3. Count(At, i) = 0
      BY <3>2, FS_EmptySet DEF Count
    <3>. QED
      BY <1>3, <3>3
  <2>. QED
    BY <2>2 DEF CountInv
<1>9. PinInv
  <2>1. ASSUME NEW k \in Pinned PROVE used[k] /\ \E i \in Inodes : i_ident[i] = k
    <3>1. used[k]
      BY PinnedInos
    <3>2. k = MountPoint \/ k = MountRoot
      BY <1>2
    <3>3. i_ident[1] = MountPoint /\ i_ident[2] = MountRoot
      BY <1>1
    <3>. QED
      BY <1>1, <3>1, <3>2, <3>3
  <2>. QED
    BY <2>1 DEF PinInv
<1>10. UnusedIsClean
  BY DEF UnusedIsClean
<1>. QED
  BY <1>5, <1>6, <1>7, <1>8, <1>9, <1>10 DEF IInv

LEMMA StutterKeeps == ASSUME IInv, UNCHANGED vars PROVE IInv'
<1>. USE DEF vars, tableVars, diskVars, callVars, putVars, procVars
<1>1. TypeOK'
  BY DEF IInv, TypeOK
<1>2. FilesFunction' /\ PinInv' /\ UnusedIsClean'
  BY DEF IInv, FilesFunction, PinInv, UnusedIsClean
<1>3. \A p \in Procs : LocalInv(p)' /\ RefOK(p)'
  BY DEF IInv, LocalInv, RefOK, Putting, AtPut, Taking, Getting
<1>4. CountInv'
  <2>1. At' = At
    BY DEF At, Place
  <2>. QED
    BY <2>1 DEF IInv, CountInv, Count
<1>. QED
  BY <1>1, <1>2, <1>3, <1>4 DEF IInv

LEMMA NextKeeps == IInv /\ [Next]_vars => IInv'
<1>. SUFFICES ASSUME IInv, [Next]_vars PROVE IInv'
  OBVIOUS
<1>1. CASE UNCHANGED vars
  BY <1>1, StutterKeeps
<1>2. ASSUME NEW p \in Procs, Call(p) PROVE IInv'
  BY <1>2, CallIgetKeeps, CallNewKeeps, CallIputKeeps, CallUnlinkKeeps, CallSyncKeeps DEF Call
<1>3. ASSUME NEW p \in Procs, Modify(p) PROVE IInv'
  BY <1>3, ModifyKeeps
<1>4. ASSUME NEW p \in Procs, Continue(p) PROVE IInv'
  BY <1>4, UnlinkedKeeps, WriteCopyKeeps, ReadCopyKeeps, UnlockKeeps, SyncInodesKeeps,
     GetEmptyKeeps, ScanKeeps, ScanReadyKeeps, NewInodeKeeps, HitKeeps, IputKeeps,
     RepeatKeeps, FreeInodeKeeps DEF Continue
<1>. QED
  BY <1>1, <1>2, <1>3, <1>4 DEF Next

(* The invariant: the counts, what the places referred to are, and what    *)
(* the locals of each process hold at the label it sleeps at.              *)
THEOREM IInvCorrect == Spec => []IInv
<1>1. Init => IInv
  BY InitHolds
<1>2. IInv /\ [Next]_vars => IInv'
  BY NextKeeps
<1>. QED
  BY <1>1, <1>2, PTL DEF Spec

(* Every variable keeps its type, and a place without identity is clean,   *)
(* so that write_inode (inode.c 280) writes all it is called for.          *)
THEOREM TypeCorrect == Spec => []TypeOK
<1>1. IInv => TypeOK
  BY DEF IInv
<1>. QED
  BY <1>1, IInvCorrect, PTL

(* iget, iput, new_inode and get_pipe_inode keep i_count equal to the      *)
(* number of files, calls and mounts that refer to the place, whatever the *)
(* processes do while another sleeps (inode.c 124 and 211).                *)
THEOREM RefCountCorrect == Spec => []RefCount
<1>1. IInv => RefCount
  <2>1. SUFFICES ASSUME IInv, NEW i \in Inodes
                 PROVE  i_count[i] = Cardinality({r \in References : Place(r) = i})
                                     + (IF i_ident[i] \in Pinned THEN 1 ELSE 0)
    BY DEF RefCount
  <2>2. {r \in References : Place(r) = i} = {r \in References : At[r] = i}
    BY DEF At
  <2>3. i_count[i] = Count(At, i) + Pin(i_ident[i])
    BY <2>1 DEF IInv, CountInv
  <2>. QED
    BY <2>2, <2>3 DEF Count, Pin
<1>. QED
  BY <1>1, IInvCorrect, PTL

(* A place that nobody uses is clean, unlocked and no pipe: the wait and   *)
(* the write of get_empty_inode (inode.c 166) never happen, and its        *)
(* memset destroys nothing.                                                *)
THEOREM UnusedIsCleanCorrect == Spec => []UnusedIsClean
<1>1. IInv => UnusedIsClean
  BY DEF IInv
<1>. QED
  BY <1>1, IInvCorrect, PTL
-----------------------------------------------------------------------------
(* The identity of a place.                                                *)

Locking(p) == pc[p] \in {"read", "write", "unlock"}
BeingRead(i) == \E p \in Procs : pc[p] = "read" /\ ino[p] = i
Creating(p) == pc[p] = "hit" /\ op[p] = "create"

(* What a process is doing, and what follows for the inode it does it to.  *)
OpInv(p) ==
  /\ pc[p] \in {"scan", "scan_wait", "read"} \/ wback[p] = "hit" \/ back[p] \in {"scan", "hit"}
       => op[p] = "iget"
  /\ wback[p] = "hit" => pc[p] \in {"read", "unlock"}
  /\ pc[p] = "new" => op[p] = "create"
  /\ pc[p] = "hit" => op[p] \in {"iget", "create"}

SeekInv(p) == Seeks(p) => used[want[p]]
LockInv(p) == Locking(p) => i_lock[Subject(p)] /\ i_ident[Subject(p)] # NoIno
ReadInv(p) == pc[p] = "read" => ~i_dirt[ino[p]] /\ i_count[ino[p]] = 1 /\ saved[i_ident[ino[p]]]
UnlinkInv(p) == pc[p] = "unlink" => ~entry[i_ident[put[p]]]
CreateInv(p) == Creating(p) =>
  /\ i_nlinks[got[p]] = 1 /\ i_count[got[p]] = 1 /\ ~entry[i_ident[got[p]]]
  /\ \A q \in Procs : Seeks(q) => want[q] # i_ident[got[p]]
FreeInv(p) == pc[p] = "truncate" => i_count[put[p]] = 1 /\ i_nlinks[put[p]] = 0

CallInv(p) ==
  /\ OpInv(p) /\ SeekInv(p) /\ LockInv(p) /\ ReadInv(p)
  /\ UnlinkInv(p) /\ CreateInv(p) /\ FreeInv(p)

LocksApart ==
  \A p, q \in Procs : p # q /\ Locking(p) /\ Locking(q) => Subject(p) # Subject(q)

(* A place that has been read holds what was last written to its inode; it *)
(* is clean only if the block has the same, and without link only if no    *)
(* directory names the inode.                                              *)
PlaceInv(i) ==
  /\ i_lock[i] => i_ident[i] # NoIno
  /\ i_ident[i] # NoIno =>
       /\ used[i_ident[i]]
       /\ ~BeingRead(i) =>
            /\ fresh[i]
            /\ i_nlinks[i] = 0 => ~entry[i_ident[i]]
            /\ ~i_dirt[i] => i_nlinks[i] = d_nlinks[i_ident[i]]

DirtyPlace(k) == \E i \in Inodes : i_ident[i] = k /\ i_dirt[i]

DiskInv(k) ==
  /\ entry[k] => used[k]
  /\ used[k] /\ ~saved[k] => DirtyPlace(k)
  /\ entry[k] /\ d_nlinks[k] = 0 => DirtyPlace(k)

UInv ==
  /\ UniqueInode /\ LocksApart /\ (\A p \in Procs : CallInv(p))
  /\ (\A i \in Inodes : PlaceInv(i)) /\ (\A k \in Inos : DiskInv(k))

(* A place that only process q refers to.                                  *)
OnlyAt(q, x) ==
  /\ x \in Inodes /\ i_ident[x] \in Inos /\ i_ident[x] # NoIno /\ i_ident[x] \notin Pinned
  /\ i_count[x] = 1 /\ \A p \in Procs \ {q} : NotAt(p, x)

LEMMA OnlyHis ==
  ASSUME IInv, UInv, NEW q \in Procs
  PROVE  /\ pc[q] = "read" => OnlyAt(q, ino[q]) /\ ino[q] = got[q]
         /\ Creating(q) => OnlyAt(q, got[q])
         /\ pc[q] = "truncate" => OnlyAt(q, put[q])
<1>1. LocalInv(q) /\ RefOK(q) /\ CallInv(q) /\ TypeOK /\ CountInv
  BY DEF IInv, UInv
<1>2. At[Ref("got", q)] = got[q] /\ At[Ref("put", q)] = put[q]
  BY AtValues
<1>3. ASSUME got[q] # NULL, i_count[got[q]] = 1 PROVE OnlyAt(q, got[q])
  <2>1. i_ident[got[q]] # NoIno
    BY <1>1, <1>3 DEF RefOK
  <2>2. /\ got[q] \in Inodes /\ i_ident[got[q]] \notin Pinned
        /\ \A p \in Procs \ {q} : NotAt(p, got[q])
    BY <1>1, <1>2, <1>3, OnlyOne DEF Kinds
  <2>. QED
    BY <1>1, <1>3, <2>1, <2>2 DEF OnlyAt, TypeOK
<1>4. CASE pc[q] = "read"
  BY <1>1, <1>3, <1>4 DEF LocalInv, Getting, CallInv, ReadInv, Creating
<1>5. CASE Creating(q)
  BY <1>1, <1>3, <1>5 DEF LocalInv, Getting, CallInv, CreateInv, Creating
<1>6. CASE pc[q] = "truncate"
  <2>1. put[q] # NULL /\ AtPut(q)
    BY <1>1, <1>6 DEF LocalInv, Putting, AtPut
  <2>2. i_ident[put[q]] # NoIno /\ i_count[put[q]] = 1
    BY <1>1, <1>6, <2>1 DEF RefOK, CallInv, FreeInv
  <2>3. /\ put[q] \in Inodes /\ i_ident[put[q]] \notin Pinned
        /\ \A p \in Procs \ {q} : NotAt(p, put[q])
    BY <1>1, <1>2, <2>1, <2>2, OnlyOne DEF Kinds
  <2>4. OnlyAt(q, put[q])
    BY <1>1, <2>2, <2>3 DEF OnlyAt, TypeOK
  <2>. QED
    BY <1>6, <2>4 DEF Creating
<1>. QED
  BY <1>4, <1>5, <1>6

LEMMA SubjectIs ==
  ASSUME IInv, NEW q \in Procs, Locking(q)
  PROVE  Subject(q) \in Inodes /\ (pc[q] = "read" => Subject(q) = ino[q])
<1>1. CASE pc[q] = "read"
  <2>1. wback[q] = "hit" /\ ino[q] = got[q] /\ got[q] # NULL
    BY <1>1 DEF IInv, LocalInv, Getting
  <2>. QED
    BY <1>1, <2>1, CallPlace DEF Subject
<1>2. CASE pc[q] # "read"
  BY <1>2, SubjectPlace DEF Locking
<1>. QED
  BY <1>1, <1>2

LEMMA UnlinkPlace ==
  ASSUME IInv, NEW q \in Procs, pc[q] = "unlink"
  PROVE  put[q] \in Inodes /\ i_ident[put[q]] \in Inos /\ i_ident[put[q]] # NoIno
         /\ i_count[put[q]] >= 1
<1>1. LocalInv(q) /\ RefOK(q)
  BY DEF IInv
<1>2. put[q] # NULL /\ AtPut(q)
  BY <1>1 DEF LocalInv, Putting, AtPut
<1>. QED
  BY <1>1, <1>2, CallPlace DEF RefOK, IInv, TypeOK

(* What a step of p may do to the places and the inodes that others deal   *)
(* with: x is the place whose count, identity or links it changes.         *)
Touches(p, x) ==
  \/ x = NULL
  \/ x \in Inodes /\ i_count[x] = 0
  \/ x \in Inodes /\ ~NotAt(p, x)
  \/ x \in Inodes /\ ~i_lock[x] /\ Seeks(p) /\ want[p] = i_ident[x]

Gentle(p, x) ==
  /\ Others(p)
  /\ Touches(p, x)
  /\ \A i \in Inodes \ {x} : /\ i_ident'[i] = i_ident[i] /\ i_count'[i] = i_count[i]
                             /\ i_nlinks'[i] = i_nlinks[i]
  /\ x \in Inodes /\ i_ident'[x] # i_ident[x] =>
       i_count[x] = 0 \/ i_ident[x] = NoIno \/ OnlyAt(p, x)
  /\ \A i \in Inodes : /\ i_dirt'[i] => i_dirt[i] \/ ~NotAt(p, i)
                       /\ i_lock[i] => i_lock'[i] \/ (Locking(p) /\ Subject(p) = i)
                       /\ i_lock[i] /\ i_ident[i] # NoIno => i_ident'[i] = i_ident[i]
  /\ \A q \in Procs \ {p} : pc[q] = "read" => saved'[i_ident[ino[q]]]
  /\ \A k \in Inos : entry'[k] => entry[k] \/ (OnlyAt(p, got[p]) /\ i_ident[got[p]] = k)
  /\ \A k \in Inos : used[k] /\ ~used'[k] => \A q \in Procs : Seeks(q) => want[q] # k
  /\ Seeks(p)' => \/ Seeks(p) /\ want'[p] = want[p]
                  \/ want'[p] \in Inos /\ entry[want'[p]]
                  \/ want'[p] \in Pinned

LEMMA SeeksInos ==
  ASSUME IInv, NEW q \in Procs, pc[q] # "panic", Seeks(q) PROVE want[q] \in Inos
<1>1. LocalInv(q)
  BY DEF IInv
<1>. QED
  BY <1>1 DEF Seeks, LocalInv

(* The place that a process alone refers to is not touched by another.     *)
LEMMA Untouched ==
  ASSUME IInv, UInv, FreedAlone, NEW p \in Procs, NEW x, Gentle(p, x),
         NEW q \in Procs \ {p}, NEW y, OnlyAt(q, y),
         i_lock[y] \/ \A s \in Procs : Seeks(s) => want[s] # i_ident[y]
  PROVE  /\ i_ident'[y] = i_ident[y] /\ i_count'[y] = i_count[y]
         /\ i_nlinks'[y] = i_nlinks[y] /\ (i_dirt'[y] => i_dirt[y])
<1>1. NotAt(p, y) /\ y \in Inodes /\ i_count[y] = 1
  BY DEF OnlyAt
<1>2. y # x
  BY <1>1 DEF Gentle, Touches, Inodes, NULL
<1>. QED
  BY <1>1, <1>2 DEF Gentle

LEMMA OthersKeep ==
  ASSUME IInv, UInv, FreedAlone, Running, NEW p \in Procs, NEW x, Gentle(p, x),
         NEW q \in Procs \ {p}
  PROVE  CallInv(q)'
<1>1. CallInv(q) /\ UniqueInode /\ LocksApart
  BY DEF UInv
<1>2. /\ pc'[q] = pc[q] /\ op'[q] = op[q] /\ want'[q] = want[q] /\ ino'[q] = ino[q]
      /\ back'[q] = back[q] /\ wback'[q] = wback[q] /\ got'[q] = got[q] /\ put'[q] = put[q]
  BY DEF Gentle, Others
<1>3. OpInv(q)'
  BY <1>1, <1>2 DEF CallInv, OpInv
<1>4. SeekInv(q)'
  <2>1. SUFFICES ASSUME Seeks(q) PROVE used'[want[q]]
    BY <1>2 DEF SeekInv, Seeks
  <2>2. want[q] \in Inos /\ used[want[q]]
    BY <1>1, <2>1, SeeksInos DEF CallInv, SeekInv, Running
  <2>. QED
    BY <2>1, <2>2 DEF Gentle
<1>5. LockInv(q)'
  <2>1. SUFFICES ASSUME Locking(q) PROVE i_lock'[Subject(q)] /\ i_ident'[Subject(q)] # NoIno
    BY <1>2 DEF LockInv, Locking, Subject
  <2>2. i_lock[Subject(q)] /\ i_ident[Subject(q)] # NoIno /\ Subject(q) \in Inodes
    BY <1>1, <2>1, SubjectIs DEF CallInv, LockInv
  <2>3. ~(Locking(p) /\ Subject(p) = Subject(q))
    BY <1>1, <2>1 DEF LocksApart
  <2>. QED
    BY <2>2, <2>3 DEF Gentle
<1>6. ReadInv(q)'
  <2>1. SUFFICES ASSUME pc[q] = "read"
                 PROVE ~i_dirt'[ino[q]] /\ i_count'[ino[q]] = 1 /\ saved'[i_ident'[ino[q]]]
    BY <1>2 DEF ReadInv
  <2>2. OnlyAt(q, ino[q]) /\ i_lock[ino[q]] /\ ~i_dirt[ino[q]] /\ i_count[ino[q]] = 1
    BY <1>1, <2>1, OnlyHis, SubjectIs DEF CallInv, LockInv, ReadInv, Locking
  <2>3. /\ i_ident'[ino[q]] = i_ident[ino[q]] /\ i_count'[ino[q]] = i_count[ino[q]]
        /\ ~i_dirt'[ino[q]]
    BY <2>2, Untouched
  <2>. QED
    BY <2>1, <2>2, <2>3 DEF Gentle
<1>7. UnlinkInv(q)'
  <2>1. SUFFICES ASSUME pc[q] = "unlink" PROVE ~entry'[i_ident'[put[q]]]
    BY <1>2 DEF UnlinkInv
  <2>2. /\ put[q] \in Inodes /\ i_ident[put[q]] \in Inos /\ i_ident[put[q]] # NoIno
        /\ ~entry[i_ident[put[q]]]
    BY <1>1, <2>1, UnlinkPlace DEF CallInv, UnlinkInv
  <2>3. i_ident'[put[q]] = i_ident[put[q]]
    <3>1. CASE put[q] = x /\ i_ident'[x] # i_ident[x]
      <4>1. OnlyAt(p, x)
        BY <2>1, <2>2, <3>1, UnlinkPlace DEF Gentle, IInv, TypeOK
      <4>. QED
        BY <3>1, <4>1 DEF OnlyAt, NotAt
    <3>. QED
      BY <2>2, <3>1 DEF Gentle
  <2>4. ~(OnlyAt(p, got[p]) /\ i_ident[got[p]] = i_ident[put[q]])
    <3>1. SUFFICES ASSUME OnlyAt(p, got[p]), i_ident[got[p]] = i_ident[put[q]] PROVE FALSE
      OBVIOUS
    <3>2. got[p] = put[q]
      BY <1>1, <2>2, <3>1 DEF UniqueInode, OnlyAt
    <3>. QED
      BY <3>1, <3>2 DEF OnlyAt, NotAt
  <2>. QED
    BY <2>2, <2>3, <2>4 DEF Gentle
<1>8. CreateInv(q)'
  <2>1. SUFFICES ASSUME Creating(q)
                 PROVE  /\ i_nlinks'[got[q]] = 1 /\ i_count'[got[q]] = 1
                        /\ ~entry'[i_ident'[got[q]]]
                        /\ \A s \in Procs : Seeks(s)' => want'[s] # i_ident'[got[q]]
    BY <1>2 DEF CreateInv, Creating
  <2>2. /\ i_nlinks[got[q]] = 1 /\ i_count[got[q]] = 1 /\ ~entry[i_ident[got[q]]]
        /\ \A s \in Procs : Seeks(s) => want[s] # i_ident[got[q]]
        /\ OnlyAt(q, got[q])
    BY <1>1, <2>1, OnlyHis DEF CallInv, CreateInv
  <2>3. /\ i_ident'[got[q]] = i_ident[got[q]] /\ i_count'[got[q]] = i_count[got[q]]
        /\ i_nlinks'[got[q]] = i_nlinks[got[q]]
    BY <2>2, Untouched
  <2>4. ~(OnlyAt(p, got[p]) /\ i_ident[got[p]] = i_ident[got[q]])
    <3>1. SUFFICES ASSUME OnlyAt(p, got[p]), i_ident[got[p]] = i_ident[got[q]] PROVE FALSE
      OBVIOUS
    <3>2. got[p] = got[q]
      BY <1>1, <2>2, <3>1 DEF UniqueInode, OnlyAt
    <3>. QED
      BY <3>1, <3>2 DEF OnlyAt, NotAt
  <2>5. ~entry'[i_ident[got[q]]]
    BY <2>2, <2>4 DEF Gentle, OnlyAt
  <2>6. ASSUME NEW s \in Procs, Seeks(s)' PROVE want'[s] # i_ident[got[q]]
    <3>1. CASE s = p
      BY <2>2, <2>6, <3>1 DEF Gentle, OnlyAt
    <3>2. CASE s # p
      <4>1. pc'[s] = pc[s] /\ op'[s] = op[s] /\ want'[s] = want[s] /\ back'[s] = back[s]
        BY <3>2 DEF Gentle, Others
      <4>2. Seeks(s)
        BY <2>6, <4>1 DEF Seeks
      <4>. QED
        BY <2>2, <4>1, <4>2
    <3>. QED
      BY <3>1, <3>2
  <2>. QED
    BY <2>2, <2>3, <2>5, <2>6
<1>9. FreeInv(q)'
  <2>1. SUFFICES ASSUME pc[q] = "truncate" PROVE i_count'[put[q]] = 1 /\ i_nlinks'[put[q]] = 0
    BY <1>2 DEF FreeInv
  <2>2. /\ OnlyAt(q, put[q]) /\ i_count[put[q]] = 1 /\ i_nlinks[put[q]] = 0
        /\ \A s \in Procs : Seeks(s) => want[s] # i_ident[put[q]]
    BY <1>1, <2>1, OnlyHis DEF CallInv, FreeInv, FreedAlone
  <2>. QED
    BY <2>2, Untouched
<1>. QED
  BY <1>3, <1>4, <1>5, <1>6, <1>7, <1>8, <1>9 DEF CallInv

LEMMA ApartKept ==
  ASSUME IInv, UInv, NEW p \in Procs, Others(p),
         Locking(p)' => \/ Locking(p) /\ Subject(p)' = Subject(p)
                        \/ ~i_lock[Subject(p)']
  PROVE  LocksApart'
<1>1. ASSUME NEW q \in Procs \ {p}, Locking(q)'
      PROVE  Locking(q) /\ Subject(q)' = Subject(q) /\ i_lock[Subject(q)]
  <2>1. Locking(q) /\ Subject(q)' = Subject(q)
    BY <1>1 DEF Others, Locking, Subject
  <2>. QED
    BY <2>1 DEF UInv, CallInv, LockInv
<1>2. ASSUME NEW q \in Procs \ {p}, Locking(q)', Locking(p)'
      PROVE  Subject(p)' # Subject(q)'
  BY <1>1, <1>2 DEF UInv, LocksApart
<1>3. ASSUME NEW r \in Procs, NEW q \in Procs, r # q, Locking(r)', Locking(q)'
      PROVE  Subject(r)' # Subject(q)'
  <2>1. CASE r # p /\ q # p
    BY <1>1, <1>3, <2>1 DEF UInv, LocksApart
  <2>. QED
    BY <1>2, <1>3, <2>1
<1>. QED
  BY <1>3 DEF LocksApart

LEMMA Rest ==
  ASSUME IInv, UInv, FreedAlone, Running, NEW p \in Procs, NEW x, Gentle(p, x), CallInv(p)',
         Locking(p)' => \/ Locking(p) /\ Subject(p)' = Subject(p)
                        \/ ~i_lock[Subject(p)'],
         UniqueInode', \A i \in Inodes : PlaceInv(i)', \A k \in Inos : DiskInv(k)'
  PROVE  UInv'
<1>1. \A q \in Procs : CallInv(q)'
  BY OthersKeep
<1>2. LocksApart'
  BY ApartKept DEF Gentle
<1>. QED
  BY <1>1, <1>2 DEF UInv

(* A step that gives no place another inode and writes nothing.            *)
LEMMA TableKept ==
  ASSUME IInv, UInv, NEW p \in Procs, Others(p), pc[p] # "read",
         UNCHANGED <<i_ident, i_nlinks, fresh, saved, d_nlinks, used>>,
         \A k \in Inos : entry'[k] => entry[k],
         \A i \in Inodes : /\ i_ident[i] # NoIno => i_dirt'[i] = i_dirt[i]
                           /\ i_lock'[i] => i_lock[i] \/ i_ident[i] # NoIno
  PROVE  UniqueInode' /\ (\A i \in Inodes : PlaceInv(i)') /\ (\A k \in Inos : DiskInv(k)')
<1>1. UniqueInode'
  BY DEF UInv, UniqueInode
<1>2. ASSUME NEW i \in Inodes PROVE PlaceInv(i)'
  <2>1. PlaceInv(i) /\ i_ident[i] \in Inos \cup {NoIno}
    BY DEF UInv, IInv, TypeOK
  <2>2. BeingRead(i) => BeingRead(i)'
    BY DEF BeingRead, Others
  <2>. QED
    BY <2>1, <2>2 DEF PlaceInv
<1>3. ASSUME NEW k \in Inos PROVE DiskInv(k)'
  <2>1. DiskInv(k)
    BY DEF UInv
  <2>2. DirtyPlace(k) => DirtyPlace(k)'
    BY ConstantsAssumption DEF DirtyPlace
  <2>. QED
    BY <2>1, <2>2 DEF DiskInv
<1>. QED
  BY <1>1, <1>2, <1>3

Calm(p) ==
  /\ Others(p) /\ pc[p] # "read"
  /\ UNCHANGED <<i_ident, i_nlinks, fresh, saved, d_nlinks, used>>
  /\ \A k \in Inos : entry'[k] => entry[k]
  /\ \A i \in Inodes : /\ i_ident[i] # NoIno => i_dirt'[i] = i_dirt[i]
                       /\ i_dirt'[i] => i_dirt[i]
                       /\ i_lock[i] => i_lock'[i] \/ (Locking(p) /\ Subject(p) = i)
                       /\ i_lock'[i] => i_lock[i] \/ i_ident[i] # NoIno
  /\ Seeks(p)' => \/ Seeks(p) /\ want'[p] = want[p]
                  \/ want'[p] \in Inos /\ entry[want'[p]]
                  \/ want'[p] \in Pinned
  /\ Locking(p)' => \/ Locking(p) /\ Subject(p)' = Subject(p) /\ i_lock'[Subject(p)]
                    \/ /\ ~i_lock[Subject(p)'] /\ i_lock'[Subject(p)']
                       /\ i_ident[Subject(p)'] # NoIno
  /\ OpInv(p)' /\ UnlinkInv(p)' /\ FreeInv(p)' /\ pc'[p] # "read" /\ ~Creating(p)'

LEMMA CalmKeeps ==
  ASSUME IInv, UInv, FreedAlone, Running, NEW p \in Procs, Calm(p), NEW x, Touches(p, x),
         \A i \in Inodes \ {x} : i_count'[i] = i_count[i]
  PROVE  UInv'
<1>1. CallInv(p)
  BY DEF UInv
<1>2. Gentle(p, x)
  <2>1. \A q \in Procs \ {p} : pc[q] = "read" => saved'[i_ident[ino[q]]]
    BY DEF UInv, CallInv, ReadInv, Calm
  <2>. QED
    BY <2>1 DEF Gentle, Calm
<1>3. SeekInv(p)'
  <2>1. ASSUME Seeks(p)' PROVE used[want'[p]]
    <3>1. CASE Seeks(p) /\ want'[p] = want[p]
      BY <1>1, <3>1 DEF CallInv, SeekInv
    <3>2. CASE want'[p] \in Inos /\ entry[want'[p]]
      BY <3>2 DEF UInv, DiskInv
    <3>3. CASE want'[p] \in Pinned
      BY <3>3 DEF IInv, PinInv
    <3>. QED
      BY <2>1, <3>1, <3>2, <3>3 DEF Calm
  <2>. QED
    BY <2>1 DEF SeekInv, Calm
<1>4. LockInv(p)'
  BY <1>1 DEF CallInv, LockInv, Calm
<1>5. CallInv(p)'
  BY <1>3, <1>4 DEF CallInv, ReadInv, CreateInv, Calm
<1>6. UniqueInode' /\ (\A i \in Inodes : PlaceInv(i)') /\ (\A k \in Inos : DiskInv(k)')
  BY TableKept DEF Calm
<1>7. Locking(p)' => \/ Locking(p) /\ Subject(p)' = Subject(p)
                     \/ ~i_lock[Subject(p)']
  BY DEF Calm
<1>. QED
  BY <1>2, <1>5, <1>6, <1>7, Rest

-----------------------------------------------------------------------------
(* The steps that leave the identities alone.                              *)

LEMMA CallIgetHolds ==
  ASSUME IInv, UInv, FreedAlone, Running, NEW p \in Procs, CallIget(p) PROVE UInv'
<1>. USE DEF CallIget, Goto, tableVars, diskVars, putVars
<1>1. PICK k \in Names[p] : entry[k] /\ want' = [want EXCEPT ![p] = k]
  OBVIOUS
<1>2. k \in Inos
  BY ConstantsAssumption
<1>3. Others(p) /\ pc'[p] = "empty" /\ op'[p] = "iget" /\ want'[p] = k
  BY <1>1 DEF IInv, TypeOK, Others
<1>4. LocalInv(p) /\ OpInv(p)
  BY DEF UInv, CallInv, IInv
<1>5. Calm(p)
  BY <1>1, <1>2, <1>3, <1>4 DEF Calm, Locking, OpInv, UnlinkInv, FreeInv, Creating
<1>. QED
  BY <1>5, CalmKeeps DEF Touches

LEMMA CallNewHolds ==
  ASSUME IInv, UInv, FreedAlone, Running, NEW p \in Procs, CallNew(p) PROVE UInv'
<1>. USE DEF CallNew, Goto, tableVars, diskVars, putVars
<1>1. PICK o \in {"create", "pipe"} : op' = [op EXCEPT ![p] = o]
  OBVIOUS
<1>2. Others(p) /\ pc'[p] = "empty" /\ op'[p] = o
  BY <1>1 DEF IInv, TypeOK, Others
<1>3. OpInv(p) /\ LocalInv(p)
  BY DEF UInv, CallInv, IInv
<1>4. back[p] = "idle" /\ wback[p] # "hit"
  BY <1>3 DEF LocalInv, Putting, AtPut, OpInv
<1>5. Calm(p)
  BY <1>1, <1>2, <1>4 DEF Calm, Locking, OpInv, UnlinkInv, FreeInv, Creating, Seeks
<1>. QED
  BY <1>5, CalmKeeps DEF Touches

LEMMA CallSyncHolds ==
  ASSUME IInv, UInv, FreedAlone, Running, NEW p \in Procs, CallSync(p) PROVE UInv'
<1>. USE DEF CallSync, Goto, tableVars, diskVars, callVars, putVars
<1>1. Others(p) /\ pc'[p] = "sync"
  BY DEF IInv, TypeOK, Others
<1>2. OpInv(p) /\ LocalInv(p)
  BY DEF UInv, CallInv, IInv
<1>3. Calm(p)
  BY <1>1, <1>2 DEF Calm, Locking, OpInv, UnlinkInv, FreeInv, Creating, Seeks
<1>. QED
  BY <1>3, CalmKeeps DEF Touches

(* A process gives one of its inodes to iput.                              *)
LEMMA GiveUpHolds ==
  ASSUME IInv, UInv, FreedAlone, Running, NEW p \in Procs, pc[p] = "idle", NEW f \in Held(p),
         put' = [put EXCEPT ![p] = file[p][f]], file' = [file EXCEPT ![p][f] = NULL],
         NEW l \in {"iput", "unlink"}, Goto(p, l),
         l = "unlink" => ~entry'[i_ident[file[p][f]]],
         \A k \in Inos : entry'[k] => entry[k],
         UNCHANGED <<tableVars, last_inode, fresh, saved, d_nlinks, used, op, want, ino, empty,
                     got, back, wback, cursor>>
  PROVE  UInv'
<1>. USE DEF Goto, tableVars
<1>1. file[p][f] \in Inodes
  BY HeldPlace
<1>2. Others(p)
  <2>1. \A q \in Procs \ {p} : file'[q] = file[q]
    BY DEF IInv, FilesFunction
  <2>. QED
    BY <2>1 DEF IInv, TypeOK, Others
<1>3. pc'[p] = l /\ put'[p] = file[p][f] /\ back'[p] = back[p] /\ wback'[p] = wback[p]
      /\ op'[p] = op[p]
  BY <1>1 DEF IInv, TypeOK
<1>4. OpInv(p) /\ LocalInv(p)
  BY DEF UInv, CallInv, IInv
<1>5. back[p] = "idle" /\ wback[p] # "hit"
  BY <1>4 DEF LocalInv, Putting, AtPut, OpInv
<1>6. OpInv(p)' /\ FreeInv(p)' /\ ~Creating(p)' /\ ~Seeks(p)' /\ ~Locking(p)' /\ pc'[p] # "read"
  BY <1>3, <1>4, <1>5 DEF OpInv, FreeInv, Creating, Seeks, Locking
<1>7. UnlinkInv(p)'
  BY <1>3 DEF UnlinkInv
<1>8. Calm(p)
  BY <1>2, <1>6, <1>7 DEF Calm
<1>. QED
  BY <1>8, CalmKeeps DEF Touches

LEMMA CallIputHolds ==
  ASSUME IInv, UInv, FreedAlone, Running, NEW p \in Procs, CallIput(p) PROVE UInv'
<1>. USE DEF CallIput
<1>1. PICK f \in Held(p) : /\ put' = [put EXCEPT ![p] = file[p][f]]
                           /\ file' = [file EXCEPT ![p][f] = NULL]
  OBVIOUS
<1>. QED
  BY <1>1, GiveUpHolds DEF diskVars

LEMMA CallUnlinkHolds ==
  ASSUME IInv, UInv, FreedAlone, Running, NEW p \in Procs, CallUnlink(p) PROVE UInv'
<1>. USE DEF CallUnlink
<1>1. PICK f \in Held(p) :
        /\ i_ident[file[p][f]] \in Removable
        /\ entry' = [entry EXCEPT ![i_ident[file[p][f]]] = FALSE]
        /\ put' = [put EXCEPT ![p] = file[p][f]]
        /\ file' = [file EXCEPT ![p][f] = NULL]
  OBVIOUS
<1>2. /\ ~entry'[i_ident[file[p][f]]] /\ \A k \in Inos : entry'[k] => entry[k]
  BY <1>1, ConstantsAssumption DEF IInv, TypeOK
<1>. QED
  BY <1>1, <1>2, GiveUpHolds

LEMMA UnlockHolds ==
  ASSUME IInv, UInv, FreedAlone, Running, NEW p \in Procs, Unlock(p) PROVE UInv'
<1>. USE DEF Unlock, Goto, callVars, putVars, diskVars
<1>1. LocalInv(p) /\ OpInv(p) /\ wback[p] \in {"idle", "empty_wait", "repeat", "sync", "sync_dev", "hit"}
  BY DEF IInv, TypeOK, UInv, CallInv
<1>2. pc'[p] = wback[p] /\ wback'[p] = "idle" /\ wback[p] \in {"repeat", "sync", "sync_dev", "hit"}
      /\ op'[p] = op[p] /\ back'[p] = back[p]
  BY <1>1 DEF IInv, TypeOK, LocalInv
<1>3. Others(p)
  BY DEF IInv, TypeOK, Others
<1>4. OpInv(p)' /\ FreeInv(p)' /\ UnlinkInv(p)' /\ ~Creating(p)' /\ ~Locking(p)' /\ pc'[p] # "read"
  BY <1>1, <1>2 DEF OpInv, FreeInv, UnlinkInv, Creating, Locking
<1>5. Seeks(p)' => Seeks(p) /\ want'[p] = want[p]
  BY <1>2 DEF Seeks
<1>6. \A i \in Inodes : /\ i_lock[i] => i_lock'[i] \/ (Locking(p) /\ Subject(p) = i)
                        /\ i_lock'[i] => i_lock[i]
  BY DEF IInv, TypeOK, Locking
<1>7. Calm(p)
  BY <1>3, <1>4, <1>5, <1>6 DEF Calm
<1>. QED
  BY <1>7, CalmKeeps DEF Touches

LEMMA SyncInodesHolds ==
  ASSUME IInv, UInv, FreedAlone, Running, NEW p \in Procs, SyncInodes(p) PROVE UInv'
<1>. USE DEF SyncInodes, Goto, callVars, putVars, diskVars
<1>1. LocalInv(p) /\ OpInv(p) /\ cursor[p] \in 1..(NR_INODE + 1) /\ NR_INODE \in Nat
  BY ConstantsAssumption DEF IInv, TypeOK, UInv, CallInv
<1>2. /\ pc[p] \in {"sync", "sync_dev"} /\ wback[p] # "hit"
      /\ op'[p] = op[p] /\ back'[p] = back[p] /\ (pc[p] = "sync" => back[p] = "idle")
  BY <1>1 DEF LocalInv, Putting, AtPut, OpInv
<1>3. CASE cursor[p] > NR_INODE
  <2>1. /\ Others(p) /\ pc'[p] = (IF pc[p] = "sync" THEN "idle" ELSE "repeat")
        /\ wback'[p] = wback[p]
    BY <1>3 DEF IInv, TypeOK, Others
  <2>2. Calm(p)
    BY <1>1, <1>2, <1>3, <2>1 DEF Calm, Locking, OpInv, UnlinkInv, FreeInv, Creating, Seeks
  <2>. QED
    BY <2>2, CalmKeeps DEF Touches
<1>4. CASE cursor[p] <= NR_INODE /\ i_dirt[cursor[p]] /\ ~i_pipe[cursor[p]]
  <2>. DEFINE i == cursor[p]
  <2>1. /\ i \in Inodes /\ ~i_lock[i] /\ i_ident[i] # NoIno
        /\ cursor' = [cursor EXCEPT ![p] = i + 1] /\ ino' = [ino EXCEPT ![p] = i]
        /\ i_lock' = [i_lock EXCEPT ![i] = TRUE]
        /\ wback' = [wback EXCEPT ![p] = pc[p]] /\ pc' = [pc EXCEPT ![p] = "write"]
    BY <1>1, <1>4 DEF StartWrite, Inodes
  <2>. HIDE DEF i
  <2>2. Others(p) /\ pc'[p] = "write" /\ wback'[p] = pc[p] /\ ino'[p] = i
    BY <2>1 DEF IInv, TypeOK, Others
  <2>3. Subject(p)' = i /\ ~i_lock[i] /\ i_lock'[i] /\ i_ident[i] # NoIno
        /\ \A j \in Inodes : /\ i_lock[j] => i_lock'[j]
                             /\ i_lock'[j] => i_lock[j] \/ i_ident[j] # NoIno
    BY <2>1, <2>2 DEF Subject, IInv, TypeOK
  <2>4. /\ OpInv(p)' /\ UnlinkInv(p)' /\ FreeInv(p)' /\ ~Creating(p)' /\ pc'[p] # "read"
        /\ (Seeks(p)' => Seeks(p) /\ want'[p] = want[p])
    BY <1>1, <1>2, <2>2 DEF OpInv, UnlinkInv, FreeInv, Creating, Seeks
  <2>5. Calm(p)
    BY <2>2, <2>3, <2>4 DEF Calm
  <2>. QED
    BY <2>5, CalmKeeps DEF Touches
<1>5. CASE cursor[p] <= NR_INODE /\ ~(i_dirt[cursor[p]] /\ ~i_pipe[cursor[p]])
  <2>1. cursor' = [cursor EXCEPT ![p] = cursor[p] + 1] /\ UNCHANGED <<pc, i_lock, ino, wback>>
    BY <1>1, <1>5
  <2>2. Others(p)
    BY <2>1 DEF IInv, TypeOK, Others
  <2>3. Calm(p)
    BY <1>1, <1>2, <2>1, <2>2 DEF Calm, Locking, OpInv, UnlinkInv, FreeInv, Creating, Seeks
  <2>. QED
    BY <2>3, CalmKeeps DEF Touches
<1>. QED
  BY <1>1, <1>3, <1>4, <1>5

(* What the steps of iput have in common: process p has waited for the     *)
(* place it puts.                                                          *)
LEMMA PutsHolds ==
  ASSUME IInv, UInv, FreedAlone, Running, NEW p \in Procs, NEW i, Puts(p, i), Others(p),
         UNCHANGED <<i_ident, i_nlinks, fresh, diskVars, op, want, ino>>,
         \A j \in Inodes : /\ i_ident[j] # NoIno => i_dirt'[j] = i_dirt[j]
                           /\ i_dirt'[j] => i_dirt[j]
                           /\ i_lock[j] => i_lock'[j]
                           /\ i_lock'[j] => i_lock[j] \/ i_ident[j] # NoIno,
         \A j \in Inodes \ {i} : i_count'[j] = i_count[j],
         \/ pc'[p] = back[p] /\ back'[p] = "idle" /\ wback'[p] = wback[p]
         \/ pc'[p] \in {"sync_dev", "panic"} /\ back'[p] = back[p] /\ wback'[p] = wback[p]
         \/ /\ pc'[p] = "truncate" /\ back'[p] = back[p] /\ wback'[p] = wback[p]
            /\ put'[p] = i /\ i_count'[i] = 1 /\ i_nlinks[i] = 0
         \/ /\ pc'[p] = "write" /\ back'[p] = back[p] /\ wback'[p] = "repeat"
            /\ put'[p] = i /\ i_lock'[i] /\ i_ident[i] # NoIno
  PROVE  UInv'
<1>. USE DEF diskVars
<1>1. LocalInv(p) /\ OpInv(p) /\ back[p] \in {"idle", "scan", "hit"}
  BY DEF UInv, CallInv, IInv, TypeOK
<1>2. pc[p] \in {"iput", "repeat"} /\ Putting(p) /\ put[p] = i /\ i \in Inodes /\ ~i_lock[i]
  BY DEF Puts
<1>3. OpInv(p)' /\ UnlinkInv(p)' /\ pc'[p] # "read" /\ ~Creating(p)'
  BY <1>1, <1>2 DEF OpInv, UnlinkInv, Creating
<1>4. FreeInv(p)'
  BY <1>1 DEF FreeInv
<1>5. Seeks(p)' => Seeks(p) /\ want'[p] = want[p]
  BY <1>1 DEF Seeks
<1>6. Locking(p)' => ~i_lock[Subject(p)'] /\ i_lock'[Subject(p)'] /\ i_ident[Subject(p)'] # NoIno
  BY <1>1, <1>2 DEF Locking, Subject
<1>7. Calm(p)
  BY <1>2, <1>3, <1>4, <1>5, <1>6 DEF Calm
<1>8. Touches(p, i)
  BY <1>2 DEF Touches, NotAt
<1>. QED
  BY <1>7, <1>8, CalmKeeps

LEMMA DropHolds ==
  ASSUME IInv, UInv, FreedAlone, Running, NEW p \in Procs, Puts(p, put[p]), Drop(p),
         i_ident[put[p]] # NoIno,
         UNCHANGED <<i_ident, i_nlinks, last_inode, fresh, diskVars, callVars, ino, cursor>>
  PROVE  UInv'
<1>. DEFINE i == put[p]
<1>. USE DEF Goto, diskVars, callVars, putVars
<1>1. i \in Inodes /\ i_count[i] \in Nat /\ i_count[i] >= 1
  <2>1. i \in Inodes /\ i_count[i] >= 1
    BY DEF Puts
  <2>. QED
    BY <2>1 DEF IInv, TypeOK
<1>2. UNCHANGED <<i_dirt, i_pipe>>
  BY DEF Drop
<1>3. CASE Uncount(i) /\ IputReturns(p) /\ UNCHANGED <<i_lock, wback>>
  <2>1. /\ Others(p) /\ pc'[p] = back[p] /\ back'[p] = "idle"
        /\ \A j \in Inodes \ {i} : i_count'[j] = i_count[j]
    BY <1>3 DEF Uncount, IputReturns, IInv, TypeOK, Others
  <2>. QED
    BY <1>2, <1>3, <2>1, PutsHolds
<1>4. CASE /\ Goto(p, "truncate") /\ UNCHANGED <<i_count, putVars, i_lock, wback>>
           /\ ~(i_count[i] > 1) /\ i_nlinks[i] = 0
  <2>1. Others(p) /\ pc'[p] = "truncate"
    BY <1>4 DEF IInv, TypeOK, Others
  <2>2. i_count[i] = 1
    BY <1>1, <1>4
  <2>. QED
    BY <1>2, <1>4, <2>1, <2>2, PutsHolds
<1>5. CASE StartWrite(p, i, "repeat") /\ UNCHANGED <<i_count, putVars>>
  <2>1. /\ i_lock' = [i_lock EXCEPT ![i] = TRUE] /\ wback' = [wback EXCEPT ![p] = "repeat"]
        /\ pc' = [pc EXCEPT ![p] = "write"]
    BY <1>5 DEF StartWrite
  <2>2. /\ Others(p) /\ pc'[p] = "write" /\ wback'[p] = "repeat" /\ i_lock'[i]
        /\ \A j \in Inodes : /\ i_lock[j] => i_lock'[j]
                             /\ i_lock'[j] => i_lock[j] \/ i_ident[j] # NoIno
    BY <1>1, <1>5, <2>1 DEF IInv, TypeOK, Others
  <2>. QED
    BY <1>2, <1>5, <2>2, PutsHolds
<1>. QED
  BY <1>3, <1>4, <1>5 DEF Drop

LEMMA RepeatHolds ==
  ASSUME IInv, UInv, FreedAlone, Running, NEW p \in Procs, Repeat(p) PROVE UInv'
<1>1. Puts(p, put[p]) /\ i_ident[put[p]] # NoIno
  BY IputPuts DEF Repeat, Puts
<1>. QED
  BY <1>1, DropHolds DEF Repeat

LEMMA IputHolds ==
  ASSUME IInv, UInv, FreedAlone, Running, NEW p \in Procs, Iput(p) PROVE UInv'
<1>. DEFINE i == put[p]
<1>. USE DEF Goto, callVars, putVars
<1>1. Puts(p, i)
  BY IputPuts DEF Iput
<1>2. i \in Inodes /\ i_count[i] \in Nat /\ i_count[i] >= 1 /\ i_dirt[i] \in BOOLEAN
  <2>1. i \in Inodes /\ i_count[i] >= 1
    BY <1>1 DEF Puts
  <2>. QED
    BY <2>1 DEF IInv, TypeOK
<1>3. UNCHANGED <<i_ident, i_nlinks, last_inode, fresh, diskVars, callVars, ino, cursor>>
  BY DEF Iput
<1>4. CASE i_pipe[i] \/ i_ident[i] = NoIno
  <2>1. /\ i_count' = [i_count EXCEPT ![i] = @ - 1]
        /\ put' = [put EXCEPT ![p] = NULL] /\ back' = [back EXCEPT ![p] = "idle"]
        /\ pc' = [pc EXCEPT ![p] = back[p]] /\ UNCHANGED <<i_lock, wback>>
    BY <1>2, <1>4 DEF Iput, Uncount, IputReturns
  <2>2. i_ident[i] = NoIno
    BY <1>2, <1>4 DEF IInv, TypeOK
  <2>3. /\ Others(p) /\ pc'[p] = back[p] /\ back'[p] = "idle"
        /\ \A j \in Inodes \ {i} : i_count'[j] = i_count[j]
    BY <1>3, <2>1 DEF IInv, TypeOK, Others
  <2>4. \A j \in Inodes : (i_dirt'[j] => i_dirt[j]) /\ (j # i => i_dirt'[j] = i_dirt[j])
    <3>1. CASE i_pipe[i]
      <4>1. i_dirt' = [i_dirt EXCEPT ![i] = i_dirt[i] /\ i_count[i] > 1]
        BY <1>2, <3>1 DEF Iput
      <4>. QED
        BY <4>1 DEF IInv, TypeOK
    <3>2. CASE ~i_pipe[i]
      BY <1>2, <1>4, <3>2 DEF Iput
    <3>. QED
      BY <3>1, <3>2
  <2>. QED
    BY <1>1, <1>3, <2>1, <2>2, <2>3, <2>4, PutsHolds
<1>5. CASE ~i_pipe[i] /\ i_ident[i] # NoIno /\ i_ident[i] \in Special
  <2>1. pc' = [pc EXCEPT ![p] = "sync_dev"] /\ UNCHANGED <<i_count, i_dirt, i_lock, i_pipe, putVars, wback>>
    BY <1>2, <1>5 DEF Iput
  <2>2. Others(p) /\ pc'[p] = "sync_dev"
    BY <1>3, <2>1 DEF IInv, TypeOK, Others
  <2>. QED
    BY <1>1, <1>3, <2>1, <2>2, PutsHolds
<1>6. CASE ~i_pipe[i] /\ i_ident[i] # NoIno /\ i_ident[i] \notin Special
  <2>1. Drop(p)
    BY <1>2, <1>6 DEF Iput
  <2>. QED
    BY <1>1, <1>3, <1>6, <2>1, DropHolds
<1>. QED
  BY <1>4, <1>5, <1>6

(* iget counts the place it has found.                                     *)
LEMMA FoundHolds ==
  ASSUME IInv, UInv, FreedAlone, Running, NEW p \in Procs, pc[p] \in {"scan", "scan_wait"},
         NEW i \in Inodes, Found(p, i), i_ident[i] = want[p], ~i_lock[i],
         UNCHANGED <<i_dirt, i_nlinks, i_pipe, last_inode, fresh, diskVars, op, cursor, file>>
  PROVE  UInv'
<1>. USE DEF Goto, diskVars, putVars
<1>1. LocalInv(p) /\ OpInv(p) /\ want[p] \in Inos
  BY DEF UInv, CallInv, IInv, LocalInv
<1>2. /\ i_count' = [i_count EXCEPT ![i] = i_count[i] + 1] /\ ino' = [ino EXCEPT ![p] = i]
      /\ pc' = [pc EXCEPT ![p] = "iput"] /\ UNCHANGED <<i_ident, i_lock, wback>>
  BY DEF Found
<1>3. \/ /\ want[p] = MountPoint /\ put' = [put EXCEPT ![p] = i] /\ back' = [back EXCEPT ![p] = "scan"]
         /\ want' = [want EXCEPT ![p] = MountRoot] /\ UNCHANGED <<got, empty>>
      \/ /\ got' = [got EXCEPT ![p] = i] /\ put' = [put EXCEPT ![p] = empty[p]]
         /\ empty' = [empty EXCEPT ![p] = NULL] /\ back' = [back EXCEPT ![p] = "hit"]
         /\ UNCHANGED want
  BY DEF Found
<1>4. want[p] = MountPoint => MountRoot \in Pinned /\ MountRoot \in Inos
  BY <1>1, ConstantsAssumption DEF Pinned
<1>5. /\ Others(p) /\ pc'[p] = "iput" /\ wback'[p] = wback[p] /\ op'[p] = op[p]
      /\ \A j \in Inodes \ {i} : i_count'[j] = i_count[j]
  BY <1>2, <1>3 DEF IInv, TypeOK, Others
<1>6. \/ back'[p] = "scan" /\ want'[p] \in Pinned
      \/ back'[p] = "hit"
  BY <1>3, <1>4 DEF IInv, TypeOK
<1>7. /\ OpInv(p)' /\ UnlinkInv(p)' /\ FreeInv(p)' /\ ~Creating(p)' /\ ~Locking(p)'
      /\ pc'[p] # "read"
  BY <1>1, <1>5, <1>6 DEF OpInv, UnlinkInv, FreeInv, Creating, Locking
<1>8. Seeks(p) /\ (Seeks(p)' => want'[p] \in Pinned)
  BY <1>5, <1>6 DEF Seeks
<1>9. Calm(p)
  BY <1>2, <1>5, <1>7, <1>8 DEF Calm
<1>10. Touches(p, i)
  BY <1>8 DEF Touches
<1>. QED
  BY <1>5, <1>9, <1>10, CalmKeeps

(* The inode is read into the empty place: no place has it yet.            *)
LEMMA InstallHolds ==
  ASSUME IInv, UInv, FreedAlone, Running, NEW p \in Procs, pc[p] = "scan", Install(p),
         \A i \in Inodes : i_ident[i] # want[p],
         UNCHANGED <<i_count, want, putVars, i_dirt, i_nlinks, i_pipe, last_inode, fresh,
                     diskVars, op, cursor, file>>
  PROVE  UInv'
<1>. DEFINE e == empty[p]
            k == want[p]
<1>. USE DEF Goto, diskVars, putVars
<1>1. Taking(p) /\ LocalInv(p) /\ OpInv(p) /\ SeekInv(p) /\ Seeks(p)
  BY DEF IInv, Taking, UInv, CallInv, Seeks
<1>2. /\ e \in Inodes /\ i_ident[e] = NoIno /\ i_count[e] = 1 /\ back[p] = "idle"
      /\ \A q \in Procs \ {p} : NotAt(q, e)
  BY <1>1, EmptyPlace
<1>3. ~i_dirt[e] /\ ~NotAt(p, e)
  BY <1>2 DEF IInv, TypeOK, NotAt
<1>4. k \in Inos /\ k # NoIno /\ used[k]
  BY <1>1, ConstantsAssumption DEF LocalInv, SeekInv
<1>5. ~DirtyPlace(k)
  BY DEF DirtyPlace
<1>6. saved[k]
  BY <1>4, <1>5 DEF UInv, DiskInv
<1>7. /\ i_ident' = [i_ident EXCEPT ![e] = k] /\ i_lock' = [i_lock EXCEPT ![e] = TRUE]
      /\ ino' = [ino EXCEPT ![p] = e] /\ got' = [got EXCEPT ![p] = e]
      /\ empty' = [empty EXCEPT ![p] = NULL] /\ wback' = [wback EXCEPT ![p] = "hit"]
      /\ pc' = [pc EXCEPT ![p] = "read"]
  BY DEF Install
<1>. HIDE DEF e, k
<1>8. /\ Others(p) /\ pc'[p] = "read" /\ wback'[p] = "hit" /\ ino'[p] = e
      /\ op'[p] = op[p] /\ want'[p] = k /\ back'[p] = "idle"
  BY <1>2, <1>7 DEF IInv, TypeOK, Others, k
<1>9. /\ i_ident'[e] = k /\ i_lock'[e]
      /\ \A j \in Inodes \ {e} : i_ident'[j] = i_ident[j] /\ i_lock'[j] = i_lock[j]
  BY <1>2, <1>7 DEF IInv, TypeOK
<1>10. Gentle(p, e)
  <2>1. ~Seeks(p)'
    BY <1>8 DEF Seeks
  <2>2. \A q \in Procs \ {p} : pc[q] = "read" => saved'[i_ident[ino[q]]]
    BY DEF UInv, CallInv, ReadInv
  <2>. QED
    BY <1>2, <1>3, <1>8, <1>9, <2>1, <2>2 DEF Gentle, Touches
<1>11. Subject(p)' = e
  BY <1>8 DEF Subject
<1>12. CallInv(p)'
  <2>1. OpInv(p)'
    BY <1>1, <1>8 DEF OpInv
  <2>2. LockInv(p)' /\ ReadInv(p)'
    BY <1>2, <1>3, <1>4, <1>6, <1>8, <1>9, <1>11 DEF LockInv, ReadInv
  <2>. QED
    BY <1>8, <2>1, <2>2 DEF CallInv, SeekInv, Seeks, UnlinkInv, CreateInv, Creating, FreeInv
<1>13. \A j \in Inodes : i_ident[j] # k
  BY DEF k
<1>14. UniqueInode'
  BY <1>9, <1>13 DEF UniqueInode, UInv
<1>15. ASSUME NEW j \in Inodes PROVE PlaceInv(j)'
  <2>1. CASE j = e
    <3>1. BeingRead(j)'
      BY <1>8, <2>1 DEF BeingRead
    <3>. QED
      BY <1>4, <1>9, <2>1, <3>1 DEF PlaceInv
  <2>2. CASE j # e
    <3>1. BeingRead(j) => BeingRead(j)'
      BY <1>8 DEF BeingRead, Others
    <3>2. PlaceInv(j) /\ i_ident'[j] = i_ident[j] /\ i_lock'[j] = i_lock[j]
      BY <1>9, <2>2 DEF UInv
    <3>. QED
      BY <3>1, <3>2 DEF PlaceInv
  <2>. QED
    BY <2>1, <2>2
<1>16. ASSUME NEW n \in Inos PROVE DiskInv(n)'
  <2>1. DirtyPlace(n) => DirtyPlace(n)'
    BY <1>3, <1>9 DEF DirtyPlace
  <2>. QED
    BY <2>1 DEF DiskInv, UInv
<1>17. ~i_lock[e]
  BY <1>2 DEF UInv, PlaceInv
<1>. QED
  BY <1>10, <1>11, <1>12, <1>14, <1>15, <1>16, <1>17, Rest

LEMMA ScanHolds ==
  ASSUME IInv, UInv, FreedAlone, Running, NEW p \in Procs, Scan(p) PROVE UInv'
<1>. USE DEF Scan
<1>. DEFINE found == {i \in Inodes : i_ident[i] = want[p]}
<1>1. CASE found = {}
  <2>1. Install(p) /\ UNCHANGED <<i_count, want, putVars>>
    BY <1>1
  <2>2. \A i \in Inodes : i_ident[i] # want[p]
    BY <1>1
  <2>. QED
    BY <2>1, <2>2, InstallHolds
<1>2. CASE found # {}
  <2>1. PICK i \in Inodes :
          /\ i_ident[i] = want[p]
          /\ IF i_lock[i]
             THEN /\ ino' = [ino EXCEPT ![p] = i]
                  /\ Goto(p, "scan_wait")
                  /\ UNCHANGED <<i_ident, i_count, i_lock, want, got, empty, putVars, wback>>
             ELSE Found(p, i)
    BY <1>2
  <2>2. CASE ~i_lock[i]
    BY <2>1, <2>2, FoundHolds
  <2>3. CASE i_lock[i]
    <3>1. /\ ino' = [ino EXCEPT ![p] = i] /\ pc' = [pc EXCEPT ![p] = "scan_wait"]
          /\ UNCHANGED <<tableVars, last_inode, fresh, diskVars, callVars, putVars, wback, cursor>>
      BY <2>1, <2>3 DEF Goto, tableVars, callVars
    <3>2. Others(p) /\ pc'[p] = "scan_wait" /\ OpInv(p) /\ LocalInv(p)
      BY <3>1 DEF IInv, TypeOK, Others, UInv, CallInv, callVars, putVars
    <3>3. Calm(p)
      BY <3>1, <3>2 DEF Calm, Locking, OpInv, UnlinkInv, FreeInv, Creating, Seeks, tableVars,
         diskVars, callVars, putVars
    <3>. QED
      BY <3>1, <3>3, CalmKeeps DEF Touches, tableVars
  <2>. QED
    BY <2>2, <2>3
<1>. QED
  BY <1>1, <1>2

LEMMA ScanReadyHolds ==
  ASSUME IInv, UInv, FreedAlone, Running, NEW p \in Procs, ScanReady(p) PROVE UInv'
<1>. USE DEF ScanReady
<1>1. LocalInv(p) /\ OpInv(p) /\ ino[p] \in Inodes
  BY DEF IInv, LocalInv, TypeOK, UInv, CallInv
<1>2. CASE i_ident[ino[p]] = want[p]
  BY <1>1, <1>2, FoundHolds
<1>3. CASE i_ident[ino[p]] # want[p]
  <2>1. /\ pc' = [pc EXCEPT ![p] = "scan"]
        /\ UNCHANGED <<tableVars, last_inode, fresh, diskVars, callVars, ino, putVars, wback, cursor>>
    BY <1>3 DEF Goto, tableVars, callVars
  <2>2. Others(p) /\ pc'[p] = "scan"
    BY <2>1 DEF IInv, TypeOK, Others, callVars, putVars
  <2>3. Calm(p)
    BY <1>1, <2>1, <2>2 DEF Calm, Locking, OpInv, UnlinkInv, FreeInv, Creating, Seeks, tableVars,
       diskVars, callVars, putVars
  <2>. QED
    BY <2>1, <2>3, CalmKeeps DEF Touches, tableVars
<1>. QED
  BY <1>2, <1>3

-----------------------------------------------------------------------------
(* The steps that write an inode or give one to a place.                   *)

LEMMA NewInodeTakesHolds ==
  ASSUME IInv, UInv, FreedAlone, Running, NEW p \in Procs, pc[p] = "new",
         NEW k \in Inos, ~used[k], used' = [used EXCEPT ![k] = TRUE],
         i_ident' = [i_ident EXCEPT ![empty[p]] = k],
         fresh' = [i \in Inodes |-> i = empty[p] \/ (fresh[i] /\ i_ident[i] # k)],
         saved' = [saved EXCEPT ![k] = FALSE],
         i_nlinks' = [i_nlinks EXCEPT ![empty[p]] = 1],
         i_dirt' = [i_dirt EXCEPT ![empty[p]] = TRUE],
         got' = [got EXCEPT ![p] = empty[p]], empty' = [empty EXCEPT ![p] = NULL],
         pc' = [pc EXCEPT ![p] = "hit"],
         UNCHANGED <<putVars, i_count, i_lock, i_pipe, last_inode, d_nlinks, entry, op, want, ino,
                     wback, cursor, file>>
  PROVE  UInv'
<1>. USE DEF putVars
<1>1. Taking(p) /\ OpInv(p) /\ LocalInv(p)
  BY DEF IInv, Taking, UInv, CallInv
<1>2. /\ empty[p] \in Inodes /\ i_ident[empty[p]] = NoIno /\ i_count[empty[p]] = 1
      /\ back[p] = "idle"
  BY <1>1, EmptyPlace
<1>3. PICK e \in Inodes : e = empty[p]
  BY <1>2
<1>4. k # NoIno /\ ~NotAt(p, e) /\ ~i_lock[e]
  BY <1>2, <1>3, ConstantsAssumption DEF NotAt, UInv, PlaceInv
<1>5. \A i \in Inodes : i_ident[i] # k
  BY <1>4 DEF UInv, PlaceInv
<1>6. ~entry[k] /\ \A q \in Procs : Seeks(q) => want[q] # k
  BY DEF UInv, DiskInv, CallInv, SeekInv
<1>7. /\ Others(p) /\ pc'[p] = "hit" /\ got'[p] = e /\ op'[p] = op[p]
      /\ want' = want /\ back' = back /\ wback'[p] = wback[p]
  BY <1>3 DEF IInv, TypeOK, Others
<1>8. /\ i_ident'[e] = k /\ i_dirt'[e] /\ i_nlinks'[e] = 1 /\ fresh'[e] /\ used'[k]
      /\ \A j \in Inodes \ {e} : /\ i_ident'[j] = i_ident[j] /\ i_dirt'[j] = i_dirt[j]
                                 /\ i_nlinks'[j] = i_nlinks[j] /\ (fresh[j] => fresh'[j])
      /\ \A n \in Inos \ {k} : used'[n] = used[n] /\ saved'[n] = saved[n]
  BY <1>3, <1>5 DEF IInv, TypeOK
<1>9. ~Seeks(p)' /\ ~Locking(p)'
  BY <1>2, <1>7 DEF Seeks, Locking
<1>10. Gentle(p, e)
  <2>1. ASSUME NEW q \in Procs \ {p}, pc[q] = "read" PROVE saved'[i_ident[ino[q]]]
    <3>1. OnlyAt(q, ino[q]) /\ saved[i_ident[ino[q]]]
      BY <2>1, OnlyHis DEF UInv, CallInv, ReadInv
    <3>2. i_ident[ino[q]] \in Inos \ {k}
      BY <1>5, <3>1 DEF OnlyAt
    <3>. QED
      BY <1>8, <3>1, <3>2
  <2>2. \A i \in Inodes : i_dirt'[i] => i_dirt[i] \/ ~NotAt(p, i)
    BY <1>4, <1>8
  <2>3. \A n \in Inos : used[n] => used'[n]
    BY <1>8
  <2>4. Touches(p, e)
    BY <1>4 DEF Touches
  <2>5. \A i \in Inodes : i_lock[i] /\ i_ident[i] # NoIno => i_ident'[i] = i_ident[i]
    BY <1>4, <1>8
  <2>. QED
    BY <1>2, <1>3, <1>7, <1>8, <1>9, <2>1, <2>2, <2>3, <2>4, <2>5 DEF Gentle
<1>11. CallInv(p)'
  <2>1. OpInv(p)'
    BY <1>1, <1>2, <1>7 DEF OpInv
  <2>2. CreateInv(p)'
    <3>1. \A q \in Procs : Seeks(q)' => Seeks(q)
      BY <1>7, <1>9 DEF Seeks, Others
    <3>. QED
      BY <1>2, <1>3, <1>6, <1>7, <1>8, <3>1 DEF CreateInv
  <2>. QED
    BY <1>7, <1>9, <2>1, <2>2 DEF CallInv, SeekInv, LockInv, ReadInv, UnlinkInv, FreeInv
<1>12. UniqueInode'
  BY <1>5, <1>8 DEF UniqueInode, UInv
<1>13. ASSUME NEW j \in Inodes PROVE PlaceInv(j)'
  <2>1. CASE j = e
    BY <1>4, <1>8, <2>1 DEF PlaceInv
  <2>2. CASE j # e
    <3>1. BeingRead(j) => BeingRead(j)'
      BY <1>7 DEF BeingRead, Others
    <3>2. PlaceInv(j) /\ i_ident[j] \in Inos \cup {NoIno} /\ i_ident[j] # k
      BY <1>5 DEF UInv, IInv, TypeOK
    <3>3. /\ i_ident'[j] = i_ident[j] /\ i_dirt'[j] = i_dirt[j] /\ i_nlinks'[j] = i_nlinks[j]
          /\ fresh[j] => fresh'[j]
          /\ i_ident[j] # NoIno => used'[i_ident[j]] = used[i_ident[j]]
      BY <1>8, <2>2, <3>2
    <3>. QED
      BY <3>1, <3>2, <3>3 DEF PlaceInv
  <2>. QED
    BY <2>1, <2>2
<1>14. ASSUME NEW n \in Inos PROVE DiskInv(n)'
  <2>1. CASE n = k
    <3>1. DirtyPlace(n)'
      BY <1>8, <2>1 DEF DirtyPlace
    <3>. QED
      BY <1>6, <1>8, <2>1, <3>1 DEF DiskInv
  <2>2. CASE n # k
    <3>1. DirtyPlace(n) => DirtyPlace(n)'
      <4>1. \A i \in Inodes : i_ident[i] = n => i # e
        BY <1>2, <1>3, ConstantsAssumption
      <4>2. ASSUME NEW i \in Inodes, i_ident[i] = n, i_dirt[i]
            PROVE  i_ident'[i] = n /\ i_dirt'[i]
        <5>1. i # e
          BY <4>1, <4>2
        <5>. QED
          BY ZenonT(60), <1>8, <4>2, <5>1
      <4>. QED
        BY <4>2 DEF DirtyPlace
    <3>2. DiskInv(n)
      BY DEF UInv
    <3>. QED
      BY <1>8, <2>2, <3>1, <3>2 DEF DiskInv
  <2>. QED
    BY <2>1, <2>2
<1>. QED
  BY <1>9, <1>10, <1>11, <1>12, <1>13, <1>14, Rest

LEMMA NewInodeHolds ==
  ASSUME IInv, UInv, FreedAlone, Running, NEW p \in Procs, NewInode(p) PROVE UInv'
<1>. USE DEF NewInode, Goto
<1>1. CASE \A k \in Inos : used[k]
  <2>1. /\ put' = [put EXCEPT ![p] = empty[p]] /\ pc' = [pc EXCEPT ![p] = "iput"]
        /\ empty' = [empty EXCEPT ![p] = NULL]
        /\ UNCHANGED <<i_ident, i_nlinks, i_dirt, fresh, saved, used, got, back>>
    BY <1>1
  <2>2. LocalInv(p) /\ OpInv(p)
    BY DEF IInv, UInv, CallInv
  <2>3. Others(p) /\ pc'[p] = "iput" /\ back[p] = "idle" /\ op' = op /\ wback' = wback
    BY <2>1, <2>2 DEF IInv, TypeOK, Others, LocalInv, Putting, AtPut
  <2>4. Calm(p)
    BY <2>1, <2>2, <2>3 DEF Calm, Locking, OpInv, UnlinkInv, FreeInv, Creating, Seeks
  <2>. QED
    BY <2>4, CalmKeeps DEF Touches
<1>2. CASE ~ \A k \in Inos : used[k]
  <2>1. PICK k \in Inos :
          /\ ~used[k]
          /\ used' = [used EXCEPT ![k] = TRUE]
          /\ i_ident' = [i_ident EXCEPT ![empty[p]] = k]
          /\ fresh' = [i \in Inodes |-> i = empty[p] \/ (fresh[i] /\ i_ident[i] # k)]
          /\ saved' = [saved EXCEPT ![k] = FALSE]
    BY <1>2
  <2>. QED
    BY <1>2, <2>1, NewInodeTakesHolds
<1>. QED
  BY <1>1, <1>2

LEMMA ReadCopyHolds ==
  ASSUME IInv, UInv, FreedAlone, Running, NEW p \in Procs, ReadCopy(p) PROVE UInv'
<1>. USE DEF ReadCopy, Goto, callVars, putVars, diskVars
<1>1. LocalInv(p) /\ OpInv(p) /\ ReadInv(p)
  BY DEF IInv, UInv, CallInv
<1>2. PICK e \in Inodes : e = ino[p] /\ OnlyAt(p, e) /\ e = got[p]
  BY OnlyHis DEF OnlyAt
<1>3. /\ saved[i_ident[e]] /\ ~i_dirt[e] /\ i_ident[e] \in Inos /\ ~NotAt(p, e)
      /\ back[p] = "idle" /\ wback[p] = "hit"
  BY <1>1, <1>2 DEF OnlyAt, ReadInv, NotAt, LocalInv, Putting, AtPut
<1>4. /\ Others(p) /\ pc'[p] = "unlock" /\ op' = op /\ want' = want /\ back' = back
      /\ wback' = wback
  BY DEF IInv, TypeOK, Others
<1>5. /\ fresh'[e] /\ i_nlinks'[e] = d_nlinks[i_ident[e]]
      /\ \A j \in Inodes \ {e} : fresh'[j] = fresh[j] /\ i_nlinks'[j] = i_nlinks[j]
  BY <1>2, <1>3 DEF IInv, TypeOK
<1>6. Locking(p) /\ Subject(p)' = Subject(p)
  BY DEF Locking, Subject
<1>7. Gentle(p, e)
  <2>1. \A q \in Procs \ {p} : pc[q] = "read" => saved'[i_ident[ino[q]]]
    BY DEF UInv, CallInv, ReadInv
  <2>2. ~Seeks(p)'
    BY <1>3, <1>4 DEF Seeks
  <2>. QED
    BY <1>3, <1>4, <1>5, <2>1, <2>2 DEF Gentle, Touches
<1>8. CallInv(p)'
  <2>1. OpInv(p)' /\ ~Seeks(p)'
    BY <1>1, <1>3, <1>4 DEF OpInv, Seeks
  <2>2. LockInv(p)'
    BY <1>6 DEF LockInv, UInv, CallInv
  <2>. QED
    BY <1>4, <2>1, <2>2 DEF CallInv, SeekInv, ReadInv, UnlinkInv, CreateInv, Creating, FreeInv
<1>9. UniqueInode'
  BY DEF UniqueInode, UInv
<1>10. ~DirtyPlace(i_ident[e])
  BY <1>3 DEF DirtyPlace, UInv, UniqueInode, OnlyAt, IInv, TypeOK
<1>11. d_nlinks[i_ident[e]] = 0 => ~entry[i_ident[e]]
  BY <1>3, <1>10 DEF UInv, DiskInv
<1>12. ASSUME NEW j \in Inodes PROVE PlaceInv(j)'
  <2>1. PlaceInv(j)
    BY DEF UInv
  <2>2. CASE j = e
    BY <1>5, <1>11, <2>1, <2>2 DEF PlaceInv
  <2>3. CASE j # e
    <3>1. BeingRead(j) => BeingRead(j)'
      BY <1>2, <1>4, <2>3 DEF BeingRead, Others
    <3>. QED
      BY <1>5, <2>1, <2>3, <3>1 DEF PlaceInv
  <2>. QED
    BY <2>2, <2>3
<1>13. \A n \in Inos : DiskInv(n)'
  BY DEF UInv, DiskInv, DirtyPlace
<1>. QED
  BY <1>6, <1>7, <1>8, <1>9, <1>12, <1>13, Rest

LEMMA UnlinkedHolds ==
  ASSUME IInv, UInv, FreedAlone, Running, NEW p \in Procs, Unlinked(p) PROVE UInv'
<1>. USE DEF Unlinked, Goto, callVars, putVars
<1>1. LocalInv(p) /\ OpInv(p) /\ UnlinkInv(p)
  BY DEF IInv, UInv, CallInv
<1>2. PICK i \in Inodes : i = put[p] /\ i_ident[i] \in Inos /\ i_ident[i] # NoIno
  BY UnlinkPlace
<1>3. ~NotAt(p, i) /\ ~entry[i_ident[i]]
  BY <1>1, <1>2 DEF NotAt, UnlinkInv
<1>4. /\ Others(p) /\ pc'[p] = "iput" /\ op' = op /\ want' = want /\ back' = back
      /\ wback' = wback
  BY DEF IInv, TypeOK, Others
<1>5. /\ i_nlinks'[i] = 0 /\ i_dirt'[i]
      /\ \A j \in Inodes \ {i} : i_dirt'[j] = i_dirt[j] /\ i_nlinks'[j] = i_nlinks[j]
      /\ \A n \in Inos : n # i_ident[i] => saved'[n] = saved[n]
  BY <1>2 DEF IInv, TypeOK
<1>6. ~Locking(p)'
  BY <1>4 DEF Locking
<1>7. Gentle(p, i)
  <2>1. ASSUME NEW q \in Procs \ {p}, pc[q] = "read" PROVE saved'[i_ident[ino[q]]]
    <3>1. OnlyAt(q, ino[q]) /\ saved[i_ident[ino[q]]]
      BY <2>1, OnlyHis DEF UInv, CallInv, ReadInv
    <3>2. ino[q] # i
      BY <1>3, <3>1 DEF OnlyAt
    <3>3. i_ident[ino[q]] # i_ident[i]
      BY <3>1, <3>2 DEF UInv, UniqueInode, OnlyAt
    <3>. QED
      BY <1>5, <3>1, <3>3 DEF OnlyAt
  <2>2. Seeks(p)' => Seeks(p) /\ want'[p] = want[p]
    BY <1>4 DEF Seeks
  <2>. QED
    BY <1>3, <1>4, <1>5, <2>1, <2>2 DEF Gentle, Touches
<1>8. CallInv(p)'
  <2>1. OpInv(p)'
    BY <1>1, <1>4 DEF OpInv
  <2>2. SeekInv(p)'
    BY <1>4 DEF SeekInv, Seeks, UInv, CallInv
  <2>. QED
    BY <1>4, <1>6, <2>1, <2>2 DEF CallInv, LockInv, ReadInv, UnlinkInv, CreateInv, Creating, FreeInv
<1>9. UniqueInode'
  BY DEF UniqueInode, UInv
<1>10. ASSUME NEW j \in Inodes PROVE PlaceInv(j)'
  <2>1. PlaceInv(j) /\ (BeingRead(j) => BeingRead(j)')
    BY <1>4 DEF UInv, BeingRead, Others
  <2>. QED
    BY ZenonT(60), <1>3, <1>5, <2>1 DEF PlaceInv
<1>11. ASSUME NEW n \in Inos PROVE DiskInv(n)'
  <2>1. DirtyPlace(n) => DirtyPlace(n)'
    BY <1>5 DEF DirtyPlace
  <2>2. n = i_ident[i] => DirtyPlace(n)'
    BY <1>5 DEF DirtyPlace
  <2>. QED
    BY <1>5, <2>1, <2>2 DEF UInv, DiskInv
<1>. QED
  BY <1>6, <1>7, <1>8, <1>9, <1>10, <1>11, Rest

LEMMA ModifyHolds ==
  ASSUME IInv, UInv, FreedAlone, Running, NEW p \in Procs, Modify(p) PROVE UInv'
<1>. USE DEF Modify, procVars, callVars, putVars
<1>1. PICK f \in Held(p) :
        /\ ~i_pipe[file[p][f]]
        /\ i_dirt' = [i_dirt EXCEPT ![file[p][f]] = TRUE]
        /\ saved' = [saved EXCEPT ![i_ident[file[p][f]]] = FALSE]
        /\ fresh' = [j \in Inodes |-> fresh[j] /\ (j = file[p][f] \/ i_ident[j] # i_ident[file[p][f]])]
  OBVIOUS
<1>2. PICK i \in Inodes : i = file[p][f] /\ i_ident[i] # NoIno /\ f \in Fds[p]
  BY <1>1, HeldPlace
<1>3. ~NotAt(p, i) /\ i_ident[i] \in Inos
  BY <1>2 DEF NotAt, IInv, TypeOK
<1>4. \A j \in Inodes : fresh[j] => fresh'[j]
  BY <1>1, <1>2 DEF UInv, UniqueInode
<1>5. /\ i_dirt'[i] /\ \A j \in Inodes \ {i} : i_dirt'[j] = i_dirt[j]
      /\ \A n \in Inos : n # i_ident[i] => saved'[n] = saved[n]
  BY ZenonT(60), <1>1, <1>2 DEF IInv, TypeOK
<1>6. Others(p)
  BY DEF Others
<1>7. Gentle(p, i)
  <2>1. ASSUME NEW q \in Procs \ {p}, pc[q] = "read" PROVE saved'[i_ident[ino[q]]]
    <3>1. OnlyAt(q, ino[q]) /\ saved[i_ident[ino[q]]]
      BY <2>1, OnlyHis DEF UInv, CallInv, ReadInv
    <3>2. ino[q] # i
      BY <1>3, <3>1 DEF OnlyAt
    <3>3. i_ident[ino[q]] # i_ident[i]
      BY <3>1, <3>2 DEF UInv, UniqueInode, OnlyAt
    <3>. QED
      BY <1>5, <3>1, <3>3 DEF OnlyAt
  <2>2. Seeks(p)' => Seeks(p) /\ want'[p] = want[p]
    BY DEF Seeks
  <2>. QED
    BY <1>3, <1>5, <1>6, <2>1, <2>2 DEF Gentle, Touches
<1>8. CallInv(p)'
  <2>1. OpInv(p)' /\ SeekInv(p)' /\ LockInv(p)'
    BY DEF UInv, CallInv, OpInv, SeekInv, Seeks, LockInv, Locking, Subject
  <2>. QED
    BY <2>1 DEF CallInv, ReadInv, UnlinkInv, CreateInv, Creating, FreeInv
<1>9. UniqueInode'
  BY DEF UniqueInode, UInv
<1>10. ASSUME NEW j \in Inodes PROVE PlaceInv(j)'
  <2>1. PlaceInv(j) /\ (BeingRead(j) => BeingRead(j)')
    BY DEF UInv, BeingRead
  <2>. QED
    BY <1>4, <1>5, <2>1 DEF PlaceInv
<1>11. ASSUME NEW n \in Inos PROVE DiskInv(n)'
  <2>1. DirtyPlace(n) => DirtyPlace(n)'
    BY <1>5 DEF DirtyPlace
  <2>2. n = i_ident[i] => DirtyPlace(n)'
    BY <1>5 DEF DirtyPlace
  <2>. QED
    BY <1>5, <2>1, <2>2 DEF UInv, DiskInv
<1>12. Locking(p)' => Locking(p) /\ Subject(p)' = Subject(p)
  BY DEF Locking, Subject
<1>. QED
  BY <1>7, <1>8, <1>9, <1>10, <1>11, <1>12, Rest

LEMMA WriteCopyHolds ==
  ASSUME IInv, UInv, FreedAlone, Running, NEW p \in Procs, WriteCopy(p) PROVE UInv'
<1>. USE DEF WriteCopy, Goto, callVars, putVars
<1>1. LocalInv(p) /\ OpInv(p) /\ LockInv(p) /\ Locking(p) /\ pc[p] = "write"
  BY DEF IInv, UInv, CallInv, Locking
<1>2. PICK i \in Inodes : i = Subject(p) /\ i_ident[i] \in Inos /\ i_ident[i] # NoIno
  BY <1>1, SubjectIs DEF LockInv, IInv, TypeOK
<1>3. ~BeingRead(i)
  <2>1. ASSUME NEW q \in Procs, pc[q] = "read", ino[q] = i PROVE FALSE
    <3>1. Locking(q) /\ Subject(q) = i /\ q # p
      BY <1>1, <2>1, SubjectIs DEF Locking
    <3>. QED
      BY <1>1, <1>2, <3>1 DEF UInv, LocksApart
  <2>. QED
    BY <2>1 DEF BeingRead
<1>4. PlaceInv(i) /\ fresh[i] /\ (i_nlinks[i] = 0 => ~entry[i_ident[i]])
  BY <1>2, <1>3 DEF UInv, PlaceInv
<1>5. /\ saved' = [saved EXCEPT ![i_ident[i]] = fresh[i] /\ i_ident[i] = i_ident[i]]
      /\ d_nlinks' = [d_nlinks EXCEPT ![i_ident[i]] = i_nlinks[i]]
      /\ i_dirt' = [i_dirt EXCEPT ![i] = FALSE]
  BY <1>2
<1>6. /\ saved'[i_ident[i]] /\ \A n \in Inos : saved[n] => saved'[n]
      /\ d_nlinks'[i_ident[i]] = i_nlinks[i]
      /\ \A n \in Inos : n # i_ident[i] => d_nlinks'[n] = d_nlinks[n]
      /\ \A j \in Inodes : i_dirt'[j] => i_dirt[j]
      /\ \A j \in Inodes : j # i => i_dirt'[j] = i_dirt[j]
  <2>1. /\ saved \in [Inos -> BOOLEAN] /\ i_dirt \in [Inodes -> BOOLEAN]
        /\ d_nlinks \in [Inos -> {0, 1}]
    BY DEF IInv, TypeOK
  <2>2. saved'[i_ident[i]] /\ \A n \in Inos : saved[n] => saved'[n]
    BY <1>2, <1>4, <1>5, <2>1
  <2>3. /\ d_nlinks'[i_ident[i]] = i_nlinks[i]
        /\ \A n \in Inos : n # i_ident[i] => d_nlinks'[n] = d_nlinks[n]
    BY <1>2, <1>5, <2>1
  <2>4. \A j \in Inodes : i_dirt'[j] => i_dirt[j]
    BY <1>2, <1>5, <2>1
  <2>5. \A j \in Inodes : j # i => i_dirt'[j] = i_dirt[j]
    BY <1>2, <1>5, <2>1
  <2>. QED
    BY <2>2, <2>3, <2>4, <2>5
<1>7. /\ Others(p) /\ pc'[p] = "unlock" /\ op' = op /\ want' = want /\ back' = back
      /\ wback' = wback /\ Subject(p)' = Subject(p)
  BY DEF IInv, TypeOK, Others, Subject
<1>8. Seeks(p)' => Seeks(p) /\ want'[p] = want[p]
  BY <1>7 DEF Seeks
<1>9. Gentle(p, NULL)
  <2>1. \A q \in Procs \ {p} : pc[q] = "read" => saved'[i_ident[ino[q]]]
    BY <1>6, OnlyHis DEF UInv, CallInv, ReadInv, OnlyAt
  <2>. QED
    BY <1>6, <1>7, <1>8, <2>1 DEF Gentle, Touches, Inodes, NULL
<1>10. CallInv(p)'
  <2>1. OpInv(p)' /\ LockInv(p)'
    BY <1>1, <1>7 DEF OpInv, LockInv
  <2>2. SeekInv(p)'
    BY <1>8 DEF SeekInv, UInv, CallInv
  <2>. QED
    BY <1>7, <2>1, <2>2 DEF CallInv, ReadInv, UnlinkInv, CreateInv, Creating, FreeInv
<1>11. UniqueInode'
  BY DEF UniqueInode, UInv
<1>12. ASSUME NEW j \in Inodes PROVE PlaceInv(j)'
  <2>1. PlaceInv(j) /\ (BeingRead(j) => BeingRead(j)')
    BY <1>7 DEF UInv, BeingRead, Others
  <2>2. CASE j = i
    BY <1>6, <2>1, <2>2 DEF PlaceInv
  <2>3. CASE j # i
    <3>1. i_ident[j] # i_ident[i] /\ i_ident[j] \in Inos \cup {NoIno}
      BY <1>2, <2>3 DEF UInv, UniqueInode, IInv, TypeOK
    <3>. QED
      BY ZenonT(60), <1>6, <2>1, <2>3, <3>1 DEF PlaceInv
  <2>. QED
    BY <2>2, <2>3
<1>13. ASSUME NEW n \in Inos PROVE DiskInv(n)'
  <2>1. DiskInv(n)
    BY DEF UInv
  <2>2. CASE n = i_ident[i]
    BY <1>4, <1>6, <2>1, <2>2 DEF DiskInv
  <2>3. CASE n # i_ident[i]
    <3>1. DirtyPlace(n) => DirtyPlace(n)'
      BY <1>6, <2>3 DEF DirtyPlace
    <3>. QED
      BY <1>6, <2>1, <2>3, <3>1 DEF DiskInv
  <2>. QED
    BY <2>2, <2>3
<1>. QED
  BY <1>1, <1>7, <1>9, <1>10, <1>11, <1>12, <1>13, Rest

(* The inode created is named: it has its link, here or in its block.      *)
LEMMA HitHolds ==
  ASSUME IInv, UInv, FreedAlone, Running, NEW p \in Procs, Hit(p) PROVE UInv'
<1>. USE DEF Hit, Goto, tableVars, putVars
<1>1. LocalInv(p) /\ OpInv(p) /\ CreateInv(p) /\ got[p] # NULL
  BY DEF IInv, UInv, CallInv, LocalInv, Getting
<1>2. got[p] \in Inodes /\ i_ident[got[p]] \in Inos /\ i_ident[got[p]] # NoIno
  BY <1>1, CallPlace DEF IInv, RefOK, TypeOK
<1>3. PICK f \in Free(p) : file' = [file EXCEPT ![p][f] = got[p]]
  OBVIOUS
<1>4. Others(p)
  <2>1. \A q \in Procs \ {p} : file'[q] = file[q]
    BY <1>3 DEF IInv, FilesFunction
  <2>. QED
    BY <2>1 DEF IInv, TypeOK, Others
<1>5. pc'[p] = "idle" /\ op'[p] = "none" /\ back'[p] = "idle" /\ wback'[p] # "hit"
  BY <1>1 DEF IInv, TypeOK, LocalInv, Putting, AtPut, OpInv
<1>6. \A k \in Inos : entry'[k] =>
        entry[k] \/ (Creating(p) /\ k = i_ident[got[p]])
  BY <1>2 DEF IInv, TypeOK, Creating
<1>7. Creating(p) => OnlyAt(p, got[p]) /\ i_nlinks[got[p]] = 1 /\ used[i_ident[got[p]]]
                     /\ ~BeingRead(got[p])
  <2>1. ASSUME Creating(p), NEW q \in Procs, pc[q] = "read", ino[q] = got[p] PROVE FALSE
    <3>1. q # p /\ OnlyAt(q, got[p]) /\ ~NotAt(p, got[p])
      BY <2>1, OnlyHis DEF Creating, NotAt
    <3>. QED
      BY <3>1 DEF OnlyAt
  <2>2. Creating(p) => OnlyAt(p, got[p]) /\ i_nlinks[got[p]] = 1
    BY <1>1, OnlyHis DEF CreateInv
  <2>. QED
    BY <1>2, <2>1, <2>2 DEF UInv, PlaceInv, BeingRead
<1>8. ~Seeks(p)' /\ ~Locking(p)'
  BY <1>5 DEF Seeks, Locking
<1>9. Gentle(p, NULL)
  <2>1. \A q \in Procs \ {p} : pc[q] = "read" => saved'[i_ident[ino[q]]]
    BY DEF UInv, CallInv, ReadInv
  <2>. QED
    BY <1>4, <1>6, <1>7, <1>8, <2>1 DEF Gentle, Touches, Inodes, NULL
<1>10. CallInv(p)'
  <2>1. OpInv(p)'
    BY <1>5 DEF OpInv
  <2>. QED
    BY <1>5, <1>8, <2>1 DEF CallInv, SeekInv, LockInv, ReadInv, UnlinkInv, CreateInv, Creating, FreeInv
<1>11. UniqueInode'
  BY DEF UniqueInode, UInv
<1>12. ASSUME NEW j \in Inodes PROVE PlaceInv(j)'
  <2>1. PlaceInv(j) /\ (BeingRead(j) => BeingRead(j)') /\ i_ident[j] \in Inos \cup {NoIno}
    BY <1>4 DEF UInv, BeingRead, Others, IInv, TypeOK
  <2>2. ASSUME i_ident[j] # NoIno, i_nlinks[j] = 0, ~BeingRead(j) PROVE ~entry'[i_ident[j]]
    <3>1. ~(Creating(p) /\ i_ident[j] = i_ident[got[p]])
      BY <1>2, <1>7, <2>2 DEF UInv, UniqueInode
    <3>. QED
      BY <1>6, <2>1, <2>2, <3>1 DEF PlaceInv
  <2>. QED
    BY <2>1, <2>2 DEF PlaceInv
<1>13. ASSUME NEW n \in Inos PROVE DiskInv(n)'
  <2>1. DiskInv(n) /\ DirtyPlace(n)' = DirtyPlace(n)
    BY DEF UInv, DirtyPlace
  <2>2. CASE Creating(p) /\ n = i_ident[got[p]]
    <3>1. PlaceInv(got[p]) /\ ~BeingRead(got[p]) /\ i_nlinks[got[p]] = 1
      BY <1>2, <1>7, <2>2 DEF UInv
    <3>2. d_nlinks[n] = 0 => DirtyPlace(n)
      BY <1>2, <2>2, <3>1 DEF PlaceInv, DirtyPlace
    <3>. QED
      BY <1>7, <2>1, <2>2, <3>2 DEF DiskInv
  <2>3. CASE ~(Creating(p) /\ n = i_ident[got[p]])
    BY <1>6, <2>1, <2>3 DEF DiskInv
  <2>. QED
    BY <2>2, <2>3
<1>. QED
  BY <1>8, <1>9, <1>10, <1>11, <1>12, <1>13, Rest

(* A place loses its identity: it was clean, or its inode is freed.        *)
LEMMA ClearHolds ==
  ASSUME IInv, UInv, NEW p \in Procs, Others(p), pc[p] # "read", NEW i \in Inodes,
         i_ident'[i] = NoIno, ~i_lock'[i],
         \A j \in Inodes \ {i} : /\ i_ident'[j] = i_ident[j] /\ i_dirt'[j] = i_dirt[j]
                                 /\ i_lock'[j] = i_lock[j] /\ i_nlinks'[j] = i_nlinks[j]
                                 /\ fresh'[j] = fresh[j],
         UNCHANGED <<saved, d_nlinks, entry>>,
         \A n \in Inos : \/ used'[n] = used[n] /\ ~(i_ident[i] = n /\ i_dirt[i])
                         \/ n = i_ident[i] /\ ~used'[n] /\ ~entry[n]
  PROVE  UniqueInode' /\ (\A j \in Inodes : PlaceInv(j)') /\ (\A n \in Inos : DiskInv(n)')
<1>1. UniqueInode'
  BY DEF UInv, UniqueInode
<1>2. ASSUME NEW j \in Inodes PROVE PlaceInv(j)'
  <2>1. CASE j = i
    BY <2>1 DEF PlaceInv
  <2>2. CASE j # i
    <3>1. PlaceInv(j) /\ (BeingRead(j) => BeingRead(j)') /\ i_ident[j] \in Inos \cup {NoIno}
      BY DEF UInv, BeingRead, Others, IInv, TypeOK
    <3>2. i_ident[j] # NoIno => used'[i_ident[j]] = used[i_ident[j]]
      BY <2>2, <3>1 DEF UInv, UniqueInode
    <3>. QED
      BY <2>2, <3>1, <3>2 DEF PlaceInv
  <2>. QED
    BY <2>1, <2>2
<1>3. ASSUME NEW n \in Inos PROVE DiskInv(n)'
  <2>1. DiskInv(n)
    BY DEF UInv
  <2>2. CASE used'[n] = used[n] /\ ~(i_ident[i] = n /\ i_dirt[i])
    <3>1. DirtyPlace(n) => DirtyPlace(n)'
      BY <2>2 DEF DirtyPlace
    <3>. QED
      BY <2>1, <2>2, <3>1 DEF DiskInv
  <2>3. CASE n = i_ident[i] /\ ~used'[n] /\ ~entry[n]
    BY <2>3 DEF DiskInv
  <2>. QED
    BY <2>2, <2>3
<1>. QED
  BY <1>1, <1>2, <1>3

LEMMA Clears ==
  ASSUME TypeOK, NEW i \in Inodes, NEW n, NEW b, Clear(i, n, b)
  PROVE  /\ i_ident'[i] = NoIno /\ ~i_lock'[i] /\ ~i_dirt'[i]
         /\ \A j \in Inodes \ {i} : /\ i_ident'[j] = i_ident[j] /\ i_dirt'[j] = i_dirt[j]
                                    /\ i_lock'[j] = i_lock[j] /\ i_nlinks'[j] = i_nlinks[j]
                                    /\ fresh'[j] = fresh[j] /\ i_count'[j] = i_count[j]
BY DEF Clear, TypeOK

(* free_inode finds what it expects: it does not panic.                    *)
LEMMA FreesIt ==
  ASSUME IInv, UInv, NEW p \in Procs, FreeInode(p)
  PROVE  /\ ~entry[i_ident[put[p]]]
         /\ used' = [used EXCEPT ![i_ident[put[p]]] = FALSE]
         /\ Clear(put[p], 0, FALSE) /\ IputReturns(p)
<1>1. OnlyAt(p, put[p]) /\ FreeInv(p) /\ pc[p] = "truncate"
  BY OnlyHis DEF FreeInode, UInv, CallInv
<1>2. PlaceInv(put[p]) /\ i_nlinks[put[p]] = 0 /\ i_count[put[p]] = 1
  BY <1>1 DEF UInv, OnlyAt, FreeInv
<1>3. ~BeingRead(put[p])
  <2>1. ASSUME NEW q \in Procs, pc[q] = "read", ino[q] = put[p] PROVE FALSE
    <3>1. q # p /\ ~NotAt(p, put[p])
      BY <1>1, <2>1 DEF NotAt
    <3>. QED
      BY <2>1, <3>1, OnlyHis DEF OnlyAt
  <2>. QED
    BY <2>1 DEF BeingRead
<1>4. used[i_ident[put[p]]] /\ ~entry[i_ident[put[p]]]
  BY <1>1, <1>2, <1>3 DEF PlaceInv, OnlyAt
<1>5. ~(i_count[put[p]] > 1 \/ i_nlinks[put[p]] # 0 \/ ~used[i_ident[put[p]]])
  BY <1>2, <1>4
<1>. QED
  BY <1>4, <1>5, Zenon DEF FreeInode

LEMMA FreeInodeHolds ==
  ASSUME IInv, UInv, FreedAlone, Running, NEW p \in Procs, FreeInode(p) PROVE UInv'
<1>. USE DEF Goto, callVars
<1>0. /\ pc[p] = "truncate"
      /\ UNCHANGED <<last_inode, saved, d_nlinks, entry, callVars, ino, wback, cursor>>
  BY DEF FreeInode
<1>1. OnlyAt(p, put[p]) /\ LocalInv(p) /\ OpInv(p) /\ SeekInv(p)
  BY <1>0, OnlyHis DEF UInv, CallInv, IInv
<1>2. PICK i \in Inodes : i = put[p]
  BY <1>1 DEF OnlyAt
<1>3. /\ ~entry[i_ident[i]] /\ used' = [used EXCEPT ![i_ident[i]] = FALSE]
      /\ Clear(i, 0, FALSE) /\ IputReturns(p)
  BY <1>2, FreesIt
<1>4. /\ i_ident[i] \in Inos /\ ~NotAt(p, i) /\ ~i_lock[i]
      /\ \A q \in Procs : Seeks(q) => want[q] # i_ident[i]
  BY <1>0, <1>1, <1>2 DEF OnlyAt, NotAt, FreedAlone
<1>5. /\ Others(p) /\ pc'[p] = back[p] /\ back'[p] = "idle" /\ back[p] \in {"idle", "scan", "hit"}
      /\ op' = op /\ want' = want /\ wback' = wback
  BY <1>0, <1>3 DEF IputReturns, IInv, TypeOK, Others
<1>6. /\ ~used'[i_ident[i]] /\ \A n \in Inos : n # i_ident[i] => used'[n] = used[n]
  BY <1>3, <1>4 DEF IInv, TypeOK
<1>7. /\ i_ident'[i] = NoIno /\ ~i_lock'[i] /\ ~i_dirt'[i]
      /\ \A j \in Inodes \ {i} : /\ i_ident'[j] = i_ident[j] /\ i_dirt'[j] = i_dirt[j]
                                 /\ i_lock'[j] = i_lock[j] /\ i_nlinks'[j] = i_nlinks[j]
                                 /\ fresh'[j] = fresh[j] /\ i_count'[j] = i_count[j]
  BY <1>3, Clears DEF IInv
<1>8. UniqueInode' /\ (\A j \in Inodes : PlaceInv(j)') /\ (\A n \in Inos : DiskInv(n)')
  BY ZenonT(60), <1>0, <1>3, <1>5, <1>6, <1>7, ClearHolds
<1>9. ~Locking(p)' /\ (Seeks(p)' => Seeks(p) /\ want'[p] = want[p])
  BY <1>5 DEF Locking, Seeks
<1>10. Gentle(p, i)
  <2>1. \A q \in Procs \ {p} : pc[q] = "read" => saved'[i_ident[ino[q]]]
    BY <1>0 DEF UInv, CallInv, ReadInv
  <2>2. \A n \in Inos : used[n] /\ ~used'[n] => \A q \in Procs : Seeks(q) => want[q] # n
    BY <1>4, <1>6
  <2>3. \A j \in Inodes : /\ i_dirt'[j] => i_dirt[j] \/ ~NotAt(p, j)
                          /\ i_lock[j] => i_lock'[j] \/ (Locking(p) /\ Subject(p) = j)
                          /\ i_lock[j] /\ i_ident[j] # NoIno => i_ident'[j] = i_ident[j]
    BY <1>4, <1>7
  <2>. QED
    BY <1>0, <1>1, <1>2, <1>4, <1>5, <1>7, <1>9, <2>1, <2>2, <2>3 DEF Gentle, Touches
<1>11. CallInv(p)'
  <2>1. OpInv(p)'
    BY <1>0, <1>1, <1>5 DEF OpInv
  <2>2. SeekInv(p)'
    <3>1. ASSUME Seeks(p) PROVE used'[want[p]]
      <4>1. want[p] \in Inos /\ used[want[p]]
        BY <1>0, <1>1, <3>1, SeeksInos DEF SeekInv
      <4>. QED
        BY <1>4, <1>6, <3>1, <4>1
    <3>. QED
      BY <1>5, <1>9, <3>1 DEF SeekInv
  <2>. QED
    BY <1>0, <1>1, <1>5, <1>9, <2>1, <2>2 DEF CallInv, LockInv, ReadInv, UnlinkInv, CreateInv,
       Creating, FreeInv, OpInv
<1>. QED
  BY <1>8, <1>9, <1>10, <1>11, Rest

LEMMA TakeEmptyHolds ==
  ASSUME IInv, UInv, FreedAlone, Running, NEW p \in Procs, pc[p] = "empty",
         NEW i \in Inodes, i_count[i] = 0, NEW n, NEW b, Clear(i, n, b), Others(p),
         UNCHANGED <<diskVars, want, back, wback>>,
         \/ pc'[p] = "idle" /\ op'[p] = "none"
         \/ pc'[p] = "scan" /\ op'[p] = "iget" /\ op[p] = "iget"
         \/ pc'[p] = "new" /\ op'[p] = "create"
  PROVE  UInv'
<1>. USE DEF diskVars
<1>1. ~i_dirt[i] /\ ~i_lock[i]
  BY DEF IInv, UnusedIsClean
<1>2. /\ i_ident'[i] = NoIno /\ ~i_lock'[i] /\ ~i_dirt'[i]
      /\ \A j \in Inodes \ {i} : /\ i_ident'[j] = i_ident[j] /\ i_dirt'[j] = i_dirt[j]
                                 /\ i_lock'[j] = i_lock[j] /\ i_nlinks'[j] = i_nlinks[j]
                                 /\ fresh'[j] = fresh[j] /\ i_count'[j] = i_count[j]
  BY Clears DEF IInv
<1>3. LocalInv(p) /\ OpInv(p) /\ SeekInv(p)
  BY DEF UInv, CallInv, IInv
<1>4. back[p] = "idle" /\ wback[p] # "hit"
  BY <1>3 DEF LocalInv, Putting, AtPut, OpInv
<1>5. UniqueInode' /\ (\A j \in Inodes : PlaceInv(j)') /\ (\A k \in Inos : DiskInv(k)')
  BY <1>1, <1>2, ClearHolds
<1>6. ~Locking(p)' /\ (Seeks(p)' => Seeks(p) /\ want'[p] = want[p])
  BY <1>4 DEF Locking, Seeks
<1>7. Gentle(p, i)
  <2>1. \A q \in Procs \ {p} : pc[q] = "read" => saved'[i_ident[ino[q]]]
    BY DEF UInv, CallInv, ReadInv
  <2>2. \A j \in Inodes : /\ i_dirt'[j] => i_dirt[j]
                          /\ i_lock[j] => i_lock'[j]
                          /\ i_lock[j] => i_ident'[j] = i_ident[j]
    BY <1>1, <1>2
  <2>. QED
    BY <1>2, <1>6, <2>1, <2>2 DEF Gentle, Touches
<1>8. CallInv(p)'
  <2>1. OpInv(p)'
    BY <1>3, <1>4 DEF OpInv
  <2>2. SeekInv(p)'
    BY <1>3, <1>6 DEF SeekInv
  <2>. QED
    BY <1>6, <2>1, <2>2 DEF CallInv, LockInv, ReadInv, UnlinkInv, CreateInv, Creating, FreeInv
<1>. QED
  BY <1>5, <1>6, <1>7, <1>8, Rest

LEMMA GetEmptyHolds ==
  ASSUME IInv, UInv, FreedAlone, Running, NEW p \in Procs, GetEmpty(p) PROVE UInv'
<1>. USE DEF GetEmpty, Goto
<1>1. LocalInv(p) /\ OpInv(p)
  BY DEF IInv, UInv, CallInv
<1>2. pc[p] = "empty" /\ op[p] \in {"iget", "create", "pipe"}
  BY <1>1 DEF LocalInv
<1>3. CASE Unused = {}
  <2>1. /\ pc' = [pc EXCEPT ![p] = "panic"]
        /\ UNCHANGED <<tableVars, fresh, last_inode, op, ino, wback, empty, file, diskVars, want,
                       got, putVars, cursor>>
    BY <1>2, <1>3 DEF Panic
  <2>2. Others(p) /\ pc'[p] = "panic"
    BY <2>1 DEF IInv, TypeOK, Others, putVars
  <2>3. Calm(p)
    BY <1>1, <1>2, <2>1, <2>2 DEF Calm, Locking, OpInv, UnlinkInv, FreeInv, Creating, Seeks,
       tableVars, diskVars, putVars
  <2>. QED
    BY <2>1, <2>3, CalmKeeps DEF Touches, tableVars
<1>4. CASE Unused # {}
  <2>1. PICK i \in Inodes : RoundEnds(i) /\ UseEmpty(p, i)
    BY <1>2, <1>4
  <2>2. Good = Unused
    BY DEF IInv, UnusedIsClean, Good, Unused
  <2>3. i \in Good
    BY <1>4, <2>1, <2>2 DEF RoundEnds
  <2>4. i_count[i] = 0 /\ TakeEmpty(p, i)
    BY <2>1, <2>3 DEF Good, Unused, UseEmpty
  <2>5. UNCHANGED <<diskVars, want, got, putVars, cursor>>
    OBVIOUS
  <2>6. CASE op[p] = "pipe"
    <3>1. /\ ino' = [ino EXCEPT ![p] = NULL] /\ UNCHANGED <<wback, empty>>
          /\ op' = [op EXCEPT ![p] = "none"] /\ pc' = [pc EXCEPT ![p] = "idle"]
          /\ \E n \in {0, 2}, b \in BOOLEAN : Clear(i, n, b)
      BY <2>4, <2>6 DEF TakeEmpty, TakePipe
    <3>2. \A q \in Procs \ {p} : file'[q] = file[q]
      <4>1. CASE UNCHANGED file
        BY <4>1
      <4>2. CASE \E f, g \in Free(p) : f # g /\ file' = [file EXCEPT ![p][f] = i, ![p][g] = i]
        BY <4>2 DEF IInv, FilesFunction
      <4>. QED
        BY <2>4, <2>6, <4>1, <4>2 DEF TakeEmpty, TakePipe
    <3>3. Others(p) /\ pc'[p] = "idle" /\ op'[p] = "none"
      BY <2>5, <3>1, <3>2 DEF IInv, TypeOK, Others, putVars
    <3>4. UNCHANGED <<diskVars, want, back, wback>>
      BY <2>5, <3>1 DEF putVars
    <3>. QED
      BY <1>2, <2>4, <3>1, <3>3, <3>4, TakeEmptyHolds
  <2>7. CASE op[p] # "pipe"
    <3>1. /\ ino' = [ino EXCEPT ![p] = NULL] /\ UNCHANGED wback /\ Clear(i, 1, FALSE)
          /\ empty' = [empty EXCEPT ![p] = i] /\ UNCHANGED <<op, file>>
          /\ pc' = [pc EXCEPT ![p] = IF op[p] = "iget" THEN "scan" ELSE "new"]
      BY <2>4, <2>7 DEF TakeEmpty
    <3>2. Others(p) /\ pc'[p] = (IF op[p] = "iget" THEN "scan" ELSE "new") /\ op'[p] = op[p]
      BY <2>5, <3>1 DEF IInv, TypeOK, Others, putVars
    <3>3. UNCHANGED <<diskVars, want, back, wback>>
      BY <2>5, <3>1 DEF putVars
    <3>. QED
      BY <1>2, <2>4, <2>7, <3>1, <3>2, <3>3, TakeEmptyHolds
  <2>. QED
    BY <2>6, <2>7
<1>. QED
  BY <1>3, <1>4

LEMMA UInit == Init => UInv
<1>. SUFFICES ASSUME Init PROVE UInv
  OBVIOUS
<1>. USE DEF Init
<1>1. IInv
  BY InitHolds
<1>2. \A p \in Procs : pc[p] = "idle" /\ op[p] = "none" /\ back[p] = "idle" /\ wback[p] = "idle"
  OBVIOUS
<1>3. \A p \in Procs : ~Seeks(p) /\ ~Locking(p) /\ ~Creating(p)
  BY <1>2 DEF Seeks, Locking, Creating
<1>4. \A p \in Procs : CallInv(p)
  BY <1>2, <1>3 DEF CallInv, OpInv, SeekInv, LockInv, ReadInv, UnlinkInv, CreateInv, FreeInv
<1>5. LocksApart
  BY <1>3 DEF LocksApart
<1>6. \A i \in Inodes : i_ident[i] \in Inos \cup {NoIno}
  BY <1>1 DEF IInv, TypeOK
<1>7. \A i \in Inodes : i_ident[i] # NoIno => i_nlinks[i] = 1 /\ fresh[i]
  OBVIOUS
<1>8. \A i \in Inodes : PlaceInv(i)
  BY <1>6, <1>7 DEF PlaceInv
<1>9. \A k \in Inos : DiskInv(k)
  BY DEF DiskInv
<1>10. UniqueInode
  <2>1. ASSUME NEW i \in Inodes, NEW j \in Inodes, i_ident[i] = i_ident[j], i_ident[i] # NoIno
        PROVE  i = j
    <3>1. Pinned # {} /\ i \in {1, 2} /\ j \in {1, 2}
      BY <2>1
    <3>2. Pinned = {MountPoint, MountRoot} /\ MountPoint # MountRoot
      BY <3>1, ConstantsAssumption DEF Pinned
    <3>. QED
      BY <2>1, <3>1, <3>2
  <2>. QED
    BY <2>1 DEF UniqueInode
<1>. QED
  BY <1>4, <1>5, <1>8, <1>9, <1>10 DEF UInv

LEMMA UStutter == ASSUME UInv, UNCHANGED vars PROVE UInv'
<1>. USE DEF vars, tableVars, diskVars, callVars, putVars, procVars
<1>1. UniqueInode' /\ LocksApart'
  BY DEF UInv, UniqueInode, LocksApart, Locking, Subject
<1>2. \A p \in Procs : CallInv(p)'
  BY DEF UInv, CallInv, OpInv, SeekInv, Seeks, LockInv, Locking, Subject, ReadInv, UnlinkInv,
     CreateInv, Creating, FreeInv
<1>3. (\A i \in Inodes : PlaceInv(i)') /\ (\A k \in Inos : DiskInv(k)')
  BY DEF UInv, PlaceInv, BeingRead, DiskInv, DirtyPlace
<1>. QED
  BY <1>1, <1>2, <1>3 DEF UInv

LEMMA UNext == IInv /\ UInv /\ FreedAlone /\ [Next]_vars => UInv'
<1>. SUFFICES ASSUME IInv, UInv, FreedAlone, [Next]_vars PROVE UInv'
  OBVIOUS
<1>1. CASE UNCHANGED vars
  BY <1>1, UStutter
<1>2. ASSUME Running, NEW p \in Procs, Call(p) PROVE UInv'
  BY <1>2, CallIgetHolds, CallNewHolds, CallIputHolds, CallUnlinkHolds, CallSyncHolds DEF Call
<1>3. ASSUME Running, NEW p \in Procs, Modify(p) PROVE UInv'
  BY <1>3, ModifyHolds
<1>4. ASSUME Running, NEW p \in Procs, Continue(p) PROVE UInv'
  BY <1>4, UnlinkedHolds, WriteCopyHolds, ReadCopyHolds, UnlockHolds, SyncInodesHolds,
     GetEmptyHolds, ScanHolds, ScanReadyHolds, NewInodeHolds, HitHolds, IputHolds,
     RepeatHolds, FreeInodeHolds DEF Continue
<1>. QED
  BY <1>1, <1>2, <1>3, <1>4 DEF Next

LEMMA UInvAlways == Spec /\ []FreedAlone => [](IInv /\ UInv)
<1>1. Init => IInv /\ UInv
  BY InitHolds, UInit
<1>2. IInv /\ UInv /\ FreedAlone /\ [Next]_vars => (IInv /\ UInv)'
  BY NextKeeps, UNext
<1>. QED
  BY <1>1, <1>2, PTL DEF Spec

(* An inode of the disk is in one place of the table at most, as long as   *)
(* inodes are freed alone: iget (inode.c 211 to 259) does not sleep        *)
(* between the end of its search and the moment the empty place gets the   *)
(* identity, and new_inode takes no number that a place still has.         *)
THEOREM UniqueInodeCorrect == Spec /\ []FreedAlone => []UniqueInode
<1>1. UInv => UniqueInode
  BY DEF UInv
<1>. QED
  BY <1>1, UInvAlways, PTL

(* What was last written to an inode is in its block or in a dirty place,  *)
(* though write_inode sleeps between the lock and the copy (inode.c 280),  *)
(* as long as inodes are freed alone.                                      *)
THEOREM NoUpdateLostCorrect == Spec /\ []FreedAlone => []NoUpdateLost
<1>1. IInv /\ UInv => NoUpdateLost
  <2>1. SUFFICES ASSUME IInv, UInv, NEW k \in Inos, used[k], ~saved[k]
                 PROVE  \E i \in Inodes : i_ident[i] = k /\ fresh[i] /\ i_dirt[i]
    BY DEF NoUpdateLost
  <2>2. PICK i \in Inodes : i_ident[i] = k /\ i_dirt[i]
    BY <2>1 DEF UInv, DiskInv, DirtyPlace
  <2>3. ~BeingRead(i)
    BY <2>1, <2>2 DEF BeingRead, UInv, CallInv, ReadInv
  <2>4. k # NoIno
    BY ConstantsAssumption
  <2>5. fresh[i]
    BY <2>1, <2>2, <2>3, <2>4 DEF UInv, PlaceInv
  <2>. QED
    BY <2>2, <2>5
<1>. QED
  BY <1>1, UInvAlways, PTL

(* A process that holds an inode sees what was last written to it: nobody  *)
(* holds an inode that is still being read, and no other place has it.     *)
THEOREM HolderSeesLastCorrect == Spec /\ []FreedAlone => []HolderSeesLast
<1>1. IInv /\ UInv => HolderSeesLast
  <2>1. SUFFICES ASSUME IInv, UInv, NEW p \in Procs, NEW f \in Held(p), ~i_pipe[file[p][f]]
                 PROVE  i_ident[file[p][f]] # NoIno /\ fresh[file[p][f]]
    BY DEF HolderSeesLast
  <2>2. file[p][f] \in Inodes /\ i_ident[file[p][f]] # NoIno /\ f \in Fds[p]
    BY <2>1, HeldPlace
  <2>3. ASSUME NEW q \in Procs, pc[q] = "read", ino[q] = file[p][f] PROVE FALSE
    <3>1. OnlyAt(q, ino[q]) /\ ino[q] = got[q]
      BY <2>1, <2>3, OnlyHis
    <3>2. At[Ref("got", q)] = got[q] /\ "got" \in Kinds
      BY AtValues DEF Kinds
    <3>3. got[q] # NULL /\ i_count[got[q]] <= 1
      BY <3>1 DEF OnlyAt, Inodes, NULL
    <3>4. \A g \in Fds[q] : file[q][g] # got[q]
      BY <2>1, <3>2, <3>3, OnlyOne DEF IInv
    <3>. QED
      BY <2>2, <2>3, <3>1, <3>4 DEF OnlyAt, NotAt
  <2>4. ~BeingRead(file[p][f])
    BY <2>3 DEF BeingRead
  <2>. QED
    BY <2>1, <2>2, <2>4 DEF UInv, PlaceInv
<1>. QED
  BY <1>1, UInvAlways, PTL

(* A step that does not end in a panic.                                    *)
Goes(p) == pc' = pc \/ \E l \in Labels \ {"panic"} : Goto(p, l)

LEMMA DropGoes ==
  ASSUME IInv, NEW p \in Procs, Drop(p) PROVE Goes(p)
<1>1. back[p] \in Labels \ {"panic"}
  BY DEF IInv, TypeOK, Labels
<1>2. CASE IputReturns(p)
  BY <1>1, <1>2 DEF IputReturns, Goes
<1>3. CASE Goto(p, "truncate")
  BY <1>3 DEF Goes, Labels
<1>4. CASE StartWrite(p, put[p], "repeat")
  BY <1>4 DEF StartWrite, Goes, Labels
<1>. QED
  BY <1>2, <1>3, <1>4 DEF Drop

LEMMA IputGoes ==
  ASSUME IInv, NEW p \in Procs, Iput(p) PROVE Goes(p)
<1>1. back[p] \in Labels \ {"panic"}
  BY DEF IInv, TypeOK, Labels
<1>2. i_count[put[p]] # 0
  BY IputPuts DEF Iput, Puts
<1>3. CASE IputReturns(p)
  BY <1>1, <1>3 DEF IputReturns, Goes
<1>4. CASE Goto(p, "sync_dev")
  BY <1>4 DEF Goes, Labels
<1>5. CASE Drop(p)
  BY <1>5, DropGoes
<1>. QED
  BY <1>2, <1>3, <1>4, <1>5 DEF Iput

(* get_empty_inode finds the table full for nobody.                        *)
RoomLeft == \A p \in Procs : pc[p] = "empty" => Unused # {}

LEMMA GetEmptyGoes ==
  ASSUME IInv, RoomLeft, NEW p \in Procs, GetEmpty(p) PROVE Goes(p)
<1>1. PICK i \in Inodes : UseEmpty(p, i)
  BY DEF GetEmpty, RoomLeft
<1>2. CASE TakeEmpty(p, i)
  BY <1>2 DEF TakeEmpty, TakePipe, Goes, Labels
<1>3. CASE Goto(p, "empty_wait") \/ Goto(p, "empty")
  BY <1>3 DEF Goes, Labels
<1>4. CASE StartWrite(p, i, "empty_wait")
  BY <1>4 DEF StartWrite, Goes, Labels
<1>. QED
  BY <1>1, <1>2, <1>3, <1>4 DEF UseEmpty

LEMMA ScansGo ==
  ASSUME NEW p \in Procs, Scan(p) \/ ScanReady(p) PROVE Goes(p)
<1>1. CASE Install(p)
  BY <1>1 DEF Install, Goes, Labels
<1>2. CASE \E i \in Inodes \cup {ino[p]} : Found(p, i)
  BY <1>2 DEF Found, Goes, Labels
<1>3. CASE Goto(p, "scan_wait") \/ Goto(p, "scan")
  BY <1>3 DEF Goes, Labels
<1>4. CASE Scan(p)
  BY <1>1, <1>2, <1>3, <1>4 DEF Scan
<1>5. CASE ScanReady(p)
  BY <1>2, <1>3, <1>5 DEF ScanReady
<1>. QED
  BY <1>4, <1>5

LEMMA NoPanic ==
  ASSUME IInv, UInv, RoomLeft, NEW p \in Procs, Call(p) \/ Modify(p) \/ Continue(p)
  PROVE  Goes(p)
<1>1. CASE CallIget(p) \/ CallNew(p) \/ CallIput(p) \/ CallUnlink(p) \/ CallSync(p)
  BY <1>1 DEF CallIget, CallNew, CallIput, CallUnlink, CallSync, Goes, Labels
<1>2. CASE Modify(p)
  BY <1>2 DEF Modify, procVars, Goes
<1>3. CASE Unlinked(p) \/ WriteCopy(p) \/ ReadCopy(p) \/ Hit(p) \/ NewInode(p)
  BY <1>3 DEF Unlinked, WriteCopy, ReadCopy, Hit, NewInode, Goes, Labels
<1>4. CASE Unlock(p)
  <2>1. wback[p] \in Labels \ {"panic"}
    BY DEF IInv, TypeOK, Labels
  <2>. QED
    BY <1>4, <2>1 DEF Unlock, Goes
<1>5. CASE SyncInodes(p)
  BY <1>5 DEF SyncInodes, StartWrite, Goes, Labels
<1>6. CASE FreeInode(p)
  <2>1. IputReturns(p) /\ back[p] \in Labels \ {"panic"}
    BY <1>6, FreesIt DEF IInv, TypeOK, Labels
  <2>. QED
    BY <2>1 DEF IputReturns, Goes
<1>7. CASE Repeat(p)
  BY <1>7, DropGoes DEF Repeat
<1>8. CASE GetEmpty(p) \/ Scan(p) \/ ScanReady(p) \/ Iput(p)
  BY <1>8, GetEmptyGoes, ScansGo, IputGoes
<1>9. CASE Call(p)
  BY <1>1, <1>9 DEF Call
<1>10. CASE Continue(p)
  BY <1>3, <1>4, <1>5, <1>6, <1>7, <1>8, <1>10 DEF Continue
<1>. QED
  BY <1>2, <1>9, <1>10

(* Nothing panics as long as inodes are freed alone and get_empty_inode    *)
(* finds a place (inode.c 185): iput is not given a free inode, and        *)
(* free_inode not one that others use or that was freed already.           *)
THEOREM NeverPanicsCorrect == Spec /\ []FreedAlone /\ []RoomLeft => []NeverPanics
<1>1. Init => NeverPanics
  BY DEF Init, NeverPanics, Running
<1>2. IInv /\ UInv /\ FreedAlone /\ RoomLeft /\ NeverPanics /\ [Next]_vars => NeverPanics'
  <2>. SUFFICES ASSUME IInv, UInv, FreedAlone, RoomLeft, Running, Next
                PROVE  Running'
    BY DEF NeverPanics, Running, vars, procVars
  <2>1. PICK p \in Procs : Call(p) \/ Modify(p) \/ Continue(p)
    BY DEF Next
  <2>2. Goes(p)
    BY <2>1, NoPanic
  <2>. QED
    BY <2>2 DEF Goes, Goto, Running, IInv, TypeOK
<1>. QED
  BY <1>1, <1>2, UInvAlways, PTL DEF Spec
-----------------------------------------------------------------------------
(* One process that creates, unlinks and syncs.                            *)

(* Only process u creates, unlinks and syncs, and only u looks up what is  *)
(* removed, and the block special files, whose iput calls sync_dev and so  *)
(* sync_inodes.                                                            *)
LoneRemover(u) ==
  \A p \in Procs \ {u} : /\ Ops[p] \cap {"create", "unlink", "sync"} = {}
                         /\ Names[p] \cap (Removable \cup Special) = {}

(* An inode whose last iput neither frees it nor syncs, or none (of a pipe *)
(* or an empty place).                                                     *)
Stays(k) == k \in Pinned \/ k \notin Removable \cup Special

(* The other processes refer only to places with such an inode, and look   *)
(* only for such inodes.                                                   *)
OnlyStaying(p) ==
  /\ op[p] # "create" /\ pc[p] \notin {"unlink", "new", "sync", "sync_dev"}
  /\ wback[p] \notin {"sync", "sync_dev"}
  /\ Seeks(p) => Stays(want[p])
  /\ \A x \in Inodes : NotAt(p, x) \/ Stays(i_ident[x])

OwnInv(p) ==
  /\ pc[p] = "unlock" /\ wback[p] = "hit" => ino[p] = got[p]
  /\ back[p] = "scan" => i_ident[put[p]] \in Pinned

Locks(q, i) == Locking(q) /\ Subject(q) = i

SInv(u) ==
  /\ \A p \in Procs \ {u} : OnlyStaying(p)
  /\ \A p \in Procs : OwnInv(p)
  /\ \A i \in Inodes : i_lock[i] => \E q \in Procs : Locks(q, i)
  /\ \A k \in Inos : entry[k] \/ k \in Removable

(* Whoever frees an inode is u, and so nobody else deals with it.          *)
LEMMA FreesAlone ==
  ASSUME IInv, UInv, NEW u \in Procs, SInv(u) PROVE FreedAlone
<1>1. SUFFICES ASSUME NEW p \in Procs, pc[p] = "truncate"
               PROVE  /\ ~i_lock[put[p]]
                      /\ \A q \in Procs : Seeks(q) => want[q] # i_ident[put[p]]
  BY DEF FreedAlone
<1>2. OnlyAt(p, put[p]) /\ FreeInv(p) /\ PlaceInv(put[p]) /\ LocalInv(p) /\ OwnInv(p)
  BY <1>1, OnlyHis DEF UInv, CallInv, IInv, SInv, OnlyAt
<1>3. PICK i \in Inodes : i = put[p]
  BY <1>2 DEF OnlyAt
<1>4. ASSUME NEW q \in Procs, pc[q] = "read" PROVE Subject(q) # i /\ ino[q] # i
  <2>1. OnlyAt(q, ino[q]) /\ Subject(q) = ino[q] /\ q # p
    BY <1>1, <1>4, OnlyHis, SubjectIs DEF Locking
  <2>. QED
    BY <1>3, <2>1 DEF OnlyAt, NotAt
<1>5. i_ident[i] \in Removable /\ i_ident[i] \notin Pinned
  <2>1. ~BeingRead(i)
    BY <1>4 DEF BeingRead
  <2>2. i_ident[i] \in Inos /\ ~entry[i_ident[i]]
    BY <1>1, <1>2, <1>3, <2>1 DEF PlaceInv, FreeInv, OnlyAt
  <2>. QED
    BY <1>2, <1>3, <2>2 DEF SInv, OnlyAt
<1>6. ~Stays(i_ident[i])
  BY <1>5 DEF Stays
<1>7. p = u
  <2>1. ~NotAt(p, i)
    BY <1>3 DEF NotAt
  <2>. QED
    BY <1>6, <2>1 DEF SInv, OnlyStaying
<1>8. ASSUME i_lock[i] PROVE FALSE
  <2>1. PICK q \in Procs : Locking(q) /\ Subject(q) = i
    BY <1>8 DEF SInv, Locks
  <2>2. q # p /\ pc[q] \in {"write", "unlock"}
    BY <1>1, <1>4, <2>1 DEF Locking
  <2>3. NotAt(q, i) /\ OnlyStaying(q) /\ OwnInv(q) /\ LocalInv(q)
    BY <1>2, <1>3, <1>7, <2>2 DEF OnlyAt, SInv, IInv
  <2>4. wback[q] \in {"idle", "empty_wait", "repeat", "sync", "sync_dev", "hit"}
    BY DEF IInv, TypeOK
  <2>5. wback[q] = "hit"
    BY <2>1, <2>2, <2>3, <2>4 DEF LocalInv, OnlyStaying, Subject, NotAt
  <2>6. pc[q] = "unlock"
    BY <2>2, <2>3, <2>5 DEF LocalInv
  <2>. QED
    BY <2>1, <2>3, <2>5, <2>6 DEF OwnInv, Subject, NotAt
<1>9. ASSUME NEW q \in Procs, Seeks(q) PROVE want[q] # i_ident[i]
  <2>1. CASE q = p
    <3>1. back[p] = "scan"
      BY <1>1, <1>9, <2>1 DEF Seeks
    <3>. QED
      BY <1>2, <1>3, <1>5, <3>1 DEF OwnInv
  <2>2. CASE q # p
    BY <1>6, <1>7, <1>9, <2>2 DEF SInv, OnlyStaying
  <2>. QED
    BY <2>1, <2>2
<1>. QED
  BY <1>3, <1>8, <1>9

(* What a step of p does to place i's identity.                            *)
Renames(u, p, i) ==
  \/ i_ident'[i] = i_ident[i]
  \/ i_ident'[i] = NoIno /\ i_ident[i] \notin Pinned
  \/ /\ i_ident[i] = NoIno
     /\ \A q \in Procs \ {p} : NotAt(q, i)
     /\ p # u => Stays(i_ident'[i])

(* What SInv asks of a step of p.                                          *)
Spares(u, p) ==
  /\ Others(p)
  /\ \A i \in Inodes : Renames(u, p, i)
  /\ \A i \in Inodes : i_lock'[i] => Locks(p, i)' \/ (i_lock[i] /\ ~Locks(p, i))
  /\ \A k \in Inos : entry[k] /\ ~entry'[k] => k \in Removable
  /\ p # u =>
       /\ op'[p] # "create" /\ pc'[p] \notin {"unlink", "new", "sync", "sync_dev"}
       /\ wback'[p] \notin {"sync", "sync_dev"}
       /\ Seeks(p)' => (Seeks(p) /\ want'[p] = want[p]) \/ Stays(want'[p])
       /\ \A x \in Inodes : NotAt(p, x)' \/ ~NotAt(p, x) \/ Stays(i_ident'[x])
  /\ OwnInv(p)'

LEMMA NoneStays == Stays(NoIno)
BY ConstantsAssumption DEF Stays

LEMMA Spared ==
  ASSUME IInv, Running, NEW u \in Procs, SInv(u), NEW p \in Procs, Spares(u, p)
  PROVE  SInv(u)'
<1>1. /\ Others(p) /\ \A i \in Inodes : Renames(u, p, i)
      /\ \A i \in Inodes : i_lock'[i] => Locks(p, i)' \/ (i_lock[i] /\ ~Locks(p, i))
      /\ \A k \in Inos : entry[k] /\ ~entry'[k] => k \in Removable
      /\ OwnInv(p)'
  BY DEF Spares
<1>2. ASSUME NEW x \in Inodes, Stays(i_ident[x]), NEW q \in Procs \ {u}, q = p \/ ~NotAt(q, x)
      PROVE  Stays(i_ident'[x])
  BY <1>1, <1>2, NoneStays DEF Renames
<1>3. ASSUME NEW q \in Procs \ {p}
      PROVE  /\ Locks(q, u)' <=> Locks(q, u)
             /\ \A i \in Inodes : (NotAt(q, i)' <=> NotAt(q, i)) /\ (Locks(q, i)' <=> Locks(q, i))
             /\ Seeks(q)' <=> Seeks(q)
             /\ pc'[q] = pc[q] /\ op'[q] = op[q] /\ want'[q] = want[q] /\ ino'[q] = ino[q]
             /\ back'[q] = back[q] /\ wback'[q] = wback[q] /\ got'[q] = got[q] /\ put'[q] = put[q]
  BY <1>1 DEF Others, NotAt, Locks, Locking, Subject, Seeks
<1>4. ASSUME NEW q \in Procs \ {u} PROVE OnlyStaying(q)'
  <2>1. OnlyStaying(q)
    BY DEF SInv
  <2>2. CASE q = p
    <3>1. ASSUME NEW x \in Inodes PROVE NotAt(q, x)' \/ Stays(i_ident'[x])
      BY <1>2, <2>1, <2>2 DEF Spares, OnlyStaying
    <3>. QED
      BY <2>1, <2>2, <3>1 DEF Spares, OnlyStaying
  <2>3. CASE q # p
    <3>1. ASSUME NEW x \in Inodes PROVE NotAt(q, x)' \/ Stays(i_ident'[x])
      BY <1>2, <1>3, <2>1, <2>3 DEF OnlyStaying
    <3>. QED
      BY <1>3, <2>1, <2>3, <3>1 DEF OnlyStaying
  <2>. QED
    BY <2>2, <2>3
<1>5. ASSUME NEW q \in Procs PROVE OwnInv(q)'
  <2>1. CASE q = p
    BY <1>1, <2>1
  <2>2. CASE q # p
    <3>1. OwnInv(q) /\ LocalInv(q) /\ pc[q] # "panic"
      BY DEF SInv, IInv, Running
    <3>2. ASSUME back[q] = "scan" PROVE i_ident'[put[q]] \in Pinned
      <4>1. put[q] \in Inodes /\ i_ident[put[q]] \in Pinned /\ ~NotAt(q, put[q])
        BY <3>1, <3>2, CallPlace DEF OwnInv, LocalInv, NotAt
      <4>. QED
        BY <1>1, <2>2, <4>1 DEF Renames
    <3>. QED
      BY <1>3, <2>2, <3>1, <3>2 DEF OwnInv
  <2>. QED
    BY <2>1, <2>2
<1>6. ASSUME NEW i \in Inodes, i_lock'[i] PROVE \E q \in Procs : Locks(q, i)'
  <2>1. CASE Locks(p, i)'
    BY <2>1
  <2>2. CASE i_lock[i] /\ ~Locks(p, i)
    <3>1. PICK q \in Procs : Locks(q, i)
      BY <2>2 DEF SInv
    <3>. QED
      BY <1>3, <2>2, <3>1
  <2>. QED
    BY <1>1, <1>6, <2>1, <2>2
<1>7. \A k \in Inos : entry'[k] \/ k \in Removable
  BY <1>1 DEF SInv
<1>. QED
  BY <1>4, <1>5, <1>6, <1>7 DEF SInv

(* A step that gives no place another inode, takes no lock and removes no  *)
(* entry, while p neither reads nor writes an inode.                       *)
LEMMA Plain ==
  ASSUME IInv, Running, NEW u \in Procs, SInv(u), NEW p \in Procs, Others(p), ~Locking(p),
         UNCHANGED i_ident, \A i \in Inodes : i_lock'[i] => i_lock[i] \/ Locks(p, i)',
         \A k \in Inos : entry[k] => entry'[k],
         p # u =>
           /\ op'[p] # "create" /\ pc'[p] \notin {"unlink", "new", "sync", "sync_dev"}
           /\ wback'[p] \notin {"sync", "sync_dev"}
           /\ Seeks(p)' => (Seeks(p) /\ want'[p] = want[p]) \/ Stays(want'[p])
           /\ \A x \in Inodes : NotAt(p, x)' \/ ~NotAt(p, x) \/ Stays(i_ident[x]),
         OwnInv(p)'
PROVE  SInv(u)'
<1>1. Spares(u, p)
  BY DEF Spares, Renames, Locks
<1>. QED
  BY <1>1, Spared

(* While p is idle, or puts nothing back for iget's search, it has nothing *)
(* to keep.                                                                *)
LEMMA OwnFree ==
  ASSUME NEW p, pc[p] # "unlock", back[p] # "scan" PROVE OwnInv(p)
BY DEF OwnInv

LEMMA CallIgetSpares ==
  ASSUME IInv, Running, NEW u \in Procs, LoneRemover(u), SInv(u), NEW p \in Procs, CallIget(p)
  PROVE  SInv(u)'
<1>. USE DEF CallIget, Goto, tableVars, diskVars, putVars
<1>1. PICK k \in Names[p] : want' = [want EXCEPT ![p] = k]
  OBVIOUS
<1>2. /\ Others(p) /\ pc'[p] = "empty" /\ op'[p] = "iget" /\ want'[p] = k /\ wback' = wback
      /\ back' = back
  BY <1>1 DEF IInv, TypeOK, Others
<1>3. LocalInv(p) /\ back[p] = "idle"
  BY DEF IInv, LocalInv, Putting, AtPut
<1>4. \A x \in Inodes : NotAt(p, x)' <=> NotAt(p, x)
  BY DEF NotAt
<1>5. p # u => Stays(k) /\ OnlyStaying(p)
  BY DEF LoneRemover, Stays, SInv
<1>6. OwnInv(p)'
  BY <1>2, <1>3 DEF OwnInv
<1>. QED
  BY <1>2, <1>4, <1>5, <1>6, Plain DEF OnlyStaying, Locking

LEMMA CallNewSpares ==
  ASSUME IInv, Running, NEW u \in Procs, LoneRemover(u), SInv(u), NEW p \in Procs, CallNew(p)
  PROVE  SInv(u)'
<1>. USE DEF CallNew, Goto, tableVars, diskVars, putVars
<1>1. PICK o \in Ops[p] \cap {"create", "pipe"} : op' = [op EXCEPT ![p] = o]
  OBVIOUS
<1>2. /\ Others(p) /\ pc'[p] = "empty" /\ op'[p] = o /\ wback' = wback /\ back' = back
  BY <1>1 DEF IInv, TypeOK, Others
<1>3. LocalInv(p) /\ back[p] = "idle"
  BY DEF IInv, LocalInv, Putting, AtPut
<1>4. (\A x \in Inodes : NotAt(p, x)' <=> NotAt(p, x)) /\ ~Locking(p)
  BY DEF NotAt, Locking
<1>5. p # u => o = "pipe" /\ OnlyStaying(p)
  BY DEF LoneRemover, SInv
<1>6. OwnInv(p)' /\ (p # u => ~Seeks(p)')
  BY <1>2, <1>3, <1>5 DEF OwnInv, Seeks
<1>7. p # u => op'[p] # "create" /\ pc'[p] \notin {"unlink", "new", "sync", "sync_dev"}
         /\ wback'[p] \notin {"sync", "sync_dev"}
  BY <1>2, <1>5 DEF OnlyStaying
<1>. QED
  BY <1>2, <1>4, <1>6, <1>7, Plain

LEMMA CallSyncSpares ==
  ASSUME IInv, Running, NEW u \in Procs, LoneRemover(u), SInv(u), NEW p \in Procs, CallSync(p)
  PROVE  SInv(u)'
<1>. USE DEF CallSync, Goto, tableVars, diskVars, putVars, callVars
<1>1. Others(p) /\ pc'[p] = "sync" /\ back' = back /\ p = u
  BY DEF IInv, TypeOK, Others, LoneRemover
<1>2. LocalInv(p) /\ back[p] = "idle"
  BY DEF IInv, LocalInv, Putting, AtPut
<1>3. OwnInv(p)'
  BY <1>1, <1>2 DEF OwnInv
<1>. QED
  BY <1>1, <1>3, Plain DEF Locking

(* A file is given up: p now refers to its place as iput's argument.       *)
LEMMA GiveUpSpares ==
  ASSUME IInv, Running, NEW u \in Procs, SInv(u), NEW p \in Procs, pc[p] = "idle",
         NEW f \in Held(p), put' = [put EXCEPT ![p] = file[p][f]],
         file' = [file EXCEPT ![p][f] = NULL], NEW l \in {"iput", "unlink"}, Goto(p, l),
         l = "unlink" => p = u,
         \A k \in Inos : entry[k] /\ ~entry'[k] => k \in Removable,
         UNCHANGED <<tableVars, op, want, ino, empty, got, back, wback>>
  PROVE  SInv(u)'
<1>. USE DEF Goto, tableVars
<1>1. Others(p) /\ pc'[p] = l /\ put'[p] = file[p][f] /\ f \in Fds[p]
  BY DEF IInv, TypeOK, Others, FilesFunction, Held
<1>2. LocalInv(p) /\ back[p] = "idle"
  BY DEF IInv, LocalInv, Putting, AtPut
<1>3. \A g \in Fds[p] : g # f => file'[p][g] = file[p][g]
  BY DEF IInv, TypeOK, FilesFunction
<1>4. file'[p][f] = NULL
  BY <1>1 DEF IInv, TypeOK, FilesFunction
<1>5. ASSUME NEW x \in Inodes, NotAt(p, x) PROVE NotAt(p, x)'
  BY <1>1, <1>3, <1>4, <1>5 DEF NotAt, Inodes, NULL
<1>6. OwnInv(p)' /\ (Seeks(p)' => Seeks(p))
  BY <1>1, <1>2 DEF OwnInv, Seeks
<1>7. p # u => OnlyStaying(p)
  BY DEF SInv
<1>8. p # u => op'[p] # "create" /\ pc'[p] \notin {"unlink", "new", "sync", "sync_dev"}
         /\ wback'[p] \notin {"sync", "sync_dev"}
  BY <1>1, <1>7 DEF OnlyStaying
<1>9. Spares(u, p)
  BY <1>1, <1>5, <1>6, <1>8 DEF Spares, Renames, Locks, Locking
<1>. QED
  BY <1>9, Spared

LEMMA CallIputSpares ==
  ASSUME IInv, Running, NEW u \in Procs, SInv(u), NEW p \in Procs, CallIput(p)
  PROVE  SInv(u)'
BY GiveUpSpares DEF CallIput, diskVars

LEMMA CallUnlinkSpares ==
  ASSUME IInv, Running, NEW u \in Procs, LoneRemover(u), SInv(u), NEW p \in Procs, CallUnlink(p)
  PROVE  SInv(u)'
<1>1. p = u
  BY DEF CallUnlink, LoneRemover
<1>2. PICK f \in Held(p) :
        /\ i_ident[file[p][f]] \in Removable
        /\ entry' = [entry EXCEPT ![i_ident[file[p][f]]] = FALSE]
        /\ put' = [put EXCEPT ![p] = file[p][f]]
        /\ file' = [file EXCEPT ![p][f] = NULL]
  BY DEF CallUnlink
<1>3. \A k \in Inos : entry[k] /\ ~entry'[k] => k \in Removable
  BY <1>2 DEF IInv, TypeOK
<1>. QED
  BY <1>1, <1>2, <1>3, GiveUpSpares DEF CallUnlink

LEMMA ModifySpares ==
  ASSUME IInv, Running, NEW u \in Procs, SInv(u), NEW p \in Procs, Modify(p)
  PROVE  SInv(u)'
<1>. USE DEF Modify, procVars, callVars, putVars
<1>1. Others(p) /\ (\A x \in Inodes : NotAt(p, x)' <=> NotAt(p, x)) /\ (Seeks(p)' <=> Seeks(p))
  BY DEF IInv, TypeOK, Others, NotAt, Seeks
<1>2. OwnInv(p)' /\ (p # u => OnlyStaying(p))
  BY DEF SInv, OwnInv
<1>. QED
  BY <1>1, <1>2, Plain DEF OnlyStaying, Locking

LEMMA UnlinkedSpares ==
  ASSUME IInv, Running, NEW u \in Procs, SInv(u), NEW p \in Procs, Unlinked(p)
  PROVE  SInv(u)'
<1>. USE DEF Unlinked, Goto, callVars, putVars
<1>1. Others(p) /\ pc'[p] = "iput" /\ back' = back
  BY DEF IInv, TypeOK, Others
<1>2. p = u
  BY DEF SInv, OnlyStaying
<1>3. OwnInv(p)'
  BY <1>1 DEF SInv, OwnInv
<1>. QED
  BY <1>1, <1>2, <1>3, Plain DEF Locking

LEMMA WriteCopySpares ==
  ASSUME IInv, Running, NEW u \in Procs, SInv(u), NEW p \in Procs, WriteCopy(p)
  PROVE  SInv(u)'
<1>. USE DEF WriteCopy, Goto, callVars, putVars
<1>1. /\ Others(p) /\ pc'[p] = "unlock" /\ pc[p] = "write"
      /\ UNCHANGED <<i_ident, i_lock, entry, op, want, empty, got, file, ino, put, back, wback>>
  BY DEF IInv, TypeOK, Others
<1>2. LocalInv(p) /\ (p # u => OnlyStaying(p)) /\ OwnInv(p)
  BY DEF IInv, SInv
<1>3. OwnInv(p)'
  BY <1>1, <1>2 DEF LocalInv, OwnInv
<1>4. \A i \in Inodes : Locks(p, i)' <=> Locks(p, i)
  BY <1>1 DEF Locks, Locking, Subject
<1>5. (\A x \in Inodes : NotAt(p, x)' <=> NotAt(p, x)) /\ (Seeks(p)' => Seeks(p))
  BY <1>1 DEF NotAt, Seeks
<1>6. Spares(u, p)
  BY <1>1, <1>2, <1>3, <1>4, <1>5 DEF Spares, Renames, OnlyStaying
<1>. QED
  BY <1>6, Spared

LEMMA ReadCopySpares ==
  ASSUME IInv, Running, NEW u \in Procs, SInv(u), NEW p \in Procs, ReadCopy(p)
  PROVE  SInv(u)'
<1>. USE DEF ReadCopy, Goto, callVars, putVars, diskVars
<1>1. /\ Others(p) /\ pc'[p] = "unlock" /\ pc[p] = "read"
      /\ UNCHANGED <<i_ident, i_lock, entry, op, want, empty, got, file, ino, put, back, wback>>
  BY DEF IInv, TypeOK, Others
<1>2. LocalInv(p) /\ (p # u => OnlyStaying(p)) /\ OwnInv(p)
  BY DEF IInv, SInv
<1>3. OwnInv(p)'
  BY <1>1, <1>2 DEF LocalInv, OwnInv
<1>4. \A i \in Inodes : Locks(p, i)' <=> Locks(p, i)
  BY <1>1 DEF Locks, Locking, Subject
<1>5. (\A x \in Inodes : NotAt(p, x)' <=> NotAt(p, x)) /\ (Seeks(p)' => Seeks(p))
  BY <1>1 DEF NotAt, Seeks
<1>6. Spares(u, p)
  BY <1>1, <1>2, <1>3, <1>4, <1>5 DEF Spares, Renames, OnlyStaying
<1>. QED
  BY <1>6, Spared

LEMMA UnlockSpares ==
  ASSUME IInv, Running, NEW u \in Procs, SInv(u), NEW p \in Procs, Unlock(p)
  PROVE  SInv(u)'
<1>. USE DEF Unlock, Goto, callVars, putVars, diskVars
<1>1. /\ Others(p) /\ pc'[p] = wback[p] /\ wback'[p] = "idle"
      /\ UNCHANGED <<i_ident, entry, op, want, empty, got, file, ino, put, back>>
  BY DEF IInv, TypeOK, Others
<1>2. LocalInv(p) /\ (p # u => OnlyStaying(p)) /\ OwnInv(p)
  BY DEF IInv, SInv
<1>3. pc'[p] \in {"repeat", "sync", "sync_dev", "hit"}
  BY <1>1, <1>2 DEF LocalInv, IInv, TypeOK
<1>4. OwnInv(p)' /\ ~Locking(p)'
  BY <1>1, <1>2, <1>3 DEF OwnInv, Locking
<1>5. \A i \in Inodes : i_lock'[i] => i_lock[i] /\ ~Locks(p, i)
  BY DEF IInv, TypeOK, Locks
<1>6. (\A x \in Inodes : NotAt(p, x)' <=> NotAt(p, x)) /\ (Seeks(p)' => Seeks(p))
  BY <1>1, <1>3 DEF NotAt, Seeks
<1>7. p # u => op'[p] # "create" /\ pc'[p] \notin {"unlink", "new", "sync", "sync_dev"}
         /\ wback'[p] \notin {"sync", "sync_dev"}
  BY <1>1, <1>2, <1>3 DEF OnlyStaying
<1>8. Spares(u, p)
  BY <1>1, <1>4, <1>5, <1>6, <1>7 DEF Spares, Renames
<1>. QED
  BY <1>8, Spared

LEMMA SyncInodesSpares ==
  ASSUME IInv, Running, NEW u \in Procs, SInv(u), NEW p \in Procs, SyncInodes(p)
  PROVE  SInv(u)'
<1>. USE DEF SyncInodes, Goto, callVars, putVars, diskVars
<1>1. pc[p] \in {"sync", "sync_dev"} /\ p = u /\ ~Locking(p) /\ UNCHANGED <<i_ident, entry, back>>
  BY DEF SInv, OnlyStaying, Locking
<1>2. OwnInv(p) /\ UNCHANGED put
  BY DEF SInv
<1>3. CASE cursor[p] > NR_INODE
  <2>1. Others(p) /\ pc'[p] \in {"idle", "repeat"} /\ UNCHANGED i_lock
    BY <1>3 DEF IInv, TypeOK, Others
  <2>. QED
    BY <1>1, <1>2, <2>1, Plain DEF OwnInv
<1>4. CASE ~(cursor[p] > NR_INODE) /\ UNCHANGED <<pc, i_lock, ino, wback>>
  <2>1. Others(p) /\ pc'[p] = pc[p]
    BY <1>1, <1>4 DEF IInv, TypeOK, Others
  <2>. QED
    BY <1>1, <1>2, <1>4, <2>1, Plain DEF OwnInv
<1>5. CASE ino' = [ino EXCEPT ![p] = cursor[p]] /\ StartWrite(p, cursor[p], pc[p])
  <2>1. /\ Others(p) /\ pc'[p] = "write" /\ wback'[p] = pc[p] /\ ino'[p] = cursor[p]
    BY <1>5 DEF IInv, TypeOK, Others, StartWrite
  <2>2. \A i \in Inodes : i_lock'[i] => i_lock[i] \/ Locks(p, i)'
    BY <1>5, <2>1 DEF IInv, TypeOK, StartWrite, Locks, Locking, Subject
  <2>. QED
    BY <1>1, <1>2, <2>1, <2>2, Plain DEF OwnInv
<1>. QED
  BY <1>3, <1>4, <1>5

(* get_empty_inode ends with a place nobody uses.                          *)
LEMMA TakeEmptySpares ==
  ASSUME IInv, Running, NEW u \in Procs, SInv(u), NEW p \in Procs, pc[p] = "empty",
         NEW i \in Inodes, i_count[i] = 0, NEW n, NEW b, Clear(i, n, b), Others(p),
         UNCHANGED <<entry, want, back, wback, got, put>>,
         empty'[p] \in {empty[p], i}, \A f \in Fds[p] : file'[p][f] \in {file[p][f], i},
         \/ pc'[p] = "idle" /\ op'[p] = "none"
         \/ pc'[p] = "scan" /\ op'[p] = "iget" /\ op[p] = "iget"
         \/ pc'[p] = "new" /\ op'[p] = "create" /\ op[p] = "create"
  PROVE  SInv(u)'
<1>1. /\ i_ident'[i] = NoIno /\ ~i_lock'[i]
      /\ \A j \in Inodes \ {i} : i_ident'[j] = i_ident[j] /\ i_lock'[j] = i_lock[j]
  BY Clears DEF IInv
<1>2. i_ident[i] \notin Pinned
  BY NobodyAt DEF IInv
<1>3. LocalInv(p) /\ back[p] = "idle" /\ (p # u => OnlyStaying(p))
  BY DEF IInv, LocalInv, Putting, AtPut, SInv
<1>4. \A j \in Inodes : Renames(u, p, j)
  BY <1>1, <1>2 DEF Renames
<1>5. \A j \in Inodes : i_lock'[j] => i_lock[j] /\ ~Locks(p, j)
  BY <1>1 DEF Locks, Locking
<1>6. \A x \in Inodes : NotAt(p, x)' \/ ~NotAt(p, x) \/ Stays(i_ident'[x])
  BY <1>1, NoneStays DEF NotAt
<1>7. OwnInv(p)' /\ (Seeks(p)' => Seeks(p) /\ want'[p] = want[p])
  BY <1>3 DEF OwnInv, Seeks
<1>8. p # u => op'[p] # "create" /\ pc'[p] \notin {"unlink", "new", "sync", "sync_dev"}
         /\ wback'[p] \notin {"sync", "sync_dev"}
  BY <1>3 DEF OnlyStaying
<1>9. Spares(u, p)
  BY <1>4, <1>5, <1>6, <1>7, <1>8 DEF Spares
<1>. QED
  BY <1>9, Spared

LEMMA GetEmptySpares ==
  ASSUME IInv, Running, NEW u \in Procs, SInv(u), NEW p \in Procs, GetEmpty(p)
  PROVE  SInv(u)'
<1>. USE DEF GetEmpty, Goto
<1>1. LocalInv(p) /\ (p # u => OnlyStaying(p))
  BY DEF IInv, SInv
<1>2. pc[p] = "empty" /\ op[p] \in {"iget", "create", "pipe"} /\ back[p] = "idle"
  BY <1>1 DEF LocalInv, Putting, AtPut
<1>3. CASE Unused = {}
  <2>1. /\ pc' = [pc EXCEPT ![p] = "panic"]
        /\ UNCHANGED <<i_ident, i_lock, op, ino, wback, empty, file, entry, want, got, put, back>>
    BY <1>2, <1>3 DEF Panic, tableVars, diskVars, putVars
  <2>2. Others(p) /\ pc'[p] = "panic"
    BY <2>1 DEF IInv, TypeOK, Others
  <2>3. \A x \in Inodes : NotAt(p, x)' <=> NotAt(p, x)
    BY <2>1 DEF NotAt
  <2>4. OwnInv(p)' /\ ~Seeks(p)' /\ ~Locking(p)
    BY <1>2, <2>1, <2>2 DEF OwnInv, Seeks, Locking
  <2>. QED
    BY <1>1, <2>1, <2>2, <2>3, <2>4, Plain DEF OnlyStaying
<1>4. CASE Unused # {}
  <2>1. PICK i \in Inodes : RoundEnds(i) /\ UseEmpty(p, i)
    BY <1>2, <1>4
  <2>2. Good = Unused
    BY DEF IInv, UnusedIsClean, Good, Unused
  <2>3. i \in Good
    BY <1>4, <2>1, <2>2 DEF RoundEnds
  <2>4. i_count[i] = 0 /\ TakeEmpty(p, i)
    BY <2>1, <2>3 DEF Good, Unused, UseEmpty
  <2>5. UNCHANGED <<entry, want, got, put, back>>
    BY DEF diskVars, putVars
  <2>6. CASE op[p] = "pipe"
    <3>1. /\ ino' = [ino EXCEPT ![p] = NULL] /\ UNCHANGED <<wback, empty>>
          /\ op' = [op EXCEPT ![p] = "none"] /\ pc' = [pc EXCEPT ![p] = "idle"]
          /\ \E n \in {0, 2}, b \in BOOLEAN : Clear(i, n, b)
      BY <2>4, <2>6 DEF TakeEmpty, TakePipe
    <3>2. /\ \A q \in Procs \ {p} : file'[q] = file[q]
          /\ \A f \in Fds[p] : file'[p][f] \in {file[p][f], i}
      <4>1. CASE UNCHANGED file
        BY <4>1
      <4>2. CASE \E f, g \in Free(p) : f # g /\ file' = [file EXCEPT ![p][f] = i, ![p][g] = i]
        BY <4>2 DEF IInv, TypeOK, FilesFunction
      <4>. QED
        BY <2>4, <2>6, <4>1, <4>2 DEF TakeEmpty, TakePipe
    <3>3. Others(p) /\ pc'[p] = "idle" /\ op'[p] = "none"
      BY <2>5, <3>1, <3>2 DEF IInv, TypeOK, Others
    <3>. QED
      BY <1>2, <2>4, <2>5, <3>1, <3>2, <3>3, TakeEmptySpares
  <2>7. CASE op[p] # "pipe"
    <3>1. /\ ino' = [ino EXCEPT ![p] = NULL] /\ UNCHANGED wback /\ Clear(i, 1, FALSE)
          /\ empty' = [empty EXCEPT ![p] = i] /\ UNCHANGED <<op, file>>
          /\ pc' = [pc EXCEPT ![p] = IF op[p] = "iget" THEN "scan" ELSE "new"]
      BY <2>4, <2>7 DEF TakeEmpty
    <3>2. /\ Others(p) /\ pc'[p] = (IF op[p] = "iget" THEN "scan" ELSE "new") /\ op'[p] = op[p]
          /\ empty'[p] = i
      BY <2>5, <3>1 DEF IInv, TypeOK, Others
    <3>. QED
      BY <1>2, <2>4, <2>5, <2>7, <3>1, <3>2, TakeEmptySpares
  <2>. QED
    BY <2>6, <2>7
<1>. QED
  BY <1>3, <1>4

LEMMA InstallSpares ==
  ASSUME IInv, Running, NEW u \in Procs, SInv(u), NEW p \in Procs, pc[p] = "scan", Install(p),
         UNCHANGED <<want, putVars, diskVars, op, file>>
  PROVE  SInv(u)'
<1>. DEFINE e == empty[p]
<1>. USE DEF Install, Goto, putVars, diskVars
<1>1. /\ e \in Inodes /\ e # NULL /\ i_ident[e] = NoIno /\ \A q \in Procs \ {p} : NotAt(q, e)
      /\ back[p] = "idle"
  BY EmptyPlace DEF Taking
<1>2. /\ Others(p) /\ pc'[p] = "read" /\ ino'[p] = e /\ got'[p] = e /\ empty'[p] = NULL
      /\ wback'[p] = "hit"
  BY DEF IInv, TypeOK, Others
<1>3. p # u => OnlyStaying(p) /\ Stays(want[p])
  BY DEF SInv, OnlyStaying, Seeks
<1>4. i_ident'[e] = want[p] /\ \A i \in Inodes \ {e} : i_ident'[i] = i_ident[i]
  BY <1>1 DEF IInv, TypeOK
<1>5. \A i \in Inodes : Renames(u, p, i)
  BY <1>1, <1>3, <1>4 DEF Renames
<1>6. /\ Locking(p)' /\ Subject(p)' = e /\ ~Locking(p)
      /\ \A i \in Inodes \ {e} : i_lock'[i] = i_lock[i]
  BY <1>1, <1>2 DEF Locking, Subject, IInv, TypeOK
<1>7. \A i \in Inodes : i_lock'[i] => Locks(p, i)' \/ (i_lock[i] /\ ~Locks(p, i))
  BY <1>6 DEF Locks
<1>8. ASSUME NEW x \in Inodes, NotAt(p, x) PROVE NotAt(p, x)'
  BY <1>2, <1>8 DEF NotAt, Inodes, NULL
<1>9. OwnInv(p)' /\ ~Seeks(p)'
  BY <1>1, <1>2 DEF OwnInv, Seeks
<1>10. p # u => op'[p] # "create" /\ pc'[p] \notin {"unlink", "new", "sync", "sync_dev"}
         /\ wback'[p] \notin {"sync", "sync_dev"}
  BY <1>2, <1>3 DEF OnlyStaying
<1>11. Spares(u, p)
  BY <1>2, <1>5, <1>7, <1>8, <1>9, <1>10 DEF Spares
<1>. QED
  BY <1>11, Spared

LEMMA FoundSpares ==
  ASSUME IInv, Running, NEW u \in Procs, SInv(u), NEW p \in Procs, pc[p] \in {"scan", "scan_wait"},
         NEW i \in Inodes, Found(p, i), i_ident[i] = want[p],
         UNCHANGED <<diskVars, op, file>>
  PROVE  SInv(u)'
<1>. USE DEF Found, Goto, diskVars
<1>1. /\ Taking(p) /\ empty[p] \in Inodes /\ i_ident[empty[p]] = NoIno /\ got[p] = NULL
      /\ put[p] = NULL /\ back[p] = "idle"
  BY EmptyPlace DEF Taking
<1>2. LocalInv(p) /\ want[p] \in Inos
  BY <1>1 DEF IInv, LocalInv
<1>3. Others(p) /\ pc'[p] = "iput" /\ UNCHANGED <<i_ident, i_lock, wback>>
  BY DEF IInv, TypeOK, Others
<1>4. p # u => OnlyStaying(p) /\ Stays(i_ident[i])
  BY DEF SInv, OnlyStaying, Seeks
<1>5. p # u => op'[p] # "create" /\ pc'[p] \notin {"unlink", "new", "sync", "sync_dev"}
         /\ wback'[p] \notin {"sync", "sync_dev"}
  BY <1>3, <1>4 DEF OnlyStaying
<1>6. CASE want[p] = MountPoint
  <2>1. /\ put'[p] = i /\ back'[p] = "scan" /\ want'[p] = MountRoot
        /\ UNCHANGED <<got, empty>>
    BY <1>6 DEF IInv, TypeOK
  <2>2. want[p] \in Pinned /\ MountRoot \in Pinned
    BY <1>2, <1>6, ConstantsAssumption DEF Pinned
  <2>3. ASSUME NEW x \in Inodes PROVE NotAt(p, x)' \/ ~NotAt(p, x) \/ Stays(i_ident[x])
    BY <2>1, <2>2 DEF NotAt, Stays
  <2>4. OwnInv(p)' /\ (Seeks(p)' => Stays(want'[p])) /\ ~Locking(p)
    BY <1>3, <2>1, <2>2 DEF OwnInv, Stays, Locking
  <2>. QED
    BY <1>3, <1>5, <2>3, <2>4, Plain
<1>7. CASE want[p] # MountPoint
  <2>1. /\ got'[p] = i /\ put'[p] = empty[p] /\ empty'[p] = NULL /\ back'[p] = "hit"
    BY <1>7 DEF IInv, TypeOK
  <2>2. ASSUME NEW x \in Inodes, p # u PROVE NotAt(p, x)' \/ ~NotAt(p, x) \/ Stays(i_ident[x])
    BY <1>4, <2>1, <2>2 DEF NotAt, Inodes, NULL
  <2>3. OwnInv(p)' /\ ~Seeks(p)' /\ ~Locking(p)
    BY <1>3, <2>1 DEF OwnInv, Seeks, Locking
  <2>. QED
    BY <1>3, <1>5, <2>2, <2>3, Plain
<1>. QED
  BY <1>6, <1>7

(* iget goes on searching.                                                 *)
LEMMA SearchSpares ==
  ASSUME IInv, Running, NEW u \in Procs, SInv(u), NEW p \in Procs, pc[p] \in {"scan", "scan_wait"},
         Others(p), pc'[p] \in {"scan", "scan_wait"},
         UNCHANGED <<i_ident, i_lock, want, got, empty, putVars, wback, diskVars, op, file>>
  PROVE  SInv(u)'
<1>. USE DEF putVars, diskVars
<1>1. pc'[p] \in {"scan", "scan_wait"}
  OBVIOUS
<1>2. back[p] = "idle"
  BY EmptyPlace DEF Taking
<1>3. OwnInv(p)' /\ Seeks(p) /\ ~Locking(p)
  BY <1>1, <1>2 DEF OwnInv, Seeks, Locking
<1>4. \A x \in Inodes : NotAt(p, x)' <=> NotAt(p, x)
  BY DEF NotAt
<1>5. p # u => op'[p] # "create" /\ pc'[p] \notin {"unlink", "new", "sync", "sync_dev"}
         /\ wback'[p] \notin {"sync", "sync_dev"}
  BY <1>1 DEF SInv, OnlyStaying
<1>. QED
  BY <1>1, <1>3, <1>4, <1>5, Plain

LEMMA ScanSpares ==
  ASSUME IInv, Running, NEW u \in Procs, SInv(u), NEW p \in Procs, Scan(p)
  PROVE  SInv(u)'
<1>1. pc[p] = "scan" /\ UNCHANGED <<diskVars, op, file>>
  BY DEF Scan
<1>2. CASE Install(p) /\ UNCHANGED <<i_count, want, putVars>>
  BY <1>1, <1>2, InstallSpares
<1>3. ASSUME NEW i \in Inodes, i_ident[i] = want[p], Found(p, i) PROVE SInv(u)'
  BY <1>1, <1>3, FoundSpares
<1>4. ASSUME NEW i \in Inodes, ino' = [ino EXCEPT ![p] = i], Goto(p, "scan_wait"),
             UNCHANGED <<i_ident, i_count, i_lock, want, got, empty, putVars, wback>>
      PROVE  SInv(u)'
  <2>1. Others(p) /\ pc'[p] = "scan_wait"
    BY <1>1, <1>4 DEF Goto, putVars, IInv, TypeOK, Others
  <2>. QED
    BY <1>1, <1>4, <2>1, SearchSpares
<1>. QED
  BY <1>2, <1>3, <1>4 DEF Scan

LEMMA ScanReadySpares ==
  ASSUME IInv, Running, NEW u \in Procs, SInv(u), NEW p \in Procs, ScanReady(p)
  PROVE  SInv(u)'
<1>1. pc[p] = "scan_wait" /\ UNCHANGED <<diskVars, op, file>>
  BY DEF ScanReady
<1>2. CASE i_ident[ino[p]] = want[p] /\ Found(p, ino[p])
  <2>1. ino[p] \in Inodes
    BY <1>1 DEF IInv, TypeOK, LocalInv
  <2>. QED
    BY <1>1, <1>2, <2>1, FoundSpares
<1>3. CASE Goto(p, "scan") /\ UNCHANGED <<i_ident, i_count, i_lock, want, ino, empty, got,
                                          putVars, wback>>
  <2>1. Others(p) /\ pc'[p] = "scan"
    BY <1>1, <1>3 DEF Goto, putVars, IInv, TypeOK, Others
  <2>. QED
    BY <1>1, <1>3, <2>1, SearchSpares
<1>. QED
  BY <1>2, <1>3 DEF ScanReady

LEMMA NewInodeSpares ==
  ASSUME IInv, Running, NEW u \in Procs, SInv(u), NEW p \in Procs, NewInode(p)
  PROVE  SInv(u)'
<1>. USE DEF NewInode, Goto, putVars
<1>1. /\ p = u /\ ~Locking(p) /\ back[p] = "idle" /\ empty[p] \in Inodes
      /\ i_ident[empty[p]] = NoIno /\ \A q \in Procs \ {p} : NotAt(q, empty[p])
  BY EmptyPlace DEF SInv, OnlyStaying, Locking, Taking
<1>2. Others(p) /\ UNCHANGED <<i_lock, entry, wback>>
  BY DEF IInv, TypeOK, Others
<1>3. \A i \in Inodes : i # empty[p] => i_ident'[i] = i_ident[i]
  BY DEF IInv, TypeOK
<1>4. \A i \in Inodes : Renames(u, p, i)
  BY <1>1, <1>3 DEF Renames
<1>5. pc'[p] # "unlock" /\ back' = back
  BY DEF IInv, TypeOK
<1>6. OwnInv(p)'
  BY <1>1, <1>5 DEF OwnInv
<1>7. Spares(u, p)
  BY <1>1, <1>2, <1>4, <1>6 DEF Spares, Locks
<1>. QED
  BY <1>7, Spared

LEMMA HitSpares ==
  ASSUME IInv, Running, NEW u \in Procs, SInv(u), NEW p \in Procs, Hit(p)
  PROVE  SInv(u)'
<1>. USE DEF Hit, Goto, putVars, tableVars
<1>1. PICK f \in Free(p) : file' = [file EXCEPT ![p][f] = got[p]]
  OBVIOUS
<1>2. Others(p) /\ pc'[p] = "idle" /\ op'[p] = "none" /\ got'[p] = NULL
  BY <1>1 DEF IInv, TypeOK, Others, FilesFunction
<1>3. LocalInv(p) /\ back[p] = "idle"
  BY DEF IInv, LocalInv, Putting, AtPut
<1>4. \A g \in Fds[p] : file'[p][g] \in {file[p][g], got[p]}
  BY <1>1 DEF IInv, TypeOK, FilesFunction
<1>5. ASSUME NEW x \in Inodes, NotAt(p, x) PROVE NotAt(p, x)'
  BY <1>2, <1>4, <1>5 DEF NotAt, Inodes, NULL
<1>6. OwnInv(p)' /\ ~Seeks(p)' /\ ~Locking(p)
  BY <1>2, <1>3 DEF OwnInv, Seeks, Locking
<1>7. \A k \in Inos : entry[k] => entry'[k]
  BY DEF IInv, TypeOK
<1>8. p # u => op'[p] # "create" /\ pc'[p] \notin {"unlink", "new", "sync", "sync_dev"}
         /\ wback'[p] \notin {"sync", "sync_dev"}
  BY <1>2 DEF SInv, OnlyStaying
<1>. QED
  BY <1>2, <1>5, <1>6, <1>7, <1>8, Plain

(* iput ends, or starts a write.                                           *)
LEMMA IputReturnsSpares ==
  ASSUME IInv, Running, NEW u \in Procs, SInv(u), NEW p \in Procs, ~Locking(p),
         IputReturns(p), Others(p), UNCHANGED <<entry, callVars, wback>>,
         \A i \in Inodes : i_lock'[i] => i_lock[i],
         \A i \in Inodes : i_ident'[i] = i_ident[i]
                           \/ (i_ident'[i] = NoIno /\ i_ident[i] \notin Pinned)
  PROVE  SInv(u)'
<1>. USE DEF IputReturns, Goto, callVars
<1>1. /\ pc'[p] = back[p] /\ back'[p] = "idle" /\ back[p] \in {"idle", "scan", "hit"}
      /\ put'[p] = NULL
  BY DEF IInv, TypeOK
<1>2. ASSUME NEW x \in Inodes, NotAt(p, x) PROVE NotAt(p, x)'
  BY <1>1, <1>2 DEF NotAt, Inodes, NULL
<1>3. OwnInv(p)' /\ (Seeks(p)' => Seeks(p) /\ want'[p] = want[p])
  BY <1>1 DEF OwnInv, Seeks
<1>4. p # u => op'[p] # "create" /\ pc'[p] \notin {"unlink", "new", "sync", "sync_dev"}
         /\ wback'[p] \notin {"sync", "sync_dev"}
  BY <1>1 DEF SInv, OnlyStaying
<1>5. Spares(u, p)
  BY <1>2, <1>3, <1>4 DEF Spares, Renames, Locks
<1>. QED
  BY <1>5, Spared

LEMMA IputGoesOn ==
  ASSUME IInv, Running, NEW u \in Procs, SInv(u), NEW p \in Procs, pc[p] \in {"iput", "repeat"},
         UNCHANGED <<i_ident, entry, callVars, ino, putVars>>,
         \/ \E l \in {"panic", "truncate"} : Goto(p, l) /\ UNCHANGED <<i_lock, wback>>
         \/ p = u /\ Goto(p, "sync_dev") /\ UNCHANGED <<i_lock, wback>>
         \/ StartWrite(p, put[p], "repeat")
  PROVE  SInv(u)'
<1>. USE DEF Goto, callVars, putVars
<1>1. /\ Others(p) /\ pc'[p] \in {"panic", "truncate", "write", "sync_dev"}
      /\ wback'[p] \in {wback[p], "repeat"} /\ (p # u => pc'[p] # "sync_dev")
  BY DEF IInv, TypeOK, Others, StartWrite
<1>2. \A x \in Inodes : NotAt(p, x)' <=> NotAt(p, x)
  BY DEF NotAt
<1>3. OwnInv(p) /\ ~Locking(p)
  BY DEF SInv, Locking
<1>4. OwnInv(p)' /\ (Seeks(p)' => Seeks(p) /\ want'[p] = want[p])
  BY <1>1, <1>3 DEF OwnInv, Seeks
<1>5. p # u => op'[p] # "create" /\ pc'[p] \notin {"unlink", "new", "sync", "sync_dev"}
         /\ wback'[p] \notin {"sync", "sync_dev"}
  BY <1>1 DEF SInv, OnlyStaying
<1>6. \A i \in Inodes : i_lock'[i] => i_lock[i] \/ Locks(p, i)'
  <2>1. CASE UNCHANGED i_lock
    BY <2>1
  <2>2. CASE StartWrite(p, put[p], "repeat")
    <3>1. pc'[p] = "write" /\ wback'[p] = "repeat"
      BY <2>2 DEF StartWrite, IInv, TypeOK
    <3>. QED
      BY <2>2, <3>1 DEF StartWrite, IInv, TypeOK, Locks, Locking, Subject
  <2>. QED
    BY <2>1, <2>2
<1>. QED
  BY <1>1, <1>2, <1>3, <1>4, <1>5, <1>6, Plain

LEMMA DropSpares ==
  ASSUME IInv, Running, NEW u \in Procs, SInv(u), NEW p \in Procs, pc[p] \in {"iput", "repeat"},
         Drop(p), UNCHANGED <<i_ident, diskVars, callVars, ino>>
  PROVE  SInv(u)'
<1>. USE DEF diskVars
<1>1. CASE IputReturns(p) /\ UNCHANGED <<i_lock, wback>>
  <2>1. Others(p) /\ ~Locking(p)
    BY <1>1 DEF IputReturns, Goto, IInv, TypeOK, Others, callVars, Locking
  <2>. QED
    BY <1>1, <2>1, IputReturnsSpares
<1>2. CASE Goto(p, "truncate") /\ UNCHANGED <<putVars, i_lock, wback>>
  BY <1>2, IputGoesOn
<1>3. CASE StartWrite(p, put[p], "repeat") /\ UNCHANGED putVars
  BY <1>3, IputGoesOn
<1>. QED
  BY <1>1, <1>2, <1>3 DEF Drop

LEMMA PinnedNotSpecial == Pinned \cap Special = {}
BY ConstantsAssumption DEF Pinned

LEMMA IputSpares ==
  ASSUME IInv, Running, NEW u \in Procs, SInv(u), NEW p \in Procs, Iput(p) \/ Repeat(p)
  PROVE  SInv(u)'
<1>. USE DEF diskVars
<1>1. pc[p] \in {"iput", "repeat"} /\ UNCHANGED <<i_ident, diskVars, callVars, ino>>
  BY DEF Iput, Repeat
<1>2. CASE IputReturns(p) /\ UNCHANGED <<i_lock, wback>>
  <2>1. Others(p) /\ ~Locking(p)
    BY <1>1, <1>2 DEF IputReturns, Goto, IInv, TypeOK, Others, callVars, Locking
  <2>. QED
    BY <1>1, <1>2, <2>1, IputReturnsSpares
<1>3. CASE (Panic(p) \/ (Goto(p, "sync_dev") /\ p = u)) /\ UNCHANGED <<i_lock, putVars, wback>>
  BY <1>1, <1>3, IputGoesOn DEF Panic
<1>4. CASE Drop(p)
  BY <1>1, <1>4, DropSpares
<1>5. CASE Repeat(p)
  BY <1>4, <1>5 DEF Repeat
<1>6. CASE Iput(p)
  <2>1. CASE i_ident[put[p]] \in Special /\ i_ident[put[p]] # NoIno
    <3>1. put[p] \in Inodes /\ i_ident[put[p]] \notin Pinned
      BY <1>1, <1>6, <2>1, IputPuts, PinnedNotSpecial DEF Puts, Iput
    <3>2. p = u
      BY <2>1, <3>1 DEF SInv, OnlyStaying, NotAt, Stays
    <3>. QED
      BY <1>2, <1>3, <1>4, <1>6, <3>2 DEF Iput
  <2>. QED
    BY <1>2, <1>3, <1>4, <1>6, <2>1 DEF Iput
<1>. QED
  BY <1>5, <1>6

LEMMA FreeInodeSpares ==
  ASSUME IInv, UInv, Running, NEW u \in Procs, SInv(u), NEW p \in Procs, FreeInode(p)
  PROVE  SInv(u)'
<1>1. /\ pc[p] = "truncate" /\ UNCHANGED <<entry, callVars, ino, wback>>
      /\ Clear(put[p], 0, FALSE) /\ IputReturns(p) /\ OnlyAt(p, put[p])
  BY FreesIt, OnlyHis DEF FreeInode
<1>2. PICK i \in Inodes : i = put[p]
  BY <1>1 DEF OnlyAt
<1>3. /\ i_ident'[i] = NoIno /\ ~i_lock'[i] /\ i_ident[i] \notin Pinned
      /\ \A j \in Inodes \ {i} : i_ident'[j] = i_ident[j] /\ i_lock'[j] = i_lock[j]
  BY <1>1, <1>2, Clears DEF IInv, OnlyAt
<1>4. Others(p) /\ ~Locking(p)
  BY <1>1 DEF IputReturns, Goto, IInv, TypeOK, Others, callVars, Locking
<1>. QED
  BY <1>1, <1>3, <1>4, IputReturnsSpares

LEMMA SInit == ASSUME Init, NEW u \in Procs, LoneRemover(u) PROVE SInv(u)
<1>. USE DEF Init
<1>1. \A p \in Procs : pc[p] = "idle" /\ op[p] = "none" /\ back[p] = "idle" /\ wback[p] = "idle"
  OBVIOUS
<1>2. \A p \in Procs : ~Seeks(p) /\ OwnInv(p)
  BY <1>1 DEF Seeks, OwnInv
<1>3. \A p \in Procs, x \in Inodes : NotAt(p, x)
  BY DEF NotAt, Inodes, NULL
<1>. QED
  BY <1>1, <1>2, <1>3 DEF SInv, OnlyStaying

LEMMA SNext ==
  ASSUME IInv, UInv, NEW u \in Procs, LoneRemover(u), SInv(u), [Next]_vars
  PROVE  SInv(u)'
<1>1. CASE UNCHANGED vars
  <2>. USE DEF vars, tableVars, diskVars, callVars, putVars, procVars
  <2>1. \A p \in Procs : (OnlyStaying(p)' <=> OnlyStaying(p)) /\ (OwnInv(p)' <=> OwnInv(p))
    BY <1>1 DEF OnlyStaying, OwnInv, NotAt, Seeks
  <2>2. \A p \in Procs : \A i \in Inodes : Locks(p, i)' <=> Locks(p, i)
    BY <1>1 DEF Locks, Locking, Subject
  <2>3. UNCHANGED <<i_lock, entry>>
    BY <1>1
  <2>. QED
    BY <2>1, <2>2, <2>3 DEF SInv
<1>2. ASSUME Running, NEW p \in Procs, Call(p) PROVE SInv(u)'
  BY <1>2, CallIgetSpares, CallNewSpares, CallIputSpares, CallUnlinkSpares, CallSyncSpares DEF Call
<1>3. ASSUME Running, NEW p \in Procs, Modify(p) PROVE SInv(u)'
  BY <1>3, ModifySpares
<1>4. ASSUME Running, NEW p \in Procs, Continue(p) PROVE SInv(u)'
  BY <1>4, UnlinkedSpares, WriteCopySpares, ReadCopySpares, UnlockSpares, SyncInodesSpares,
     GetEmptySpares, ScanSpares, ScanReadySpares, NewInodeSpares, HitSpares, IputSpares,
     FreeInodeSpares DEF Continue
<1>. QED
  BY <1>1, <1>2, <1>3, <1>4 DEF Next

(* An inode is freed alone, whatever the processes do, if all names that   *)
(* are ever removed are looked up by one process, and it alone creates,    *)
(* unlinks and syncs: the freeing of an inode (inode.c 152) then meets     *)
(* nobody, though the others look up, share, change and put inodes, and    *)
(* make pipes, meanwhile.                                                  *)
THEOREM FreedAloneCorrect ==
  ASSUME NEW u \in Procs, LoneRemover(u) PROVE Spec => []FreedAlone
<1>1. Init => IInv /\ UInv /\ SInv(u)
  BY InitHolds, UInit, SInit
<1>2. IInv /\ UInv /\ SInv(u) => FreedAlone
  BY FreesAlone
<1>3. IInv /\ UInv /\ SInv(u) /\ [Next]_vars => (IInv /\ UInv /\ SInv(u))'
  <2>1. IInv /\ UInv /\ SInv(u) /\ [Next]_vars => SInv(u)'
    BY SNext
  <2>. QED
    BY <1>2, <2>1, NextKeeps, UNext
<1>. QED
  BY <1>1, <1>2, <1>3, PTL DEF Spec

(* So for one remover: an inode has one place, no update is lost, and      *)
(* every holder sees the last one, from the specification alone.           *)
THEOREM LoneRemoverSafe ==
  ASSUME NEW u \in Procs, LoneRemover(u)
  PROVE  Spec => [](UniqueInode /\ NoUpdateLost /\ HolderSeesLast)
BY FreedAloneCorrect, UniqueInodeCorrect, NoUpdateLostCorrect, HolderSeesLastCorrect, PTL

(* A table with a place for every reference there can be, and for the two  *)
(* inodes of a mount, never fills up.                                      *)
Roomy == Cardinality(References) + Cardinality(Pinned) < NR_INODE

LEMMA RoomIsLeft ==
  ASSUME IInv, UniqueInode, Roomy PROVE Unused # {}
<1>. DEFINE R == {r \in References : At[r] # NULL}
            A == {i \in Inodes : \E r \in R : At[r] = i}
            B == {i \in Inodes : i_ident[i] \in Pinned}
            f == [r \in R |-> At[r]]
            g == [i \in B |-> i_ident[i]]
<1>1. IsFiniteSet(R) /\ Cardinality(R) <= Cardinality(References)
  BY RefsFinite, FS_Subset
<1>2. At \in [References -> Inodes \cup {NULL}]
  BY AtValues DEF IInv
<1>3. f \in Surjection(R, A)
  BY <1>2 DEF Surjection
<1>4. IsFiniteSet(A) /\ Cardinality(A) <= Cardinality(R)
  BY ONLY <1>1, <1>3, FS_Surjection
<1>5. IsFiniteSet(Pinned)
  <2>1. IsFiniteSet({}) /\ IsFiniteSet({MountPoint})
    BY FS_EmptySet, FS_Singleton
  <2>2. IsFiniteSet({MountPoint} \cup {MountRoot})
    BY <2>1, FS_AddElement
  <2>3. {MountPoint} \cup {MountRoot} = {MountPoint, MountRoot}
    OBVIOUS
  <2>. QED
    BY <2>1, <2>2, <2>3 DEF Pinned
<1>6. g \in Injection(B, Pinned)
  BY PinnedInos DEF UniqueInode, Injection, IsInjective
<1>7. IsFiniteSet(B) /\ Cardinality(B) <= Cardinality(Pinned)
  BY ONLY <1>5, <1>6, FS_Injection
<1>8. ASSUME Unused = {} PROVE Inodes = A \cup B
  <2>1. ASSUME NEW i \in Inodes PROVE i \in A \cup B
    <3>1. i_count[i] # 0 /\ i_count[i] = Count(At, i) + Pin(i_ident[i])
      BY <1>8 DEF Unused, IInv, CountInv
    <3>2. CASE i_ident[i] \in Pinned
      BY <3>2
    <3>3. CASE Count(At, i) # 0
      <4>1. {r \in References : At[r] = i} # {}
        BY <3>3, FS_EmptySet DEF Count
      <4>. QED
        BY <4>1 DEF Inodes, NULL
    <3>. QED
      BY <3>1, <3>2, <3>3 DEF Pin
  <2>. QED
    BY <2>1
<1>9. /\ Cardinality(A) \in Nat /\ Cardinality(B) \in Nat /\ Cardinality(R) \in Nat
       /\ Cardinality(References) \in Nat /\ Cardinality(Pinned) \in Nat
  BY <1>1, <1>4, <1>5, <1>7, RefsFinite, FS_CardinalityType
<1>. HIDE DEF A, B, R
<1>10. IsFiniteSet(A \cup B) /\ Cardinality(A \cup B) <= Cardinality(A) + Cardinality(B)
  <2>1. IsFiniteSet(A \cap B) /\ Cardinality(A \cap B) \in Nat
    BY <1>4, FS_Subset, FS_CardinalityType
  <2>2. /\ IsFiniteSet(A \cup B)
        /\ Cardinality(A \cup B) = Cardinality(A) + Cardinality(B) - Cardinality(A \cap B)
    BY ONLY <1>4, <1>7, FS_Union
  <2>. QED
    BY <1>9, <2>1, <2>2
<1>11. Cardinality(Inodes) = NR_INODE
  <2>1. NR_INODE \in Int /\ ~(1 > NR_INODE)
    BY ConstantsAssumption
  <2>2. Cardinality(1..NR_INODE) = IF 1 > NR_INODE THEN 0 ELSE NR_INODE - 1 + 1
    BY <2>1, FS_Interval
  <2>. QED
    BY <2>1, <2>2 DEF Inodes
<1>12. NR_INODE \in Nat
  BY ConstantsAssumption
<1>13. Cardinality(A \cup B) \in Nat
  BY <1>10, FS_CardinalityType
<1>14. Cardinality(References) + Cardinality(Pinned) < NR_INODE
  BY DEF Roomy
<1>15. Cardinality(A \cup B) < NR_INODE
  BY <1>1, <1>4, <1>7, <1>9, <1>10, <1>12, <1>13, <1>14
<1>16. A \cup B # Inodes
  BY <1>11, <1>12, <1>13, <1>15
<1>. QED
  BY <1>8, <1>16

(* Then nothing panics.                                                    *)
THEOREM LoneRemoverNeverPanics ==
  ASSUME NEW u \in Procs, LoneRemover(u), Roomy PROVE Spec => []NeverPanics
<1>1. IInv /\ UInv => RoomLeft
  BY RoomIsLeft DEF UInv, RoomLeft
<1>2. Spec => []FreedAlone
  BY FreedAloneCorrect
<1>. QED
  BY <1>1, <1>2, UInvAlways, NeverPanicsCorrect, PTL
=============================================================================
