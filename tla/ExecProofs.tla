----------------------------- MODULE ExecProofs -----------------------------
(***************************************************************************)
(* Theorems about OpenFiles and Exec, for every number of descriptors and  *)
(* files, every finite set of processes and of pages, every set of inodes  *)
(* and every choice of calls.                                              *)
(***************************************************************************)
EXTENDS Exec, FiniteSetsExt, FiniteSetTheorems, WellFoundedInduction, TLAPS

(***************************************************************************)
(* Lemmas about sets.                                                      *)
(***************************************************************************)
(* A set of natural numbers that is not empty has a least element.         *)
LEMMA MinNat ==
    ASSUME NEW S, S \subseteq Nat, S # {}
    PROVE  Min(S) \in S /\ \A y \in S : Min(S) =< y
<1>. DEFINE R == OpToRel(<, Nat)
<1>1. IsWellFoundedOn(R, Nat)
  BY NatLessThanWellFounded
<1>. HIDE DEF R
<1>2. PICK x \in S : \A y \in S : ~ (<<y, x>> \in R)
  BY <1>1, WFMin
<1>3. \A y \in S : ~ (y < x)
  BY <1>2 DEF R, OpToRel
<1>4. \A y \in S : x =< y
  BY <1>3
<1>. QED
  BY <1>4 DEF Min

(* Sizes of finite sets.                                                   *)
LEMMA CardType ==
    ASSUME NEW S, IsFiniteSet(S)
    PROVE  Cardinality(S) \in Nat /\ (Cardinality(S) = 0 <=> S = {})
BY FS_CardinalityType, FS_EmptySet

LEMMA CardAdd ==
    ASSUME NEW S, NEW x, IsFiniteSet(S), x \notin S
    PROVE  IsFiniteSet(S \union {x}) /\ Cardinality(S \union {x}) = Cardinality(S) + 1
BY FS_AddElement

LEMMA CardRemove ==
    ASSUME NEW S, NEW x, IsFiniteSet(S), x \in S
    PROVE  IsFiniteSet(S \ {x}) /\ Cardinality(S \ {x}) = Cardinality(S) - 1
BY FS_RemoveElement

(* A set with one element in it counts at least one; if it counts exactly  *)
(* one, that is all there is in it.                                        *)
LEMMA CardOne ==
    ASSUME NEW S, IsFiniteSet(S), NEW x \in S
    PROVE  /\ Cardinality(S) >= 1
           /\ Cardinality(S) = 1 => S = {x}
<1>1. Cardinality(S) \in Nat /\ Cardinality(S) # 0
  BY CardType
<1>2. Cardinality(S) = 1 => \E y : S = {y}
  BY FS_Singleton
<1>. QED
  BY <1>1, <1>2

(* The two least elements of a set of at least two natural numbers.        *)
LEMMA MinTwo ==
    ASSUME NEW S, S \subseteq Nat, IsFiniteSet(S), Cardinality(S) >= 2
    PROVE  /\ Min(S) \in S
           /\ Min(S \ {Min(S)}) \in S
           /\ Min(S \ {Min(S)}) # Min(S)
<1>1. S # {}
  BY FS_EmptySet
<1>2. Min(S) \in S
  BY <1>1, MinNat
<1>3. IsFiniteSet(S \ {Min(S)}) /\ Cardinality(S \ {Min(S)}) >= 1
  BY <1>2, CardRemove, CardType
<1>4. S \ {Min(S)} # {}
  BY <1>3, FS_EmptySet
<1>5. Min(S \ {Min(S)}) \in S \ {Min(S)}
  BY <1>4, MinNat
<1>. QED
  BY <1>2, <1>5

(* Two subsets of a finite set that differ at most in x.                   *)
In(x, S) == IF x \in S THEN 1 ELSE 0

LEMMA CardDiffer ==
    ASSUME NEW S, IsFiniteSet(S), NEW A \in SUBSET S, NEW B \in SUBSET S, NEW x \in S,
           \A y \in S : y # x => (y \in A <=> y \in B)
    PROVE  /\ Cardinality(A) \in Nat /\ Cardinality(B) \in Nat
           /\ Cardinality(B) = Cardinality(A) + In(x, B) - In(x, A)
<1>1. IsFiniteSet(A) /\ IsFiniteSet(B)
  BY FS_Subset
<1>2. Cardinality(A) \in Nat /\ Cardinality(B) \in Nat
  BY <1>1, CardType
<1>3. CASE x \in A /\ x \notin B
  <2>1. B = A \ {x}
    BY <1>3
  <2>. QED
    BY <1>1, <1>2, <1>3, <2>1, CardRemove DEF In
<1>4. CASE x \notin A /\ x \in B
  <2>1. B = A \union {x}
    BY <1>4
  <2>. QED
    BY <1>1, <1>2, <1>4, <2>1, CardAdd DEF In
<1>5. CASE x \in A <=> x \in B
  <2>1. B = A
    BY <1>5
  <2>. QED
    BY <1>2, <2>1 DEF In
<1>. QED
  BY <1>2, <1>3, <1>4, <1>5

Labels == {"idle", "open_namei", "opened", "get_pipe_inode", "iput", "dupfd",
           "bread", "sh_bang", "namei", "replace", "closing", "exec_error1"}

Afterwards == {"idle", "dupfd", "exec_error1", "sh_bang", "replace", "closing"}

(* The descriptors and files a call has taken and not handed out: one pair *)
(* for an open, two pairs for a pipe.                                      *)
One(s) == \E a \in Fds, f \in Files : s = <<<<a, f>>>>
Two(s) == \E a, b \in Fds, f, g \in Files : s = <<<<a, f>>, <<b, g>>>> /\ a # b /\ f # g
Takings == {<<>>} \union {<<<<a, f>>>> : a \in Fds, f \in Files}
                  \union {<<<<a, f>>, <<b, g>>>> : a, b \in Fds, f, g \in Files}

Locals == [fd : Fds, arg : Fds, f : Takings, inode : Inodes \union {None},
           put : Inodes \union {None}, then : Afterwards, sh_bang : BOOLEAN]

(* Types, in the three parts that different steps disturb.                 *)
FileTypeOK ==
    /\ f_count \in [Files -> Int]
    /\ filp \in [Procs -> [Fds -> {0} \union Files]]
    /\ close_on_exec \in [Procs -> SUBSET Fds]

InodeTypeOK ==
    /\ f_inode \in [Files -> Inodes \union {None}]
    /\ i_count \in [Inodes -> Int]
    /\ executable \in [Procs -> Inodes \union {None}]
    /\ pc \in [Procs -> Labels]
    /\ loc \in [Procs -> Locals]

PageTypeOK ==
    /\ page \in [Procs -> SUBSET Pages]
    /\ space \in [Procs -> SUBSET Pages]
    /\ mem_map \in [Pages -> Int]

TypeOK == FileTypeOK /\ InodeTypeOK /\ PageTypeOK

(* What the locals l of a process hold when it is at a label.              *)
At(label, l) ==
    /\ label = "idle" => l = NoLoc
    /\ label \in {"open_namei", "opened"} => One(l.f)
    /\ label = "get_pipe_inode" => Two(l.f)
    /\ label \notin {"open_namei", "opened", "get_pipe_inode"} => l.f = <<>>
    /\ label \in {"opened", "bread", "replace"} => l.inode \in Inodes
    /\ l.then = "replace" => l.inode \in Inodes /\ label = "iput"
    /\ label \notin {"opened", "bread", "replace"} /\ l.then # "replace" => l.inode = None
    /\ label # "iput" => l.put = None /\ l.then = "idle"

ControlInv == \A p \in Procs : At(pc[p], loc[p])

Taken(p) == {loc[p].f[k] : k \in DOMAIN loc[p].f}

(* What a call has taken is its own: the file counts only that descriptor, *)
(* and the descriptor is not flagged.                                      *)
TakenInv ==
    \A p \in Procs, a \in Fds, f \in Files :
        <<a, f>> \in Taken(p) => filp[p][a] = f /\ f_count[f] = 1

UnflaggedInv == \A p \in Procs, a \in Fds, f \in Files :
                    <<a, f>> \in Taken(p) => a \notin close_on_exec[p]

IInv == /\ TypeOK /\ ControlInv /\ TakenInv /\ UnflaggedInv
        /\ FilesMatch /\ CloexecOpen /\ InodesMatch /\ PagesMatch

-----------------------------------------------------------------------------
(***************************************************************************)
(* Descriptors and counts.  Refs is the set FilesMatch counts, for any     *)
(* table t of descriptors.                                                 *)
(***************************************************************************)
Tables == [Procs -> [Fds -> {0} \union Files]]
Refs(t, f) == {d \in Procs \X Fds : t[d[1]][d[2]] = f}
Match(t, c) == \A f \in Files : c[f] = Cardinality(Refs(t, f))

LEMMA FilesAndFds == 0 \notin Files /\ Files \subseteq Nat /\ Fds \subseteq Nat /\ Fds # {}
BY OpenFilesAssumption DEF Files, Fds

LEMMA RefsFinite ==
    ASSUME NEW t, NEW f
    PROVE  IsFiniteSet(Refs(t, f))
<1>1. IsFiniteSet(Fds)
  BY OpenFilesAssumption, FS_Interval DEF Fds
<1>2. IsFiniteSet(Procs \X Fds)
  BY <1>1, OpenFilesAssumption, FS_Product
<1>. QED
  BY <1>2, FS_Subset DEF Refs

LEMMA RefsIs ==
    ASSUME NEW t, NEW f, NEW q \in Procs, NEW x \in Fds
    PROVE  <<q, x>> \in Refs(t, f) <=> t[q][x] = f
BY DEF Refs

(* A free descriptor is given a file, which counts one more.               *)
LEMMA BindMatch ==
    ASSUME NEW t \in Tables, NEW c \in [Files -> Int], Match(t, c),
           NEW p \in Procs, NEW fd \in Fds, t[p][fd] = 0, NEW f \in Files
    PROVE  /\ [t EXCEPT ![p][fd] = f] \in Tables
           /\ [c EXCEPT ![f] = c[f] + 1] \in [Files -> Int]
           /\ Match([t EXCEPT ![p][fd] = f], [c EXCEPT ![f] = c[f] + 1])
<1>. DEFINE u == [t EXCEPT ![p][fd] = f]
            b == [c EXCEPT ![f] = c[f] + 1]
<1>1. u \in Tables /\ b \in [Files -> Int]
  BY DEF Tables
<1>2. \A q \in Procs, x \in Fds : u[q][x] = IF q = p /\ x = fd THEN f ELSE t[q][x]
  BY DEF Tables
<1>3. f # 0
  BY FilesAndFds
<1>. HIDE DEF u
<1>4. Refs(u, f) = Refs(t, f) \union {<<p, fd>>} /\ <<p, fd>> \notin Refs(t, f)
  BY <1>2, <1>3 DEF Refs
<1>5. ASSUME NEW g \in Files \ {f} PROVE Refs(u, g) = Refs(t, g)
  <2>1. g # 0 /\ g # f
    BY FilesAndFds
  <2>. QED
    BY <1>2, <2>1 DEF Refs
<1>6. Cardinality(Refs(u, f)) = Cardinality(Refs(t, f)) + 1
  BY <1>4, RefsFinite, CardAdd
<1>7. Match(u, b)
  BY <1>5, <1>6 DEF Match
<1>. QED
  BY <1>1, <1>7 DEF u

(* A descriptor gives its file up, which counts one less.                  *)
LEMMA UnbindMatch ==
    ASSUME NEW t \in Tables, NEW c \in [Files -> Int], Match(t, c),
           NEW p \in Procs, NEW fd \in Fds, NEW f \in Files, t[p][fd] = f
    PROVE  /\ [t EXCEPT ![p][fd] = 0] \in Tables
           /\ [c EXCEPT ![f] = c[f] - 1] \in [Files -> Int]
           /\ Match([t EXCEPT ![p][fd] = 0], [c EXCEPT ![f] = c[f] - 1])
<1>. DEFINE u == [t EXCEPT ![p][fd] = 0]
            b == [c EXCEPT ![f] = c[f] - 1]
<1>0. f # 0
  BY FilesAndFds
<1>1. u \in Tables /\ b \in [Files -> Int]
  BY DEF Tables
<1>2. \A q \in Procs, x \in Fds : u[q][x] = IF q = p /\ x = fd THEN 0 ELSE t[q][x]
  BY DEF Tables
<1>. HIDE DEF u
<1>4. Refs(u, f) = Refs(t, f) \ {<<p, fd>>} /\ <<p, fd>> \in Refs(t, f)
  BY <1>0, <1>2 DEF Refs
<1>5. \A g \in Files \ {f} : Refs(u, g) = Refs(t, g)
  BY ZenonT(60), <1>2, FilesAndFds DEF Refs
<1>6. Cardinality(Refs(u, f)) = Cardinality(Refs(t, f)) - 1
  BY <1>4, RefsFinite, CardRemove
<1>7. Match(u, b)
  BY <1>0, <1>5, <1>6 DEF Match
<1>. QED
  BY <1>1, <1>7 DEF u

(* The file of a descriptor counts at least one, and if it counts one, no  *)
(* other descriptor refers to it.                                          *)
LEMMA Counted ==
    ASSUME NEW t \in Tables, NEW c \in [Files -> Int], Match(t, c),
           NEW p \in Procs, NEW fd \in Fds, t[p][fd] # 0
    PROVE  /\ t[p][fd] \in Files
           /\ c[t[p][fd]] >= 1
           /\ c[t[p][fd]] = 1 =>
                 \A q \in Procs, x \in Fds : t[q][x] = t[p][fd] => q = p /\ x = fd
<1>. DEFINE f == t[p][fd]
<1>1. f \in Files
  BY DEF Tables
<1>2. <<p, fd>> \in Refs(t, f)
  BY DEF Refs
<1>3. /\ Cardinality(Refs(t, f)) >= 1
      /\ Cardinality(Refs(t, f)) = 1 => Refs(t, f) = {<<p, fd>>}
  BY <1>2, RefsFinite, CardOne
<1>4. ASSUME Refs(t, f) = {<<p, fd>>}, NEW q \in Procs, NEW x \in Fds, t[q][x] = f
      PROVE  q = p /\ x = fd
  <2>1. <<q, x>> \in Refs(t, f)
    BY <1>4, RefsIs
  <2>2. <<q, x>> = <<p, fd>>
    BY <1>4, <2>1
  <2>. QED
    BY <2>2
<1>. QED
  BY <1>1, <1>3, <1>4 DEF Match

(* A file that counts nothing has no descriptor.                           *)
LEMMA Uncounted ==
    ASSUME NEW t \in Tables, NEW c \in [Files -> Int], Match(t, c),
           NEW f \in Files, c[f] = 0
    PROVE  \A q \in Procs, x \in Fds : t[q][x] # f
<1>1. Refs(t, f) = {}
  BY RefsFinite, CardType DEF Match
<1>. QED
  BY <1>1, RefsIs

-----------------------------------------------------------------------------
(***************************************************************************)
(* What the steps on descriptors do.                                       *)
(***************************************************************************)
FilesOK == FileTypeOK /\ FilesMatch

LEMMA FilesOKIs ==
    /\ FilesOK <=> /\ filp \in Tables /\ f_count \in [Files -> Int]
                   /\ close_on_exec \in [Procs -> SUBSET Fds]
                   /\ Match(filp, f_count)
    /\ FilesOK' <=> /\ filp' \in Tables /\ f_count' \in [Files -> Int]
                    /\ close_on_exec' \in [Procs -> SUBSET Fds]
                    /\ Match(filp', f_count')
BY DEF FilesOK, FileTypeOK, FilesMatch, Tables, Match, Refs

LEMMA TakenNone == ASSUME NEW p, loc[p].f = <<>> PROVE Taken(p) = {}
BY DEF Taken

LEMMA TakenOne == ASSUME NEW p, NEW t, loc[p].f = <<t>> PROVE Taken(p) = {t}
BY DEF Taken

LEMMA TakenTwo == ASSUME NEW p, NEW t, NEW u, loc[p].f = <<t, u>> PROVE Taken(p) = {t, u}
BY DEF Taken

(* sys_close of one descriptor.                                            *)
LEMMA CloseFiles ==
    ASSUME FilesOK, NEW p \in Procs, NEW fd \in Fds, NEW then, NEW l,
           Close(p, fd, then, l)
    PROVE  FilesOK'
<1>. /\ filp \in Tables /\ f_count \in [Files -> Int] /\ Match(filp, f_count)
     /\ close_on_exec \in [Procs -> SUBSET Fds]
  BY FilesOKIs
<1>1. close_on_exec' \in [Procs -> SUBSET Fds]
  BY DEF Close, Unflag
<1>2. CASE filp[p][fd] = 0
  <2>1. filp' = filp /\ f_count' = f_count
    BY <1>2 DEF Close, Tables
  <2>. QED
    BY <1>1, <2>1, FilesOKIs
<1>3. CASE filp[p][fd] # 0
  <2>1. PICK f \in Files : f = filp[p][fd]
    BY <1>3 DEF Tables
  <2>2. /\ filp' = [filp EXCEPT ![p][fd] = 0]
        /\ f_count' = [f_count EXCEPT ![f] = f_count[f] - 1]
    BY <1>3, <2>1 DEF Close
  <2>3. filp' \in Tables /\ f_count' \in [Files -> Int] /\ Match(filp', f_count')
    BY <2>1, <2>2, UnbindMatch
  <2>. QED
    BY <1>1, <2>3, FilesOKIs
<1>. QED
  BY <1>2, <1>3

(* dupfd.                                                                  *)
LEMMA DupFiles ==
    ASSUME FilesOK, NEW p \in Procs, NEW fd, NEW arg, dupfd(p, fd, arg)
    PROVE  FilesOK'
<1>. /\ filp \in Tables /\ f_count \in [Files -> Int] /\ Match(filp, f_count)
     /\ close_on_exec \in [Procs -> SUBSET Fds]
  BY FilesOKIs
<1>. DEFINE free == {x \in FreeFds(p) : x >= arg}
<1>1. CASE fd \notin Open(p) \/ free = {}
  BY <1>1, FilesOKIs DEF dupfd
<1>2. CASE fd \in Open(p) /\ free # {}
  <2>1. Min(free) \in free
    BY <1>2, FilesAndFds, MinNat DEF FreeFds
  <2>2. Min(free) \in Fds /\ filp[p][Min(free)] = 0
    BY <2>1 DEF FreeFds, Open
  <2>3. filp[p][fd] \in Files
    BY <1>2 DEF Open, Tables
  <2>4. /\ filp' = [filp EXCEPT ![p][Min(free)] = filp[p][fd]]
        /\ f_count' = [f_count EXCEPT ![filp[p][fd]] = f_count[filp[p][fd]] + 1]
        /\ close_on_exec' \in [Procs -> SUBSET Fds]
    BY <1>2 DEF dupfd, Unflag
  <2>. QED
    BY <2>2, <2>3, <2>4, BindMatch, FilesOKIs
<1>. QED
  BY <1>1, <1>2

(* The way out of a call that failed.                                      *)
LEMMA GiveBackFiles ==
    ASSUME FilesOK, TakenInv, NEW p \in Procs, One(loc[p].f) \/ Two(loc[p].f), GiveBack(p),
           UNCHANGED close_on_exec
    PROVE  FilesOK'
<1>. /\ filp \in Tables /\ f_count \in [Files -> Int] /\ Match(filp, f_count)
     /\ close_on_exec' \in [Procs -> SUBSET Fds]
  BY FilesOKIs
<1>0. /\ filp' = [filp EXCEPT ![p] = [fd \in Fds |->
             IF \E t \in Taken(p) : t[1] = fd THEN 0 ELSE filp[p][fd]]]
      /\ f_count' = [f \in Files |-> IF \E t \in Taken(p) : t[2] = f THEN 0 ELSE f_count[f]]
  BY DEF GiveBack, Taken
<1>1. CASE One(loc[p].f)
  <2>1. PICK a \in Fds, f \in Files : loc[p].f = <<<<a, f>>>>
    BY <1>1 DEF One
  <2>2. Taken(p) = {<<a, f>>}
    BY <2>1, TakenOne
  <2>3. filp[p][a] = f /\ f_count[f] = 1
    BY ZenonT(60), <2>2 DEF TakenInv
  <2>4. filp' = [filp EXCEPT ![p][a] = 0]
    <3>1. \A x \in Fds : (\E t \in Taken(p) : t[1] = x) <=> x = a
      BY <2>2
    <3>. QED
      BY <1>0, <3>1 DEF Tables
  <2>5. f_count' = [f_count EXCEPT ![f] = f_count[f] - 1]
    <3>1. f_count' = [g \in Files |-> IF g = f THEN 0 ELSE f_count[g]]
      BY <1>0, <2>2
    <3>2. f_count[f] - 1 = 0
      BY <2>3
    <3>. QED
      BY <3>1, <3>2
  <2>6. filp' \in Tables /\ f_count' \in [Files -> Int] /\ Match(filp', f_count')
    BY <2>3, <2>4, <2>5, UnbindMatch
  <2>. QED
    BY <2>6, FilesOKIs
<1>2. CASE Two(loc[p].f)
  <2>1. PICK a \in Fds, b \in Fds, f \in Files, g \in Files :
             loc[p].f = <<<<a, f>>, <<b, g>>>> /\ a # b /\ f # g
    BY <1>2 DEF Two
  <2>2. Taken(p) = {<<a, f>>, <<b, g>>}
    BY <2>1, TakenTwo
  <2>3. filp[p][a] = f /\ f_count[f] = 1 /\ filp[p][b] = g /\ f_count[g] = 1
    <3>1. <<a, f>> \in Taken(p) /\ <<b, g>> \in Taken(p)
      BY <2>2
    <3>. QED
      BY <3>1 DEF TakenInv
  <2>. DEFINE t1 == [filp EXCEPT ![p][a] = 0]
              c1 == [f_count EXCEPT ![f] = f_count[f] - 1]
              t2 == [t1 EXCEPT ![p][b] = 0]
              c2 == [c1 EXCEPT ![g] = c1[g] - 1]
  <2>4. t1 \in Tables /\ c1 \in [Files -> Int] /\ Match(t1, c1)
    BY <2>3, UnbindMatch
  <2>5. t1[p][b] = g /\ c1[g] = 1
    BY <2>1, <2>3 DEF Tables
  <2>6. filp' = t2
    <3>1. \A x \in Fds : (\E t \in Taken(p) : t[1] = x) <=> x = a \/ x = b
      BY <2>2
    <3>. QED
      BY <1>0, <3>1 DEF Tables
  <2>7. f_count' = c2
    <3>1. f_count' = [h \in Files |-> IF h = f \/ h = g THEN 0 ELSE f_count[h]]
      BY <1>0, <2>2
    <3>2. f_count[f] - 1 = 0 /\ c1[g] - 1 = 0
      BY <2>3, <2>5
    <3>. QED
      BY <2>1, <3>1, <3>2
  <2>. HIDE DEF t1, c1
  <2>8. t2 \in Tables /\ c2 \in [Files -> Int] /\ Match(t2, c2)
    BY <2>4, <2>5, UnbindMatch
  <2>. QED
    BY <2>6, <2>7, <2>8, FilesOKIs
<1>. QED
  BY <1>1, <1>2

LEMMA LeastFree ==
    ASSUME NEW p
    PROVE  /\ FreeFds(p) # {} => Min(FreeFds(p)) \in FreeFds(p)
           /\ FreeFiles # {} => Min(FreeFiles) \in FreeFiles
           /\ FreeFds(p) \subseteq Fds /\ FreeFiles \subseteq Files
<1>1. FreeFds(p) \subseteq Fds /\ FreeFiles \subseteq Files
  BY DEF FreeFds, FreeFiles
<1>. QED
  BY <1>1, FilesAndFds, MinNat

LEMMA TwoFree ==
    ASSUME NEW p, Cardinality(FreeFiles) >= 2, Cardinality(FreeFds(p)) >= 2
    PROVE  /\ Min(FreeFds(p)) \in FreeFds(p) /\ Second(FreeFds(p)) \in FreeFds(p)
           /\ Second(FreeFds(p)) # Min(FreeFds(p))
           /\ Min(FreeFiles) \in FreeFiles /\ Second(FreeFiles) \in FreeFiles
           /\ Second(FreeFiles) # Min(FreeFiles)
<1>1. IsFiniteSet(Fds) /\ IsFiniteSet(Files)
  BY OpenFilesAssumption, FS_Interval DEF Fds, Files
<1>2. /\ FreeFds(p) \subseteq Nat /\ FreeFiles \subseteq Nat
      /\ IsFiniteSet(FreeFds(p)) /\ IsFiniteSet(FreeFiles)
  BY <1>1, LeastFree, FilesAndFds, FS_Subset
<1>. QED
  BY <1>2, MinTwo DEF Second

(* sys_open takes one descriptor and one file.                             *)
LEMMA OpenFiles1 ==
    ASSUME FilesOK, NEW p \in Procs, sys_open(p)
    PROVE  FilesOK'
<1>. /\ filp \in Tables /\ f_count \in [Files -> Int] /\ Match(filp, f_count)
     /\ close_on_exec \in [Procs -> SUBSET Fds]
  BY FilesOKIs
<1>1. close_on_exec' \in [Procs -> SUBSET Fds]
  BY DEF sys_open, Unflag
<1>2. CASE FreeFiles \intersect Table = {}
  BY <1>1, <1>2, FilesOKIs DEF sys_open
<1>3. CASE FreeFiles \intersect Table # {}
  <2>1. PICK a \in Fds : a = Min(FreeFds(p)) /\ filp[p][a] = 0
    BY LeastFree DEF sys_open, FreeFds, Open
  <2>2. PICK f \in Files : f = Min(FreeFiles)
    BY <1>3, LeastFree
  <2>3. filp' = [filp EXCEPT ![p][a] = f] /\ f_count' = [f_count EXCEPT ![f] = f_count[f] + 1]
    BY <1>3, <2>1, <2>2 DEF sys_open
  <2>4. filp' \in Tables /\ f_count' \in [Files -> Int] /\ Match(filp', f_count')
    BY <2>1, <2>3, BindMatch
  <2>. QED
    BY <1>1, <2>4, FilesOKIs
<1>. QED
  BY <1>2, <1>3

(* sys_pipe takes two of each.                                             *)
LEMMA PipeFiles ==
    ASSUME FilesOK, NEW p \in Procs, sys_pipe(p)
    PROVE  FilesOK'
<1>. /\ filp \in Tables /\ f_count \in [Files -> Int] /\ Match(filp, f_count)
     /\ close_on_exec \in [Procs -> SUBSET Fds]
  BY FilesOKIs
<1>0. Cardinality(FreeFiles) >= 2 /\ Cardinality(FreeFds(p)) >= 2
  BY DEF sys_pipe
<1>1. PICK a \in Fds, b \in Fds :
           /\ a = Min(FreeFds(p)) /\ b = Second(FreeFds(p)) /\ a # b
           /\ filp[p][a] = 0 /\ filp[p][b] = 0
  BY <1>0, TwoFree DEF FreeFds, Open
<1>2. PICK f \in Files, g \in Files :
           /\ f = Min(FreeFiles) /\ g = Second(FreeFiles) /\ f # g
           /\ f_count[f] = 0 /\ f_count[g] = 0
  BY <1>0, TwoFree DEF FreeFiles
<1>. DEFINE t1 == [filp EXCEPT ![p][a] = f]
            c1 == [f_count EXCEPT ![f] = f_count[f] + 1]
            t2 == [t1 EXCEPT ![p][b] = g]
            c2 == [c1 EXCEPT ![g] = c1[g] + 1]
<1>3. t1 \in Tables /\ c1 \in [Files -> Int] /\ Match(t1, c1)
  BY <1>1, BindMatch
<1>4. t1[p][b] = 0 /\ c1[g] = 0
  BY <1>1, <1>2 DEF Tables
<1>5. filp' = t2
  BY <1>1, <1>2 DEF sys_pipe, Tables
<1>6. f_count' = c2
  <2>1. f_count' = [f_count EXCEPT ![f] = 1, ![g] = 1]
    BY <1>2 DEF sys_pipe
  <2>2. f_count[f] + 1 = 1 /\ c1[g] + 1 = 1
    BY <1>2, <1>4
  <2>. QED
    BY <2>1, <2>2
<1>. HIDE DEF t1, c1
<1>7. t2 \in Tables /\ c2 \in [Files -> Int] /\ Match(t2, c2)
  BY <1>3, <1>4, BindMatch
<1>. QED
  BY <1>5, <1>6, <1>7, FilesOKIs DEF sys_pipe

LEMMA FilesStep ==
    ASSUME FilesOK, ControlInv, TakenInv, [Next]_vars
    PROVE  FilesOK'
<1>. USE DEF files, descriptors, openVars, execVars, vars
<1>0. /\ filp \in Tables /\ f_count \in [Files -> Int] /\ Match(filp, f_count)
      /\ close_on_exec \in [Procs -> SUBSET Fds]
  BY FilesOKIs
<1>1. ASSUME UNCHANGED <<f_count, filp, close_on_exec>>
      PROVE  FilesOK'
  BY <1>0, <1>1, FilesOKIs
<1>2. ASSUME NEW p \in Procs, sys_open(p) \/ sys_pipe(p)
      PROVE  FilesOK'
  BY <1>2, OpenFiles1, PipeFiles
<1>3. ASSUME NEW p \in Procs, OpenFails(p) \/ PipeFails(p)
      PROVE  FilesOK'
  <2>1. One(loc[p].f) \/ Two(loc[p].f)
    BY <1>3 DEF ControlInv, At, OpenFails, PipeFails
  <2>. QED
    BY <1>3, <2>1, GiveBackFiles DEF OpenFails, PipeFails
<1>4. ASSUME NEW p \in Procs, Opened(p)
      PROVE  FilesOK'
  <2>1. PICK a \in Fds, f \in Files : loc[p].f = <<<<a, f>>>>
    BY <1>4 DEF ControlInv, At, Opened, One
  <2>2. f_count[f] = 1
    BY <2>1, TakenOne DEF TakenInv
  <2>3. f_count' = [f_count EXCEPT ![f] = 1] /\ UNCHANGED <<filp, close_on_exec>>
    BY <1>4, <2>1 DEF Opened
  <2>4. f_count' = f_count
    BY <1>0, <2>2, <2>3
  <2>. QED
    BY <1>1, <2>3, <2>4
<1>5. ASSUME NEW p \in Procs, sys_close(p) \/ sys_dup2(p) \/ CloseOnExec(p)
      PROVE  FilesOK'
  <2>1. CASE sys_close(p)
    BY <2>1, CloseFiles DEF sys_close, Open
  <2>2. CASE sys_dup2(p)
    BY <2>2, CloseFiles DEF sys_dup2
  <2>3. CASE CloseOnExec(p)
    <3>1. close_on_exec[p] \subseteq Fds /\ close_on_exec[p] # {}
      BY <1>0, <2>3 DEF CloseOnExec
    <3>2. Min(close_on_exec[p]) \in Fds
      BY <3>1, FilesAndFds, MinNat
    <3>. QED
      BY <2>3, <3>2, CloseFiles DEF CloseOnExec
  <2>. QED
    BY <1>5, <2>1, <2>2, <2>3
<1>6. ASSUME NEW p \in Procs, Dup(p) \/ Dup2Done(p)
      PROVE  FilesOK'
  BY <1>6, DupFiles DEF Dup, Dup2Done
<1>7. ASSUME NEW p \in Procs, sys_fcntl(p)
      PROVE  FilesOK'
  <2>1. UNCHANGED <<f_count, filp>> /\ close_on_exec' \in [Procs -> SUBSET Fds]
    BY <1>0, <1>7 DEF sys_fcntl, Unflag, Open
  <2>. QED
    BY <1>0, <2>1, FilesOKIs
<1>8. ASSUME NEW p \in Procs, open_namei(p) \/ iput(p) \/ PipeMade(p)
      PROVE  FilesOK'
  BY <1>1, <1>8 DEF open_namei, iput, PipeMade
<1>9. ASSUME NEW p \in Procs,
             \/ do_execve(p) \/ NotExecutable(p) \/ Script(p) \/ BadScript(p)
             \/ ScriptStrings(p) \/ Interpreter(p) \/ Program(p) \/ Replaced(p)
             \/ Start(p) \/ exec_error1(p)
      PROVE  FilesOK'
  BY <1>1, <1>9 DEF do_execve, NotExecutable, Script, BadScript, ScriptStrings, Interpreter,
                    Program, Replaced, Start, exec_error1
<1>. QED
  BY <1>1, <1>2, <1>3, <1>4, <1>5, <1>6, <1>7, <1>8, <1>9 DEF Next, OpenStep, ExecStep

-----------------------------------------------------------------------------
(***************************************************************************)
(* Where a process goes, with which locals.                                *)
(***************************************************************************)
Control == pc \in [Procs -> Labels] /\ loc \in [Procs -> Locals] /\ ControlInv

(* The step of p leads to `label' with the locals l.                       *)
LEMMA Moves ==
    ASSUME Control, NEW p \in Procs, NEW label \in Labels, NEW l \in Locals, At(label, l),
           pc' = [pc EXCEPT ![p] = label], loc' = [loc EXCEPT ![p] = l]
    PROVE  Control'
<1>1. pc' \in [Procs -> Labels] /\ loc' \in [Procs -> Locals]
  BY DEF Control
<1>2. \A q \in Procs : /\ pc'[q] = IF q = p THEN label ELSE pc[q]
                       /\ loc'[q] = IF q = p THEN l ELSE loc[q]
  BY DEF Control
<1>3. \A q \in Procs : At(pc'[q], loc'[q])
  BY <1>2 DEF Control, ControlInv
<1>. QED
  BY <1>1, <1>3 DEF Control, ControlInv

LEMMA NoLocIs ==
    /\ NoLoc \in Locals /\ At("idle", NoLoc)
    /\ NoLoc.f = <<>> /\ NoLoc.inode = None /\ NoLoc.put = None /\ NoLoc.then = "idle"
<1>1. 0 \in Fds
  BY OpenFilesAssumption DEF Fds
<1>. QED
  BY <1>1 DEF NoLoc, Locals, Takings, Afterwards, At

LEMMA DoneMoves ==
    ASSUME Control, NEW p \in Procs, Done(p)
    PROVE  Control'
BY NoLocIs, Moves DEF Done, Goto, Labels

(* A process goes on at `then' with l, or puts an inode first.             *)
LEMMA PutMoves ==
    ASSUME Control, InodeTypeOK, NEW p \in Procs, NEW then \in Afterwards, NEW l \in Locals,
           NEW i \in Inodes \union {None}, l.f = <<>>, l.inode \in Inodes <=> then = "replace",
           Put(p, i, then, l)
    PROVE  Control'
<1>. DEFINE m == [l EXCEPT !.put = i, !.then = then]
<1>1. m \in Locals /\ m.f = <<>> /\ m.inode = l.inode /\ m.then = then /\ m.put = i
  BY DEF Locals
<1>2. l.inode = None \/ l.inode \in Inodes
  BY DEF Locals
<1>3. pc' = [pc EXCEPT ![p] = "iput"] /\ loc' = [loc EXCEPT ![p] = m] /\ "iput" \in Labels
  BY DEF Put, Goto, Labels
<1>. HIDE DEF m
<1>4. At("iput", m)
  BY <1>1, <1>2, OpenFilesAssumption DEF At
<1>. QED
  BY <1>1, <1>3, <1>4, Moves

LEMMA CloseMoves ==
    ASSUME Control, FileTypeOK, InodeTypeOK, NEW p \in Procs, NEW fd \in Fds, NEW then \in Afterwards,
           NEW l \in Locals, l.f = <<>>, l.inode = None, then # "replace", At(then, l),
           Close(p, fd, then, l)
    PROVE  Control'
<1>1. CASE pc' = [pc EXCEPT ![p] = then] /\ loc' = [loc EXCEPT ![p] = l]
  BY <1>1, Moves DEF Afterwards, Labels
<1>2. CASE filp[p][fd] # 0 /\ Put(p, f_inode[filp[p][fd]], then, l)
  <2>1. f_inode[filp[p][fd]] \in Inodes \union {None}
    BY <1>2 DEF FileTypeOK, InodeTypeOK
  <2>. QED
    BY <1>2, <2>1, PutMoves, OpenFilesAssumption
<1>. QED
  BY <1>1, <1>2 DEF Close, Goto, Put

LEMMA AtLoc ==
    ASSUME Control, NEW p \in Procs
    PROVE  At(pc[p], loc[p]) /\ loc[p] \in Locals /\ pc[p] \in Labels
BY DEF Control, ControlInv

LEMMA OpenControl ==
    ASSUME Control, FileTypeOK, InodeTypeOK, NEW p \in Procs, OpenStep(p)
    PROVE  Control'
<1>. /\ At(pc[p], loc[p]) /\ loc[p] \in Locals /\ pc[p] \in Labels
     /\ loc \in [Procs -> Locals] /\ pc \in [Procs -> Labels]
  BY AtLoc DEF Control
<1>0. ASSUME UNCHANGED <<pc, loc>> PROVE Control'
  BY <1>0 DEF Control, ControlInv
<1>1. CASE sys_open(p)
  <2>1. CASE FreeFiles \intersect Table = {}
    BY <1>0, <1>1, <2>1 DEF sys_open
  <2>2. CASE FreeFiles \intersect Table # {}
    <3>1. PICK a \in Fds, f \in Files : a = Min(FreeFds(p)) /\ f = Min(FreeFiles)
      BY <1>1, <2>2, LeastFree DEF sys_open
    <3>. DEFINE m == [NoLoc EXCEPT !.f = <<<<a, f>>>>]
    <3>2. loc[p] = NoLoc
      BY <1>1 DEF sys_open, May, At
    <3>3. loc' = [loc EXCEPT ![p] = m] /\ pc' = [pc EXCEPT ![p] = "open_namei"]
      BY <1>1, <2>2, <3>1, <3>2 DEF sys_open, Goto
    <3>4. /\ m.f = <<<<a, f>>>> /\ m.inode = None /\ m.put = None /\ m.then = "idle"
          /\ m \in Locals
      <4>1. <<<<a, f>>>> \in Takings
        BY DEF Takings
      <4>. QED
        BY <4>1, NoLocIs DEF Locals, NoLoc
    <3>. HIDE DEF m
    <3>5. At("open_namei", m)
      BY <3>4 DEF At, One
    <3>. QED
      BY <3>3, <3>4, <3>5, Moves DEF Labels
  <2>. QED
    BY <2>1, <2>2
<1>2. CASE OpenFails(p) \/ PipeFails(p) \/ Opened(p) \/ PipeMade(p) \/ Dup2Done(p)
  BY <1>2, DoneMoves DEF OpenFails, PipeFails, Opened, PipeMade, Dup2Done
<1>3. CASE open_namei(p)
  <2>1. PICK i \in Inodes : loc' = [loc EXCEPT ![p].inode = i]
    BY <1>3 DEF open_namei
  <2>. DEFINE m == [loc[p] EXCEPT !.inode = i]
  <2>2. loc' = [loc EXCEPT ![p] = m] /\ pc' = [pc EXCEPT ![p] = "opened"]
    BY <1>3, <2>1 DEF open_namei, Goto
  <2>3. m \in Locals /\ m.f = loc[p].f /\ m.inode = i /\ m.put = loc[p].put /\ m.then = loc[p].then
    BY DEF Locals
  <2>. HIDE DEF m
  <2>4. At("opened", m)
    BY <1>3, <2>3 DEF At, open_namei
  <2>. QED
    BY <2>2, <2>3, <2>4, Moves DEF Labels
<1>4. CASE sys_close(p)
  BY <1>4, CloseMoves, NoLocIs, OpenFilesAssumption DEF sys_close, Open, Afterwards
<1>5. CASE sys_dup2(p)
  <2>1. PICK oldfd \in Fds, newfd \in Fds :
             Close(p, newfd, "dupfd", [NoLoc EXCEPT !.fd = oldfd, !.arg = newfd])
    BY ZenonT(60), <1>5 DEF sys_dup2, Open
  <2>. DEFINE m == [NoLoc EXCEPT !.fd = oldfd, !.arg = newfd]
  <2>2. m \in Locals /\ m.f = <<>> /\ m.inode = None /\ m.put = None /\ m.then = "idle"
    BY NoLocIs DEF Locals, NoLoc
  <2>. HIDE DEF m
  <2>3. At("dupfd", m)
    BY <2>2 DEF At
  <2>4. Close(p, newfd, "dupfd", m)
    BY <2>1 DEF m
  <2>. QED
    BY <2>2, <2>3, <2>4, CloseMoves DEF Afterwards
<1>6. CASE iput(p)
  <2>1. CASE loc[p].then = "idle"
    BY <1>6, <2>1, DoneMoves DEF iput
  <2>2. CASE loc[p].then # "idle"
    <3>. DEFINE m == [loc[p] EXCEPT !.put = None, !.then = "idle"]
    <3>1. loc' = [loc EXCEPT ![p] = m] /\ pc' = [pc EXCEPT ![p] = loc[p].then]
      BY <1>6, <2>2 DEF iput, Goto
    <3>2. m \in Locals /\ m.f = loc[p].f /\ m.inode = loc[p].inode /\ m.put = None /\ m.then = "idle"
      BY DEF Locals, Afterwards
    <3>. HIDE DEF m
    <3>3. loc[p].then \in Afterwards
      BY DEF Locals
    <3>4. At(loc[p].then, m)
      BY <1>6, <2>2, <3>2, <3>3 DEF At, iput, Afterwards
    <3>5. loc[p].then \in Labels
      BY <3>3 DEF Afterwards, Labels
    <3>. QED
      BY <3>1, <3>2, <3>4, <3>5, Moves
  <2>. QED
    BY <2>1, <2>2
<1>7. CASE Dup(p) \/ sys_fcntl(p)
  BY <1>0, <1>7 DEF Dup, sys_fcntl
<1>8. CASE sys_pipe(p)
  <2>1. PICK a \in Fds, b \in Fds :
             a = Min(FreeFds(p)) /\ b = Second(FreeFds(p)) /\ a # b
    BY <1>8, TwoFree, LeastFree DEF sys_pipe
  <2>2. PICK f \in Files, g \in Files :
             f = Min(FreeFiles) /\ g = Second(FreeFiles) /\ f # g
    BY <1>8, TwoFree, LeastFree DEF sys_pipe
  <2>. DEFINE m == [NoLoc EXCEPT !.f = <<<<a, f>>, <<b, g>>>>]
  <2>3. loc[p] = NoLoc
    BY <1>8 DEF sys_pipe, May, At
  <2>4. loc' = [loc EXCEPT ![p] = m] /\ pc' = [pc EXCEPT ![p] = "get_pipe_inode"]
    BY <1>8, <2>1, <2>2, <2>3 DEF sys_pipe, Goto
  <2>5. /\ m.f = <<<<a, f>>, <<b, g>>>> /\ m.inode = None /\ m.put = None /\ m.then = "idle"
        /\ m \in Locals
    <3>1. <<<<a, f>>, <<b, g>>>> \in Takings
      BY DEF Takings
    <3>. QED
      BY <3>1, NoLocIs DEF Locals, NoLoc
  <2>. HIDE DEF m
  <2>6. At("get_pipe_inode", m)
    BY <2>1, <2>2, <2>5 DEF At, Two
  <2>. QED
    BY <2>4, <2>5, <2>6, Moves DEF Labels
<1>. QED
  BY <1>1, <1>2, <1>3, <1>4, <1>5, <1>6, <1>7, <1>8 DEF OpenStep

LEMMA ReplaceMoves ==
    ASSUME Control, InodeTypeOK, NEW p \in Procs, pc[p] = "bread", Replace(p)
    PROVE  Control'
<1>. At(pc[p], loc[p]) /\ loc[p] \in Locals
  BY AtLoc
<1>1. CASE executable[p] = None
  <2>1. At("replace", loc[p])
    BY DEF At
  <2>2. pc' = [pc EXCEPT ![p] = "replace"] /\ loc' = [loc EXCEPT ![p] = loc[p]]
    BY <1>1 DEF Replace, Goto, Control
  <2>. QED
    BY <2>1, <2>2, Moves DEF Labels
<1>2. CASE executable[p] # None
  <2>1. executable[p] \in Inodes /\ loc[p].inode \in Inodes /\ loc[p].f = <<>>
    BY <1>2 DEF InodeTypeOK, At
  <2>. QED
    BY <1>2, <2>1, PutMoves DEF Replace, Afterwards
<1>. QED
  BY <1>1, <1>2

LEMMA Error2Moves ==
    ASSUME Control, InodeTypeOK, NEW p \in Procs, pc[p] = "bread", exec_error2(p)
    PROVE  Control'
<1>. At(pc[p], loc[p]) /\ loc[p] \in Locals
  BY AtLoc
<1>. DEFINE m == [loc[p] EXCEPT !.inode = None]
<1>1. m \in Locals /\ m.f = <<>> /\ m.inode = None /\ loc[p].inode \in Inodes
  BY DEF Locals, At
<1>2. Put(p, loc[p].inode, "exec_error1", m)
  BY DEF exec_error2
<1>. HIDE DEF m
<1>. QED
  BY <1>1, <1>2, PutMoves, OpenFilesAssumption DEF Afterwards

LEMMA ExecControl ==
    ASSUME Control, FileTypeOK, InodeTypeOK, NEW p \in Procs, ExecStep(p)
    PROVE  Control'
<1>. /\ At(pc[p], loc[p]) /\ loc[p] \in Locals /\ pc[p] \in Labels
     /\ loc \in [Procs -> Locals] /\ pc \in [Procs -> Labels]
  BY AtLoc DEF Control
<1>0. ASSUME NEW label \in Labels, pc' = [pc EXCEPT ![p] = label], UNCHANGED loc,
             At(label, loc[p])
      PROVE  Control'
  <2>1. loc' = [loc EXCEPT ![p] = loc[p]]
    BY <1>0
  <2>. QED
    BY <1>0, <2>1, Moves
<1>1. CASE do_execve(p) \/ Interpreter(p)
  <2>1. CASE \E i \in Inodes : loc' = [loc EXCEPT ![p].inode = i] /\ Goto(p, "bread")
    <3>1. PICK i \in Inodes : loc' = [loc EXCEPT ![p].inode = i] /\ Goto(p, "bread")
      BY <2>1
    <3>. DEFINE m == [loc[p] EXCEPT !.inode = i]
    <3>2. loc' = [loc EXCEPT ![p] = m] /\ pc' = [pc EXCEPT ![p] = "bread"]
      BY <3>1 DEF Goto
    <3>3. m \in Locals /\ m.f = loc[p].f /\ m.inode = i /\ m.put = loc[p].put /\ m.then = loc[p].then
      BY DEF Locals
    <3>. HIDE DEF m
    <3>4. At("bread", m)
      BY <1>1, <3>3, NoLocIs DEF At, do_execve, May, Interpreter
    <3>. QED
      BY <3>2, <3>3, <3>4, Moves DEF Labels
  <2>2. CASE Interpreter(p) /\ Goto(p, "exec_error1") /\ UNCHANGED loc
    <3>1. At("exec_error1", loc[p])
      BY <2>2 DEF At, Interpreter
    <3>. QED
      BY <1>0, <2>2, <3>1 DEF Goto, Labels
  <2>. QED
    BY <1>1, <2>1, <2>2 DEF do_execve, Interpreter
<1>2. CASE NotExecutable(p)
  BY <1>2, Error2Moves DEF NotExecutable
<1>3. CASE Script(p)
  <2>. DEFINE m == [loc[p] EXCEPT !.inode = None, !.sh_bang = TRUE]
  <2>1. m \in Locals /\ m.f = <<>> /\ m.inode = None /\ loc[p].inode \in Inodes
    BY <1>3 DEF Locals, At, Script
  <2>2. Put(p, loc[p].inode, "sh_bang", m)
    BY <1>3 DEF Script
  <2>. HIDE DEF m
  <2>. QED
    BY <2>1, <2>2, PutMoves, OpenFilesAssumption DEF Afterwards
<1>4. CASE BadScript(p) \/ ScriptStrings(p)
  <2>1. At("exec_error1", loc[p]) /\ At("namei", loc[p])
    BY <1>4 DEF At, BadScript, ScriptStrings
  <2>2. UNCHANGED loc /\ (Goto(p, "exec_error1") \/ Goto(p, "namei"))
    BY <1>4 DEF BadScript, ScriptStrings, copy_strings
  <2>. QED
    BY <1>0, <2>1, <2>2 DEF Goto, Labels
<1>5. CASE Program(p)
  BY <1>5, ReplaceMoves, Error2Moves DEF Program, copy_strings
<1>6. CASE Replaced(p)
  <2>. DEFINE m == [loc[p] EXCEPT !.inode = None]
  <2>1. loc' = [loc EXCEPT ![p] = m] /\ pc' = [pc EXCEPT ![p] = "closing"]
    BY <1>6 DEF Replaced, Goto
  <2>2. m \in Locals /\ m.f = loc[p].f /\ m.inode = None /\ m.put = loc[p].put /\ m.then = loc[p].then
    BY DEF Locals
  <2>. HIDE DEF m
  <2>3. At("closing", m)
    BY <1>6, <2>2 DEF At, Replaced
  <2>. QED
    BY <2>1, <2>2, <2>3, Moves DEF Labels
<1>7. CASE CloseOnExec(p)
  <2>1. close_on_exec[p] \subseteq Fds /\ close_on_exec[p] # {}
    BY <1>7 DEF CloseOnExec, FileTypeOK
  <2>2. Min(close_on_exec[p]) \in Fds
    BY <2>1, FilesAndFds, MinNat
  <2>3. loc[p].f = <<>> /\ loc[p].inode = None /\ At("closing", loc[p])
    BY <1>7 DEF CloseOnExec, At
  <2>. QED
    BY <1>7, <2>2, <2>3, CloseMoves DEF CloseOnExec, Afterwards
<1>8. CASE Start(p) \/ exec_error1(p)
  BY <1>8, DoneMoves DEF Start, exec_error1
<1>. QED
  BY <1>1, <1>2, <1>3, <1>4, <1>5, <1>6, <1>7, <1>8 DEF ExecStep

-----------------------------------------------------------------------------
(***************************************************************************)
(* What a step of p leaves alone: what other processes have, and the files *)
(* that are neither free nor its own.                                      *)
(***************************************************************************)
Step(p) == (OpenStep(p) /\ UNCHANGED execVars) \/ ExecStep(p)

Same(q) == /\ filp'[q] = filp[q] /\ close_on_exec'[q] = close_on_exec[q]
           /\ loc'[q] = loc[q] /\ pc'[q] = pc[q]

Mine(p, f) == f_count[f] = 0 \/ \E x \in Fds : filp[p][x] = f

SameFile(f) == f_count'[f] = f_count[f] /\ f_inode'[f] = f_inode[f]

Others(p) == (\A q \in Procs \ {p} : Same(q)) /\ (\A f \in Files : Mine(p, f) \/ SameFile(f))

LEMMA CloseFrame ==
    ASSUME FileTypeOK, InodeTypeOK, NEW p \in Procs, NEW fd \in Fds, NEW then, NEW l,
           Close(p, fd, then, l), UNCHANGED f_inode
    PROVE  Others(p)
<1>1. \A q \in Procs \ {p} : Same(q)
  BY DEF Close, Unflag, Goto, Same, FileTypeOK, InodeTypeOK
<1>2. \A f \in Files : Mine(p, f) \/ SameFile(f)
  BY DEF Close, Mine, SameFile, FileTypeOK, InodeTypeOK
<1>. QED
  BY <1>1, <1>2 DEF Others

LEMMA DupFrame ==
    ASSUME FileTypeOK, InodeTypeOK, NEW p \in Procs, NEW fd \in Fds, NEW arg \in Fds,
           dupfd(p, fd, arg)
    PROVE  /\ \A q \in Procs \ {p} : filp'[q] = filp[q] /\ close_on_exec'[q] = close_on_exec[q]
           /\ \A f \in Files : Mine(p, f) \/ f_count'[f] = f_count[f]
<1>. DEFINE free == {x \in FreeFds(p) : x >= arg}
<1>1. CASE fd \notin Open(p) \/ free = {}
  BY <1>1 DEF dupfd
<1>2. CASE fd \in Open(p) /\ free # {}
  <2>1. /\ filp' = [filp EXCEPT ![p][Min(free)] = filp[p][fd]]
        /\ f_count' = [f_count EXCEPT ![filp[p][fd]] = f_count[filp[p][fd]] + 1]
        /\ close_on_exec' = [close_on_exec EXCEPT ![p] = close_on_exec[p] \ {Min(free)}]
    BY <1>2 DEF dupfd, Unflag
  <2>. QED
    BY <2>1 DEF Mine, FileTypeOK
<1>. QED
  BY <1>1, <1>2

LEMMA GiveBackFrame ==
    ASSUME FileTypeOK, InodeTypeOK, ControlInv, TakenInv, NEW p \in Procs,
           pc[p] \in {"open_namei", "get_pipe_inode"}, GiveBack(p)
    PROVE  /\ \A q \in Procs \ {p} : filp'[q] = filp[q]
           /\ \A f \in Files : Mine(p, f) \/ f_count'[f] = f_count[f]
<1>1. \A t \in Taken(p) : t \in Fds \X Files
  <2>1. One(loc[p].f) \/ Two(loc[p].f)
    BY DEF ControlInv, At
  <2>2. CASE One(loc[p].f)
    <3>1. PICK a \in Fds, f \in Files : loc[p].f = <<<<a, f>>>>
      BY <2>2 DEF One
    <3>. QED
      BY <3>1, TakenOne
  <2>3. CASE Two(loc[p].f)
    <3>1. PICK a, b \in Fds, f, g \in Files : loc[p].f = <<<<a, f>>, <<b, g>>>>
      BY <2>3 DEF Two
    <3>. QED
      BY <3>1, TakenTwo
  <2>. QED
    BY <2>1, <2>2, <2>3
<1>2. ASSUME NEW f \in Files, \E t \in Taken(p) : t[2] = f
      PROVE  Mine(p, f)
  <2>1. PICK a \in Fds : <<a, f>> \in Taken(p)
    BY <1>1, <1>2
  <2>. QED
    BY <2>1 DEF TakenInv, Mine
<1>3. /\ filp' = [filp EXCEPT ![p] = [fd \in Fds |->
             IF \E t \in Taken(p) : t[1] = fd THEN 0 ELSE filp[p][fd]]]
      /\ f_count' = [f \in Files |-> IF \E t \in Taken(p) : t[2] = f THEN 0 ELSE f_count[f]]
  BY DEF GiveBack, Taken
<1>. QED
  BY <1>2, <1>3 DEF FileTypeOK

(* The files of an open or a pipe under way are its own.                   *)
LEMMA TakenMine ==
    ASSUME TakenInv, NEW p \in Procs, NEW a \in Fds, NEW f \in Files, <<a, f>> \in Taken(p)
    PROVE  Mine(p, f) /\ f_count[f] = 1 /\ filp[p][a] = f
BY DEF TakenInv, Mine

LEMMA OpenFrame ==
    ASSUME FileTypeOK, InodeTypeOK, ControlInv, TakenInv, NEW p \in Procs, OpenStep(p)
    PROVE  Others(p)
<1>. USE DEF files, descriptors, Same, SameFile
<1>. /\ filp \in [Procs -> [Fds -> {0} \union Files]] /\ f_count \in [Files -> Int]
     /\ close_on_exec \in [Procs -> SUBSET Fds] /\ pc \in [Procs -> Labels]
     /\ loc \in [Procs -> Locals] /\ f_inode \in [Files -> Inodes \union {None}]
  BY DEF FileTypeOK, InodeTypeOK
<1>1. CASE sys_open(p)
  <2>1. \A q \in Procs \ {p} : Same(q)
    BY <1>1 DEF sys_open, Unflag, Goto
  <2>2. CASE FreeFiles \intersect Table = {}
    BY <1>1, <2>1, <2>2 DEF sys_open, Others
  <2>3. CASE FreeFiles \intersect Table # {}
    <3>1. f_count[Min(FreeFiles)] = 0
      BY <2>3, LeastFree DEF FreeFiles
    <3>2. f_count' = [f_count EXCEPT ![Min(FreeFiles)] = f_count[Min(FreeFiles)] + 1]
          /\ f_inode' = f_inode
      BY <1>1, <2>3 DEF sys_open
    <3>. QED
      BY <2>1, <3>1, <3>2 DEF Others, Mine
  <2>. QED
    BY <2>2, <2>3
<1>2. CASE OpenFails(p) \/ PipeFails(p)
  <2>1. pc[p] \in {"open_namei", "get_pipe_inode"} /\ GiveBack(p)
    BY <1>2 DEF OpenFails, PipeFails
  <2>. QED
    BY <1>2, <2>1, GiveBackFrame DEF OpenFails, PipeFails, Done, Goto, Others
<1>3. CASE open_namei(p) \/ iput(p) \/ sys_fcntl(p)
  BY <1>3 DEF open_namei, iput, sys_fcntl, Done, Goto, Unflag, Others
<1>4. CASE Opened(p)
  <2>1. PICK a \in Fds, f \in Files : loc[p].f = <<<<a, f>>>>
    BY <1>4 DEF ControlInv, At, Opened, One
  <2>2. Mine(p, f)
    BY <2>1, TakenOne, TakenMine
  <2>3. f = loc[p].f[1][2]
    BY <2>1
  <2>4. /\ f_count' = [f_count EXCEPT ![f] = 1] /\ f_inode' = [f_inode EXCEPT ![f] = loc[p].inode]
        /\ Done(p) /\ UNCHANGED descriptors
    BY <1>4, <2>3 DEF Opened
  <2>. QED
    BY <2>2, <2>4 DEF Others, Done, Goto
<1>5. CASE sys_close(p) \/ sys_dup2(p)
  BY ZenonT(60), <1>5, CloseFrame DEF sys_close, sys_dup2, Open
<1>6. CASE Dup(p) \/ Dup2Done(p)
  <2>1. loc[p].fd \in Fds /\ loc[p].arg \in Fds
    BY DEF Locals
  <2>2. /\ \E fd, arg \in Fds : dupfd(p, fd, arg)
        /\ UNCHANGED f_inode
        /\ UNCHANGED <<pc, loc>> \/ Done(p)
    BY <1>6, <2>1 DEF Dup, Dup2Done, Open
  <2>. QED
    BY <2>2, DupFrame DEF Others, Done, Goto
<1>7. CASE sys_pipe(p)
  <2>1. \A q \in Procs \ {p} : Same(q)
    BY <1>7 DEF sys_pipe, Goto
  <2>2. PICK f, g \in Files : f = Min(FreeFiles) /\ g = Second(FreeFiles) /\ f \in FreeFiles /\ g \in FreeFiles
    BY <1>7, TwoFree, LeastFree DEF sys_pipe
  <2>3. f_count' = [f_count EXCEPT ![f] = 1, ![g] = 1] /\ f_inode' = f_inode
    BY <1>7, <2>2 DEF sys_pipe
  <2>. QED
    BY <2>1, <2>2, <2>3 DEF Others, Mine, FreeFiles
<1>8. CASE PipeMade(p)
  <2>1. PICK a, b \in Fds, f, g \in Files : loc[p].f = <<<<a, f>>, <<b, g>>>>
    BY <1>8 DEF ControlInv, At, PipeMade, Two
  <2>2. Mine(p, f) /\ Mine(p, g)
    BY <2>1, TakenTwo, TakenMine
  <2>3. PICK i \in Inodes : f_inode' = [h \in Files |->
                 IF \E k \in 1 .. 2 : loc[p].f[k][2] = h THEN i ELSE f_inode[h]]
    BY <1>8 DEF PipeMade
  <2>4. \A h \in Files : h # f /\ h # g => f_inode'[h] = f_inode[h]
    BY <2>1, <2>3
  <2>. QED
    BY <1>8, <2>2, <2>4 DEF Others, PipeMade, Done, Goto
<1>. QED
  BY <1>1, <1>2, <1>3, <1>4, <1>5, <1>6, <1>7, <1>8 DEF OpenStep

LEMMA ExecFrame ==
    ASSUME FileTypeOK, InodeTypeOK, NEW p \in Procs, ExecStep(p)
    PROVE  Others(p)
<1>. USE DEF files, descriptors, Same, SameFile
<1>. /\ pc \in [Procs -> Labels] /\ loc \in [Procs -> Locals]
  BY DEF InodeTypeOK
<1>1. CASE CloseOnExec(p)
  <2>1. close_on_exec[p] \subseteq Fds /\ close_on_exec[p] # {}
    BY <1>1 DEF CloseOnExec, FileTypeOK
  <2>2. Min(close_on_exec[p]) \in Fds
    BY <2>1, FilesAndFds, MinNat
  <2>. QED
    BY <1>1, <2>2, CloseFrame DEF CloseOnExec
<1>2. ASSUME UNCHANGED <<files, descriptors>>,
             \E label : pc' = [pc EXCEPT ![p] = label],
             UNCHANGED loc \/ \E l : loc' = [loc EXCEPT ![p] = l]
      PROVE  Others(p)
  BY <1>2 DEF Others
<1>3. CASE do_execve(p) \/ Interpreter(p) \/ Replaced(p)
  BY <1>2, <1>3 DEF do_execve, Interpreter, Replaced, Goto
<1>4. CASE NotExecutable(p) \/ Script(p)
  BY <1>2, <1>4 DEF NotExecutable, Script, exec_error2, Put, Goto
<1>5. CASE BadScript(p) \/ ScriptStrings(p)
  BY <1>2, <1>5 DEF BadScript, ScriptStrings, copy_strings, Goto
<1>6. CASE Program(p)
  BY <1>2, <1>6 DEF Program, copy_strings, Replace, exec_error2, Put, Goto
<1>7. CASE Start(p) \/ exec_error1(p)
  BY <1>2, <1>7 DEF Start, exec_error1, Done, Goto
<1>. QED
  BY <1>1, <1>3, <1>4, <1>5, <1>6, <1>7 DEF ExecStep

-----------------------------------------------------------------------------
(***************************************************************************)
(* What a call has taken stays its own, and unflagged.                     *)
(***************************************************************************)
(* Another process does not have the file of a call under way.             *)
LEMMA Sole ==
    ASSUME FilesOK, TakenInv, NEW q \in Procs, NEW a \in Fds, NEW f \in Files,
           <<a, f>> \in Taken(q), NEW p \in Procs, NEW x \in Fds, filp[p][x] = f
    PROVE  p = q /\ x = a
<1>1. filp[q][a] = f /\ f_count[f] = 1 /\ f # 0
  BY FilesAndFds DEF TakenInv
<1>2. filp \in Tables /\ f_count \in [Files -> Int] /\ Match(filp, f_count)
  BY FilesOKIs
<1>. QED
  BY <1>1, <1>2, Counted

LEMMA NotMine ==
    ASSUME FilesOK, TakenInv, NEW q \in Procs, NEW a \in Fds, NEW f \in Files,
           <<a, f>> \in Taken(q), NEW p \in Procs, p # q
    PROVE  ~ Mine(p, f)
<1>1. f_count[f] = 1
  BY DEF TakenInv
<1>. QED
  BY <1>1, Sole DEF Mine

LEMMA OthersTaken ==
    ASSUME FilesOK, TakenInv, UnflaggedInv, NEW p \in Procs, Others(p),
           \A a \in Fds, f \in Files : <<a, f>> \in Taken(p)' =>
                filp'[p][a] = f /\ f_count'[f] = 1 /\ a \notin close_on_exec'[p]
    PROVE  TakenInv' /\ UnflaggedInv'
<1>1. ASSUME NEW q \in Procs, q # p, NEW a \in Fds, NEW f \in Files, <<a, f>> \in Taken(q)'
      PROVE  filp'[q][a] = f /\ f_count'[f] = 1 /\ a \notin close_on_exec'[q]
  <2>1. Same(q)
    BY <1>1 DEF Others
  <2>2. <<a, f>> \in Taken(q)
    BY <1>1, <2>1 DEF Taken, Same
  <2>3. SameFile(f)
    BY <1>1, <2>2, NotMine DEF Others
  <2>4. filp[q][a] = f /\ f_count[f] = 1 /\ a \notin close_on_exec[q]
    BY <2>2 DEF TakenInv, UnflaggedInv
  <2>. QED
    BY <2>1, <2>3, <2>4 DEF Same, SameFile
<1>. QED
  BY <1>1 DEF TakenInv, UnflaggedInv

(* Nothing is taken elsewhere than in open_namei and get_pipe_inode.       *)
LEMMA NothingTaken ==
    ASSUME Control, NEW p \in Procs, pc[p] \notin {"open_namei", "opened", "get_pipe_inode"}
    PROVE  Taken(p) = {}
BY TakenNone DEF Control, ControlInv, At

LEMMA NothingTakenAfter ==
    ASSUME Control', NEW p \in Procs, pc'[p] \notin {"open_namei", "opened", "get_pipe_inode"}
    PROVE  Taken(p)' = {}
<1>1. loc'[p].f = <<>>
  BY DEF Control, ControlInv, At
<1>. QED
  BY <1>1 DEF Taken

TakenOK == FilesOK /\ InodeTypeOK /\ Control /\ TakenInv /\ UnflaggedInv /\ CloexecOpen

LEMMA OpenTaken ==
    ASSUME TakenOK, Control', NEW p \in Procs, sys_open(p)
    PROVE  TakenInv' /\ UnflaggedInv'
<1>. USE DEF TakenOK
<1>0. Others(p) /\ pc[p] = "idle" /\ pc \in [Procs -> Labels] /\ loc \in [Procs -> Locals]
  BY OpenFrame DEF sys_open, OpenStep, FilesOK, Control, May
<1>1. CASE FreeFiles \intersect Table = {}
  <2>1. Taken(p)' = {}
    BY <1>0, <1>1, NothingTakenAfter DEF sys_open
  <2>. QED
    BY <1>0, <2>1, OthersTaken
<1>2. CASE FreeFiles \intersect Table # {}
  <2>1. PICK a \in Fds, f \in Files : /\ a = Min(FreeFds(p)) /\ f = Min(FreeFiles)
                                      /\ f_count[f] = 0
    BY <1>2, LeastFree DEF sys_open, FreeFiles
  <2>2. /\ filp' = [filp EXCEPT ![p][a] = f] /\ f_count' = [f_count EXCEPT ![f] = f_count[f] + 1]
        /\ close_on_exec' = [close_on_exec EXCEPT ![p] = close_on_exec[p] \ {a}]
        /\ loc' = [loc EXCEPT ![p].f = <<<<a, f>>>>]
    BY <1>2, <2>1 DEF sys_open, Unflag
  <2>3. filp'[p][a] = f /\ f_count'[f] = 1 /\ a \notin close_on_exec'[p]
    BY <2>1, <2>2 DEF FilesOK, FileTypeOK
  <2>4. loc'[p].f = <<<<a, f>>>>
    BY <1>0, <2>2 DEF Locals
  <2>5. Taken(p)' = {<<a, f>>}
    BY <2>4 DEF Taken
  <2>. QED
    BY <1>0, <2>3, <2>5, OthersTaken
<1>. QED
  BY <1>1, <1>2

LEMMA PipeTaken ==
    ASSUME TakenOK, NEW p \in Procs, sys_pipe(p)
    PROVE  TakenInv' /\ UnflaggedInv'
<1>. USE DEF TakenOK
<1>0. Others(p) /\ pc \in [Procs -> Labels] /\ loc \in [Procs -> Locals]
  BY OpenFrame DEF OpenStep, FilesOK, Control
<1>1. PICK a, b \in Fds : /\ a = Min(FreeFds(p)) /\ b = Second(FreeFds(p)) /\ a # b
                          /\ a \notin Open(p) /\ b \notin Open(p)
  BY TwoFree DEF sys_pipe, FreeFds
<1>2. PICK f, g \in Files : f = Min(FreeFiles) /\ g = Second(FreeFiles) /\ f # g
  BY TwoFree, LeastFree DEF sys_pipe
<1>3. /\ filp' = [filp EXCEPT ![p][a] = f, ![p][b] = g]
      /\ f_count' = [f_count EXCEPT ![f] = 1, ![g] = 1]
      /\ loc' = [loc EXCEPT ![p].f = <<<<a, f>>, <<b, g>>>>]
      /\ close_on_exec' = close_on_exec
  BY <1>1, <1>2 DEF sys_pipe
<1>4. /\ filp'[p][a] = f /\ f_count'[f] = 1 /\ a \notin close_on_exec'[p]
      /\ filp'[p][b] = g /\ f_count'[g] = 1 /\ b \notin close_on_exec'[p]
  BY <1>1, <1>2, <1>3 DEF FilesOK, FileTypeOK, CloexecOpen
<1>5. loc'[p].f = <<<<a, f>>, <<b, g>>>>
  BY <1>0, <1>3 DEF Locals
<1>6. Taken(p)' = {<<a, f>>, <<b, g>>}
  BY <1>5 DEF Taken
<1>. QED
  BY <1>0, <1>4, <1>6, OthersTaken

LEMMA TakenStep ==
    ASSUME TakenOK, Control', NEW p \in Procs, Step(p)
    PROVE  TakenInv' /\ UnflaggedInv'
<1>. USE DEF TakenOK
<1>0. Others(p)
  BY OpenFrame, ExecFrame DEF Step, FilesOK, Control
<1>1. CASE sys_open(p) \/ sys_pipe(p)
  BY <1>1, OpenTaken, PipeTaken
<1>2. CASE open_namei(p)
  <2>1. loc'[p].f = loc[p].f /\ UNCHANGED <<f_count, filp, close_on_exec>>
    BY <1>2 DEF open_namei, Control, Locals, files, descriptors
  <2>2. Taken(p)' = Taken(p)
    BY <2>1 DEF Taken
  <2>3. \A a \in Fds, f \in Files : <<a, f>> \in Taken(p) =>
             filp[p][a] = f /\ f_count[f] = 1 /\ a \notin close_on_exec[p]
    BY DEF TakenInv, UnflaggedInv
  <2>. QED
    BY <1>0, <2>1, <2>2, <2>3, OthersTaken
<1>3. CASE UNCHANGED <<pc, loc>> /\ pc[p] = "idle"
  BY <1>0, <1>3, NothingTakenAfter, OthersTaken
<1>4. CASE pc'[p] \notin {"open_namei", "opened", "get_pipe_inode"}
  BY <1>0, <1>4, NothingTakenAfter, OthersTaken
<1>5. CASE OpenStep(p) /\ ~ sys_open(p) /\ ~ sys_pipe(p) /\ ~ open_namei(p)
  <2>. \A label : Goto(p, label) => pc'[p] = label
    BY DEF Goto, Control
  <2>1. CASE Dup(p) \/ sys_fcntl(p)
    BY SMTT(60), <1>3, <2>1 DEF Dup, sys_fcntl, May
  <2>2. CASE OpenFails(p) \/ PipeFails(p) \/ Opened(p) \/ PipeMade(p) \/ Dup2Done(p)
    BY SMTT(60), <1>4, <2>2 DEF OpenFails, PipeFails, Opened, PipeMade, Dup2Done, Done
  <2>3. CASE sys_close(p) \/ sys_dup2(p)
    BY ZenonT(60), <1>4, <2>3 DEF sys_close, sys_dup2, Close
  <2>4. CASE iput(p)
    <3>1. loc[p].then \in Afterwards
      BY DEF Control, Locals
    <3>. QED
      BY <1>4, <2>4, <3>1 DEF iput, Done, Afterwards
  <2>. QED
    BY <1>5, <2>1, <2>2, <2>3, <2>4 DEF OpenStep
<1>6. CASE ExecStep(p)
  <2>1. pc'[p] \in {"bread", "iput", "sh_bang", "exec_error1", "namei", "replace", "closing", "idle"}
    <3>. \A label : Goto(p, label) => pc'[p] = label
      BY DEF Goto, Control
    <3>1. CASE do_execve(p) \/ Interpreter(p) \/ Replaced(p) \/ BadScript(p) \/ ScriptStrings(p)
      BY <3>1 DEF do_execve, Interpreter, Replaced, BadScript, ScriptStrings, copy_strings
    <3>2. CASE NotExecutable(p) \/ Script(p)
      BY <3>2 DEF NotExecutable, Script, exec_error2, Put
    <3>3. CASE Program(p)
      BY <3>3 DEF Program, copy_strings, Replace, exec_error2, Put
    <3>4. CASE CloseOnExec(p)
      BY <3>4 DEF CloseOnExec, Close
    <3>5. CASE Start(p) \/ exec_error1(p)
      BY <3>5 DEF Start, exec_error1, Done
    <3>. QED
      BY <1>6, <3>1, <3>2, <3>3, <3>4, <3>5 DEF ExecStep
  <2>. QED
    BY <1>4, <2>1
<1>. QED
  BY <1>1, <1>2, <1>5, <1>6 DEF Step

-----------------------------------------------------------------------------
(***************************************************************************)
(* Flags.                                                                  *)
(***************************************************************************)
LEMMA CloexecStep ==
    ASSUME TakenOK, NEW p \in Procs, Step(p)
    PROVE  CloexecOpen'
<1>. USE DEF TakenOK, files, descriptors
<1>. /\ filp \in [Procs -> [Fds -> {0} \union Files]]
     /\ close_on_exec \in [Procs -> SUBSET Fds]
     /\ close_on_exec[p] \subseteq Open(p)
  BY DEF FilesOK, FileTypeOK, CloexecOpen
<1>0. Others(p)
  BY OpenFrame, ExecFrame DEF Step, FilesOK, Control
<1>1. ASSUME close_on_exec'[p] \subseteq Open(p)'
      PROVE  CloexecOpen'
  <2>1. ASSUME NEW q \in Procs, q # p PROVE close_on_exec'[q] \subseteq Open(q)'
    <3>1. Same(q) /\ close_on_exec[q] \subseteq Open(q)
      BY <1>0, <2>1 DEF Others, CloexecOpen
    <3>. QED
      BY <3>1 DEF Same, Open
  <2>. QED
    BY <1>1, <2>1 DEF CloexecOpen
<1>2. CASE UNCHANGED <<filp, close_on_exec>>
  BY <1>1, <1>2 DEF Open
<1>3. ASSUME NEW fd \in Fds, NEW then, NEW l, Close(p, fd, then, l)
      PROVE  CloexecOpen'
  <2>1. filp' = [filp EXCEPT ![p][fd] = 0] /\ close_on_exec' = [close_on_exec EXCEPT ![p] = @ \ {fd}]
    BY <1>3 DEF Close, Unflag
  <2>. QED
    BY <1>1, <2>1 DEF Open
<1>4. ASSUME NEW fd, NEW arg, dupfd(p, fd, arg)
      PROVE  CloexecOpen'
  <2>. DEFINE free == {x \in FreeFds(p) : x >= arg}
  <2>1. CASE fd \notin Open(p) \/ free = {}
    BY <1>2, <1>4, <2>1 DEF dupfd
  <2>2. CASE fd \in Open(p) /\ free # {}
    <3>1. /\ filp' = [filp EXCEPT ![p][Min(free)] = filp[p][fd]]
          /\ close_on_exec' = [close_on_exec EXCEPT ![p] = close_on_exec[p] \ {Min(free)}]
      BY <1>4, <2>2 DEF dupfd, Unflag
    <3>. QED
      BY <1>1, <3>1 DEF Open
  <2>. QED
    BY <2>1, <2>2
<1>5. CASE sys_open(p)
  <2>1. CASE FreeFiles \intersect Table = {}
    BY <1>1, <1>5, <2>1 DEF sys_open, Unflag, Open
  <2>2. CASE FreeFiles \intersect Table # {}
    <3>1. /\ filp' = [filp EXCEPT ![p][Min(FreeFds(p))] = Min(FreeFiles)]
          /\ close_on_exec' = [close_on_exec EXCEPT ![p] = @ \ {Min(FreeFds(p))}]
      BY <1>5, <2>2 DEF sys_open, Unflag
    <3>. QED
      BY <1>1, <3>1 DEF Open
  <2>. QED
    BY <2>1, <2>2
<1>6. CASE OpenFails(p) \/ PipeFails(p)
  <2>1. /\ filp' = [filp EXCEPT ![p] = [fd \in Fds |->
               IF \E t \in Taken(p) : t[1] = fd THEN 0 ELSE filp[p][fd]]]
        /\ UNCHANGED close_on_exec
    BY <1>6 DEF OpenFails, PipeFails, GiveBack, Taken
  <2>2. \A t \in Taken(p) : t[1] \notin close_on_exec[p]
    <3>1. One(loc[p].f) \/ Two(loc[p].f)
      BY <1>6 DEF Control, ControlInv, At, OpenFails, PipeFails
    <3>2. CASE One(loc[p].f)
      <4>1. PICK a \in Fds, f \in Files : loc[p].f = <<<<a, f>>>>
        BY <3>2 DEF One
      <4>. QED
        BY <4>1, TakenOne DEF UnflaggedInv
    <3>3. CASE Two(loc[p].f)
      <4>1. PICK a, b \in Fds, f, g \in Files : loc[p].f = <<<<a, f>>, <<b, g>>>>
        BY <3>3 DEF Two
      <4>2. Taken(p) = {<<a, f>>, <<b, g>>}
        BY <4>1, TakenTwo
      <4>3. a \notin close_on_exec[p] /\ b \notin close_on_exec[p]
        <5>1. <<a, f>> \in Taken(p) /\ <<b, g>> \in Taken(p)
          BY <4>2
        <5>. QED
          BY <5>1 DEF UnflaggedInv
      <4>. QED
        BY <4>2, <4>3
    <3>. QED
      BY <3>1, <3>2, <3>3
  <2>. QED
    BY <1>1, <2>1, <2>2 DEF Open
<1>7. CASE sys_close(p) \/ sys_dup2(p)
  BY ZenonT(60), <1>3, <1>7 DEF sys_close, sys_dup2, Open
<1>8. CASE CloseOnExec(p)
  <2>1. close_on_exec[p] # {} /\ close_on_exec[p] \subseteq Fds
    BY <1>8 DEF CloseOnExec
  <2>2. Min(close_on_exec[p]) \in Fds
    BY <2>1, FilesAndFds, MinNat
  <2>. QED
    BY <1>3, <1>8, <2>2 DEF CloseOnExec
<1>9. CASE Dup(p) \/ Dup2Done(p)
  BY <1>4, <1>9 DEF Dup, Dup2Done
<1>10. CASE sys_fcntl(p)
  BY <1>1, <1>10 DEF sys_fcntl, Unflag, Open
<1>11. CASE sys_pipe(p)
  <2>1. /\ filp' = [filp EXCEPT ![p][Min(FreeFds(p))] = Min(FreeFiles),
                                ![p][Second(FreeFds(p))] = Second(FreeFiles)]
        /\ UNCHANGED close_on_exec
    BY <1>11 DEF sys_pipe
  <2>2. Min(FreeFds(p)) \in FreeFds(p) /\ Second(FreeFds(p)) \in FreeFds(p)
    BY <1>11, TwoFree DEF sys_pipe
  <2>. QED
    BY <1>1, <2>1, <2>2 DEF Open, FreeFds
<1>12. CASE open_namei(p) \/ Opened(p) \/ iput(p) \/ PipeMade(p)
  BY <1>2, <1>12 DEF open_namei, Opened, iput, PipeMade
<1>13. CASE ExecStep(p) /\ ~ CloseOnExec(p)
  BY <1>2, <1>13 DEF ExecStep, do_execve, NotExecutable, Script, BadScript, ScriptStrings,
                     Interpreter, Program, Replaced, Start, exec_error1
<1>. QED
  BY <1>5, <1>6, <1>7, <1>8, <1>9, <1>10, <1>11, <1>12, <1>13 DEF Step, OpenStep

-----------------------------------------------------------------------------
(***************************************************************************)
(* Pages.                                                                  *)
(***************************************************************************)
PagesOK == PageTypeOK /\ PagesMatch

(* The owners of a page, for a table t of sets of pages.                   *)
Owners(t, g) == {p \in Procs : g \in t[p]}

LEMMA OwnersCount ==
    ASSUME NEW t \in [Procs -> SUBSET Pages], NEW p \in Procs, NEW S \in SUBSET Pages, NEW g \in Pages
    PROVE  /\ Cardinality(Owners(t, g)) \in Nat
           /\ Cardinality(Owners([t EXCEPT ![p] = S], g))
                 = Cardinality(Owners(t, g)) + In(g, S) - In(g, t[p])
<1>. DEFINE u == [t EXCEPT ![p] = S]
            A == Owners(t, g)
            B == Owners(u, g)
<1>1. /\ A \subseteq Procs /\ B \subseteq Procs
      /\ \A q \in Procs : q # p => (q \in A <=> q \in B)
      /\ p \in A <=> g \in t[p]
      /\ p \in B <=> g \in S
  BY DEF Owners
<1>. HIDE DEF A, B
<1>2. Cardinality(A) \in Nat /\ Cardinality(B) = Cardinality(A) + In(p, B) - In(p, A)
  <2>1. IsFiniteSet(Procs)
    BY OpenFilesAssumption
  <2>. QED
    BY <1>1, <2>1, CardDiffer
<1>3. In(p, B) = In(g, S) /\ In(p, A) = In(g, t[p])
  BY <1>1 DEF In
<1>. QED
  BY <1>2, <1>3 DEF A, B

(* The step of p makes the use of each page what its owners become.        *)
LEMMA PagesMove ==
    ASSUME PagesOK, NEW p \in Procs, NEW S \in SUBSET Pages, NEW T \in SUBSET Pages,
           page' = [page EXCEPT ![p] = S], space' = [space EXCEPT ![p] = T],
           mem_map' \in [Pages -> Int],
           \A g \in Pages : mem_map'[g] = mem_map[g] + In(g, S) - In(g, page[p])
                                                     + In(g, T) - In(g, space[p])
    PROVE  PagesOK'
<1>. page \in [Procs -> SUBSET Pages] /\ space \in [Procs -> SUBSET Pages] /\ mem_map \in [Pages -> Int]
  BY DEF PagesOK, PageTypeOK
<1>1. PageTypeOK'
  BY DEF PageTypeOK
<1>2. ASSUME NEW g \in Pages
      PROVE  mem_map'[g] = Cardinality(Owners(page', g)) + Cardinality(Owners(space', g))
  <2>1. mem_map[g] = Cardinality(Owners(page, g)) + Cardinality(Owners(space, g))
    BY DEF PagesOK, PagesMatch, Owners
  <2>2. /\ Cardinality(Owners(page, g)) \in Nat
        /\ Cardinality(Owners(page', g)) = Cardinality(Owners(page, g)) + In(g, S) - In(g, page[p])
    BY OwnersCount
  <2>3. /\ Cardinality(Owners(space, g)) \in Nat
        /\ Cardinality(Owners(space', g)) = Cardinality(Owners(space, g)) + In(g, T) - In(g, space[p])
    BY OwnersCount
  <2>4. In(g, S) \in Int /\ In(g, T) \in Int /\ In(g, page[p]) \in Int /\ In(g, space[p]) \in Int
    BY DEF In
  <2>. QED
    BY <2>1, <2>2, <2>3, <2>4
<1>. QED
  BY <1>1, <1>2 DEF PagesOK, PagesMatch, Owners

(* A free page has no owner, and one with an owner is in use.              *)
LEMMA FreeUnowned ==
    ASSUME PagesOK, NEW p \in Procs, NEW g \in Pages, mem_map[g] = 0
    PROVE  g \notin page[p] /\ g \notin space[p]
<1>1. mem_map[g] = Cardinality(Owners(page, g)) + Cardinality(Owners(space, g))
  BY DEF PagesOK, PagesMatch, Owners
<1>2. IsFiniteSet(Owners(page, g)) /\ IsFiniteSet(Owners(space, g))
  BY OpenFilesAssumption, FS_Subset DEF Owners
<1>3. Owners(page, g) = {} /\ Owners(space, g) = {}
  BY <1>1, <1>2, CardType
<1>. QED
  BY <1>3 DEF Owners

LEMMA CopyPages ==
    ASSUME PagesOK, NEW p \in Procs, NEW Copied, NEW Full, copy_strings(p, Copied, Full),
           UNCHANGED space
    PROVE  PagesOK'
<1>. page \in [Procs -> SUBSET Pages] /\ space \in [Procs -> SUBSET Pages] /\ mem_map \in [Pages -> Int]
  BY DEF PagesOK, PageTypeOK
<1>. DEFINE free == {g \in Pages : mem_map[g] = 0}
<1>1. PICK S : /\ S \subseteq free
               /\ mem_map' = [g \in Pages |-> IF g \in S THEN 1 ELSE mem_map[g]]
               /\ page' = [page EXCEPT ![p] = page[p] \union S]
  BY DEF copy_strings, kSubset
<1>2. mem_map' \in [Pages -> Int]
  BY <1>1
<1>3. space' = [space EXCEPT ![p] = space[p]]
  OBVIOUS
<1>4. ASSUME NEW g \in Pages
      PROVE  mem_map'[g] = mem_map[g] + In(g, page[p] \union S) - In(g, page[p])
                                      + In(g, space[p]) - In(g, space[p])
  <2>1. CASE g \in S
    BY <1>1, <2>1, FreeUnowned DEF In
  <2>2. CASE g \notin S
    BY <1>1, <2>2 DEF In
  <2>. QED
    BY <2>1, <2>2
<1>5. page[p] \union S \in SUBSET Pages /\ space[p] \in SUBSET Pages
  BY <1>1
<1>. QED
  BY ZenonT(60), <1>1, <1>2, <1>3, <1>4, <1>5, PagesMove

LEMMA PagesStep ==
    ASSUME PagesOK, NEW p \in Procs, Step(p)
    PROVE  PagesOK'
<1>. page \in [Procs -> SUBSET Pages] /\ space \in [Procs -> SUBSET Pages] /\ mem_map \in [Pages -> Int]
  BY DEF PagesOK, PageTypeOK
<1>1. CASE UNCHANGED <<page, space, mem_map>>
  BY <1>1 DEF PagesOK, PageTypeOK, PagesMatch
<1>2. CASE ScriptStrings(p)
  BY <1>2, CopyPages DEF ScriptStrings
<1>3. CASE Program(p)
  BY <1>1, <1>3, CopyPages DEF Program
<1>4. CASE exec_error1(p)
  <2>1. /\ mem_map' = [g \in Pages |-> IF g \in page[p] THEN mem_map[g] - 1 ELSE mem_map[g]]
        /\ page' = [page EXCEPT ![p] = {}] /\ space' = [space EXCEPT ![p] = space[p]]
    BY <1>4 DEF exec_error1, free_pages
  <2>2. mem_map' \in [Pages -> Int]
    BY <2>1
  <2>3. \A g \in Pages : mem_map'[g] = mem_map[g] + In(g, {}) - In(g, page[p])
                                                 + In(g, space[p]) - In(g, space[p])
    BY <2>1 DEF In
  <2>4. {} \in SUBSET Pages /\ page[p] \in SUBSET Pages /\ space[p] \in SUBSET Pages
    OBVIOUS
  <2>. QED
    BY <2>1, <2>2, <2>3, <2>4, PagesMove
<1>5. CASE Start(p)
  <2>1. /\ mem_map' = [g \in Pages |-> IF g \in space[p] THEN mem_map[g] - 1 ELSE mem_map[g]]
        /\ page' = [page EXCEPT ![p] = {}] /\ space' = [space EXCEPT ![p] = page[p]]
    BY <1>5 DEF Start, free_pages
  <2>2. mem_map' \in [Pages -> Int]
    BY <2>1
  <2>3. \A g \in Pages : mem_map'[g] = mem_map[g] + In(g, {}) - In(g, page[p])
                                                 + In(g, page[p]) - In(g, space[p])
    BY <2>1 DEF In
  <2>4. {} \in SUBSET Pages /\ page[p] \in SUBSET Pages /\ space[p] \in SUBSET Pages
    OBVIOUS
  <2>. QED
    BY <2>1, <2>2, <2>3, <2>4, PagesMove
<1>6. CASE OpenStep(p) /\ UNCHANGED execVars
  BY <1>1, <1>6 DEF execVars
<1>7. CASE \/ do_execve(p) \/ NotExecutable(p) \/ Script(p) \/ BadScript(p)
           \/ Interpreter(p) \/ Replaced(p) \/ CloseOnExec(p)
  BY <1>1, <1>7 DEF do_execve, NotExecutable, Script, BadScript, Interpreter, Replaced,
                    CloseOnExec, execVars
<1>. QED
  BY <1>2, <1>3, <1>4, <1>5, <1>6, <1>7 DEF Step, ExecStep

-----------------------------------------------------------------------------
(***************************************************************************)
(* Inodes: what a process and the established files hold.                  *)
(***************************************************************************)
FilesOf(i) == {f \in Established : f_inode[f] = i}

Held(p, i) == (IF loc[p].inode = i THEN 1 ELSE 0)
              + (IF loc[p].put = i THEN 1 ELSE 0)
              + (IF executable[p] = i /\ ~Replacing(p) THEN 1 ELSE 0)

Balanced(i) == i_count[i] = Cardinality(FilesOf(i))
                            + Cardinality({p \in Procs : loc[p].inode = i})
                            + Cardinality({p \in Procs : loc[p].put = i})
                            + Cardinality({p \in Procs : executable[p] = i /\ ~Replacing(p)})

LEMMA FilesOfFinite ==
    ASSUME NEW i
    PROVE  /\ FilesOf(i) \subseteq Files /\ Cardinality(FilesOf(i)) \in Nat
           /\ FilesOf(i)' \subseteq Files /\ Cardinality(FilesOf(i)') \in Nat
           /\ IsFiniteSet(Files)
<1>1. IsFiniteSet(Files)
  BY FS_Interval, OpenFilesAssumption DEF Files
<1>2. FilesOf(i) \subseteq Files /\ FilesOf(i)' \subseteq Files
  BY DEF FilesOf, Established
<1>. QED
  BY <1>1, <1>2, FS_Subset, CardType

(* i_count follows what p and the files hold: others hold what they held.  *)
LEMMA HeldMove ==
    ASSUME NEW i \in Inodes, i_count[i] \in Int, Balanced(i), NEW p \in Procs,
           \A q \in Procs \ {p} : /\ loc'[q] = loc[q] /\ pc'[q] = pc[q]
                                  /\ executable'[q] = executable[q],
           i_count'[i] = i_count[i] + Cardinality(FilesOf(i)') - Cardinality(FilesOf(i))
                                    + Held(p, i)' - Held(p, i)
    PROVE  Balanced(i)'
<1>. DEFINE A1 == {q \in Procs : loc[q].inode = i}
            A2 == {q \in Procs : loc[q].put = i}
            A3 == {q \in Procs : executable[q] = i /\ ~Replacing(q)}
            B1 == {q \in Procs : loc'[q].inode = i}
            B2 == {q \in Procs : loc'[q].put = i}
            B3 == {q \in Procs : executable'[q] = i /\ ~(pc'[q] = "replace" \/ loc'[q].then = "replace")}
<1>0. IsFiniteSet(Procs)
  BY OpenFilesAssumption
<1>1. /\ \A q \in Procs : q # p => (q \in A1 <=> q \in B1)
      /\ \A q \in Procs : q # p => (q \in A2 <=> q \in B2)
      /\ \A q \in Procs : q # p => (q \in A3 <=> q \in B3)
      /\ A1 \in SUBSET Procs /\ A2 \in SUBSET Procs /\ A3 \in SUBSET Procs
      /\ B1 \in SUBSET Procs /\ B2 \in SUBSET Procs /\ B3 \in SUBSET Procs
  BY DEF Replacing
<1>2. Held(p, i) = In(p, A1) + In(p, A2) + In(p, A3)
  BY DEF Held, In
<1>3. Held(p, i)' = In(p, B1) + In(p, B2) + In(p, B3)
  BY DEF Held, In, Replacing
<1>4. Balanced(i) <=> i_count[i] = Cardinality(FilesOf(i)) + Cardinality(A1) + Cardinality(A2) + Cardinality(A3)
  BY DEF Balanced
<1>5. Balanced(i)' <=> i_count'[i] = Cardinality(FilesOf(i)') + Cardinality(B1) + Cardinality(B2) + Cardinality(B3)
  BY DEF Balanced, Replacing
<1>. HIDE DEF A1, A2, A3, B1, B2, B3
<1>6. /\ Cardinality(A1) \in Nat /\ Cardinality(B1) = Cardinality(A1) + In(p, B1) - In(p, A1)
      /\ Cardinality(A2) \in Nat /\ Cardinality(B2) = Cardinality(A2) + In(p, B2) - In(p, A2)
      /\ Cardinality(A3) \in Nat /\ Cardinality(B3) = Cardinality(A3) + In(p, B3) - In(p, A3)
  <2>1. Cardinality(A1) \in Nat /\ Cardinality(B1) = Cardinality(A1) + In(p, B1) - In(p, A1)
    BY <1>0, <1>1, CardDiffer
  <2>2. Cardinality(A2) \in Nat /\ Cardinality(B2) = Cardinality(A2) + In(p, B2) - In(p, A2)
    BY <1>0, <1>1, CardDiffer
  <2>3. Cardinality(A3) \in Nat /\ Cardinality(B3) = Cardinality(A3) + In(p, B3) - In(p, A3)
    BY <1>0, <1>1, CardDiffer
  <2>. QED
    BY <2>1, <2>2, <2>3
<1>7. \A S : In(p, S) \in Int
  BY DEF In
<1>8. Cardinality(FilesOf(i)) \in Int /\ Cardinality(FilesOf(i)') \in Int
  BY FilesOfFinite
<1>. HIDE DEF FilesOf
<1>9. /\ In(p, A1) \in Int /\ In(p, A2) \in Int /\ In(p, A3) \in Int
      /\ In(p, B1) \in Int /\ In(p, B2) \in Int /\ In(p, B3) \in Int
  BY <1>7
<1>. QED
  BY <1>2, <1>3, <1>4, <1>5, <1>6, <1>8, <1>9

(* Which files are established, before and after a step of p.              *)
Here(p, f) == \E a \in Fds : <<a, f>> \in Taken(p)
Elsewhere(p, f) == \E q \in Procs \ {p} : Here(q, f)

LEMMA TakenPairs ==
    ASSUME NEW s \in Takings
    PROVE  {s[k] : k \in DOMAIN s} \subseteq Fds \X Files
<1>1. CASE s = <<>>
  BY <1>1
<1>2. CASE \E a \in Fds, f \in Files : s = <<<<a, f>>>>
  BY <1>2
<1>3. CASE \E a, b \in Fds, f, g \in Files : s = <<<<a, f>>, <<b, g>>>>
  BY <1>3
<1>. QED
  BY <1>1, <1>2, <1>3 DEF Takings

LEMMA PairIn ==
    ASSUME NEW T, T \subseteq Fds \X Files, NEW f
    PROVE  (\E t \in T : t[2] = f) <=> \E a \in Fds : <<a, f>> \in T
<1>1. ASSUME NEW t \in T, t[2] = f PROVE \E a \in Fds : <<a, f>> \in T
  <2>1. t[1] \in Fds /\ t = <<t[1], f>>
    BY <1>1
  <2>. QED
    BY <2>1
<1>. QED
  BY <1>1

LEMMA PendingIs ==
    ASSUME loc \in [Procs -> Locals], loc' \in [Procs -> Locals], NEW f \in Files
    PROVE  /\ f \in Pending <=> \E p \in Procs : Here(p, f)
           /\ f \in Pending' <=> \E p \in Procs : Here(p, f)'
<1>1. \A p \in Procs : Taken(p) \subseteq Fds \X Files /\ Taken(p)' \subseteq Fds \X Files
  BY TakenPairs DEF Taken, Locals
<1>2. /\ f \in Pending <=> \E p \in Procs : \E t \in Taken(p) : t[2] = f
      /\ f \in Pending' <=> \E p \in Procs : \E t \in Taken(p)' : t[2] = f
  BY DEF Pending, Taken
<1>. QED
  BY <1>1, <1>2, PairIn DEF Here

LEMMA EstablishedIs ==
    ASSUME Control, Control', NEW p \in Procs, Others(p), NEW f \in Files
    PROVE  /\ f \in Established <=> f_count[f] > 0 /\ ~Here(p, f) /\ ~Elsewhere(p, f)
           /\ f \in Established' <=> f_count'[f] > 0 /\ ~Here(p, f)' /\ ~Elsewhere(p, f)
<1>1. \A q \in Procs \ {p} : Here(q, f)' <=> Here(q, f)
  BY DEF Others, Same, Here, Taken
<1>2. /\ f \in Pending <=> Here(p, f) \/ Elsewhere(p, f)
      /\ f \in Pending' <=> Here(p, f)' \/ Elsewhere(p, f)
  BY <1>1, PendingIs DEF Control, Elsewhere
<1>. QED
  BY <1>2 DEF Established

LEMMA MineNotElsewhere ==
    ASSUME FilesOK, TakenInv, NEW p \in Procs, NEW f \in Files, Mine(p, f)
    PROVE  ~Elsewhere(p, f)
BY NotMine DEF Elsewhere, Here

(* A step that gives p no file and takes none changes nothing established. *)
LEMMA FilesOfSame ==
    ASSUME Control, Control', NEW p \in Procs, Others(p), NEW i,
           \A f \in Files : f_count'[f] > 0 <=> f_count[f] > 0,
           \A f \in Files : f_inode'[f] = f_inode[f],
           \A f \in Files : Here(p, f)' <=> Here(p, f)
    PROVE  FilesOf(i)' = FilesOf(i)
<1>1. Established \subseteq Files /\ Established' \subseteq Files
  BY DEF Established
<1>2. ASSUME NEW f \in Files PROVE f \in Established' <=> f \in Established
  BY EstablishedIs
<1>3. Established' = Established
  BY <1>1, <1>2
<1>4. \A f \in Established : f_inode'[f] = f_inode[f]
  BY <1>1
<1>. QED
  BY <1>3, <1>4 DEF FilesOf

-----------------------------------------------------------------------------
(***************************************************************************)
(* The steps on inodes.                                                    *)
(***************************************************************************)
(* The state before a step of p, and what is known of the one after.       *)
Before(p) == TakenOK /\ Others(p) /\ Control'
             /\ \A q \in Procs \ {p} : executable'[q] = executable[q]

LEMMA BeforeIs ==
    ASSUME NEW p \in Procs, Before(p)
    PROVE  /\ Control /\ Control' /\ Others(p) /\ FilesOK /\ TakenInv /\ InodeTypeOK /\ FileTypeOK
           /\ FilesMatch
           /\ At(pc[p], loc[p]) /\ At(pc'[p], loc'[p])
           /\ loc[p] \in Locals /\ loc'[p] \in Locals
           /\ \A q \in Procs \ {p} : /\ loc'[q] = loc[q] /\ pc'[q] = pc[q]
                                     /\ executable'[q] = executable[q]
BY DEF Before, TakenOK, FilesOK, Control, ControlInv, Others, Same

LEMMA NotHere ==
    ASSUME NEW p \in Procs, Before(p), NEW f
    PROVE  /\ pc[p] \notin {"open_namei", "opened", "get_pipe_inode"} => ~Here(p, f)
           /\ pc'[p] \notin {"open_namei", "opened", "get_pipe_inode"} => ~Here(p, f)'
<1>1. /\ pc[p] \notin {"open_namei", "opened", "get_pipe_inode"} => Taken(p) = {}
      /\ pc'[p] \notin {"open_namei", "opened", "get_pipe_inode"} => Taken(p)' = {}
  BY BeforeIs, NothingTaken, NothingTakenAfter
<1>. QED
  BY <1>1 DEF Here

(* A step that leaves the established files alone.                         *)
LEMMA Quiet ==
    ASSUME NEW p \in Procs, Before(p), NEW i \in Inodes, Balanced(i), FilesOf(i)' = FilesOf(i),
           i_count'[i] = i_count[i] + Held(p, i)' - Held(p, i)
    PROVE  Balanced(i)'
<1>1. i_count[i] \in Int /\ Cardinality(FilesOf(i)) \in Int
  BY BeforeIs, FilesOfFinite DEF InodeTypeOK
<1>2. Held(p, i) \in Int /\ Held(p, i)' \in Int
  BY DEF Held
<1>3. i_count'[i] = i_count[i] + Cardinality(FilesOf(i)') - Cardinality(FilesOf(i))
                               + Held(p, i)' - Held(p, i)
  BY <1>1, <1>2
<1>. QED
  BY <1>1, <1>3, BeforeIs, HeldMove

(* A step that establishes f, or unestablishes it.                         *)
LEMMA OneFile ==
    ASSUME NEW p \in Procs, Before(p), NEW i \in Inodes, Balanced(i), NEW f \in Files,
           \A g \in Files : g # f => (g \in FilesOf(i) <=> g \in FilesOf(i)'),
           i_count'[i] = i_count[i] + In(f, FilesOf(i)') - In(f, FilesOf(i))
                                    + Held(p, i)' - Held(p, i)
    PROVE  Balanced(i)'
<1>1. i_count[i] \in Int
  BY BeforeIs DEF InodeTypeOK
<1>2. /\ FilesOf(i) \subseteq Files /\ FilesOf(i)' \subseteq Files /\ IsFiniteSet(Files)
  BY FilesOfFinite
<1>. HIDE DEF FilesOf
<1>3. /\ Cardinality(FilesOf(i)) \in Nat /\ Cardinality(FilesOf(i)') \in Nat
      /\ Cardinality(FilesOf(i)') = Cardinality(FilesOf(i)) + In(f, FilesOf(i)') - In(f, FilesOf(i))
  BY <1>2, CardDiffer
<1>4. Held(p, i) \in Int /\ Held(p, i)' \in Int
  BY DEF Held
<1>5. In(f, FilesOf(i)) \in Int /\ In(f, FilesOf(i)') \in Int
  BY DEF In
<1>6. i_count'[i] = i_count[i] + Cardinality(FilesOf(i)') - Cardinality(FilesOf(i))
                               + Held(p, i)' - Held(p, i)
  BY <1>1, <1>3, <1>4, <1>5
<1>. QED
  BY <1>1, <1>6, BeforeIs, HeldMove

LEMMA CloseInodes ==
    ASSUME NEW p \in Procs, Before(p), NEW i \in Inodes, Balanced(i),
           NEW fd \in Fds, NEW then \in Afterwards, NEW l \in Locals, then # "replace",
           pc[p] \in {"idle", "closing"}, At(then, l), l.inode = None,
           Close(p, fd, then, l), UNCHANGED <<f_inode, i_count, executable>>
    PROVE  Balanced(i)'
<1>. At(pc[p], loc[p]) /\ pc \in [Procs -> Labels] /\ loc \in [Procs -> Locals]
  BY BeforeIs DEF Control
<1>. f_inode \in [Files -> Inodes \union {None}] /\ i_count[i] \in Int
     /\ f_count \in [Files -> Int] /\ filp \in [Procs -> [Fds -> {0} \union Files]]
  BY BeforeIs DEF InodeTypeOK, FileTypeOK
<1>. DEFINE f == filp[p][fd]
<1>0. /\ loc[p].inode = None /\ loc[p].put = None /\ ~Replacing(p)
      /\ pc[p] \notin {"open_namei", "opened", "get_pipe_inode"}
  BY NoLocIs DEF At, Replacing
<1>1. \A g \in Files : ~Here(p, g)
  BY <1>0, NotHere
<1>2. ASSUME pc' = [pc EXCEPT ![p] = then], loc' = [loc EXCEPT ![p] = l],
             \A g \in Files : f_count'[g] > 0 <=> f_count[g] > 0
      PROVE  Balanced(i)'
  <2>1. pc'[p] = then /\ loc'[p] = l
    BY <1>2
  <2>2. \A g \in Files : ~Here(p, g)'
    BY <2>1, NotHere DEF Afterwards
  <2>3. FilesOf(i)' = FilesOf(i)
    BY <1>1, <1>2, <2>2, BeforeIs, FilesOfSame
  <2>4. loc'[p].put = None /\ loc'[p].inode = None /\ ~Replacing(p)'
    BY <2>1 DEF At, Replacing, Afterwards
  <2>5. Held(p, i)' = Held(p, i)
    BY <1>0, <2>4, OpenFilesAssumption DEF Held
  <2>6. i_count'[i] = i_count[i] + Held(p, i)' - Held(p, i)
    BY <2>5 DEF Held
  <2>. QED
    BY <2>3, <2>6, Quiet
<1>3. CASE f = 0
  BY <1>2, <1>3 DEF Close, Goto
<1>4. CASE f # 0 /\ f_count[f] > 1
  <2>1. /\ f_count' = [f_count EXCEPT ![f] = f_count[f] - 1]
        /\ pc' = [pc EXCEPT ![p] = then] /\ loc' = [loc EXCEPT ![p] = l]
    BY <1>4 DEF Close, Goto
  <2>2. \A g \in Files : f_count'[g] > 0 <=> f_count[g] > 0
    BY <1>4, <2>1
  <2>. QED
    BY <1>2, <2>1, <2>2
<1>5. CASE f # 0 /\ ~(f_count[f] > 1)
  <2>. DEFINE m == [l EXCEPT !.put = f_inode[f], !.then = then]
  <2>1. /\ f_count' = [f_count EXCEPT ![f] = f_count[f] - 1]
        /\ loc' = [loc EXCEPT ![p] = m] /\ pc' = [pc EXCEPT ![p] = "iput"]
    BY <1>5 DEF Close, Goto
  <2>2. f \in Files /\ f_count[f] = 1
    <3>1. filp \in Tables /\ Match(filp, f_count)
      BY BeforeIs, FilesOKIs
    <3>. QED
      BY <1>5, <3>1, Counted
  <2>3. loc'[p].put = f_inode[f] /\ loc'[p].inode = None /\ ~Replacing(p)' /\ pc'[p] = "iput"
    BY <2>1 DEF Locals, Replacing
  <2>4. \A g \in Files : ~Here(p, g)'
    BY <2>3, NotHere
  <2>5. f \in Established /\ f \notin Established'
    <3>1. ~Elsewhere(p, f)
      BY <2>2, BeforeIs, MineNotElsewhere DEF Mine
    <3>2. f_count'[f] = 0
      BY <2>1, <2>2
    <3>. QED
      BY <1>1, <2>2, <3>1, <3>2, BeforeIs, EstablishedIs
  <2>6. ASSUME NEW g \in Files, g # f PROVE g \in Established <=> g \in Established'
    <3>1. f_count'[g] = f_count[g]
      BY <2>1, <2>6
    <3>. QED
      BY <1>1, <2>4, <3>1, BeforeIs, EstablishedIs
  <2>7. \A g \in Files : g # f => (g \in FilesOf(i) <=> g \in FilesOf(i)')
    BY <2>6 DEF FilesOf
  <2>8. In(f, FilesOf(i)) = (IF f_inode[f] = i THEN 1 ELSE 0) /\ In(f, FilesOf(i)') = 0
    BY <2>5 DEF FilesOf, In
  <2>9. Held(p, i)' = (IF f_inode[f] = i THEN 1 ELSE 0) + Held(p, i)
    BY <1>0, <2>3, OpenFilesAssumption DEF Held
  <2>10. i_count'[i] = i_count[i] + In(f, FilesOf(i)') - In(f, FilesOf(i))
                                  + Held(p, i)' - Held(p, i)
    BY <2>8, <2>9 DEF Held
  <2>. QED
    BY <2>2, <2>7, <2>10, OneFile
<1>. QED
  BY <1>3, <1>4, <1>5

(* sys_open and sys_pipe take free files: nothing is established.          *)
LEMMA TakeInodes ==
    ASSUME NEW p \in Procs, Before(p), NEW i \in Inodes, Balanced(i), sys_open(p) \/ sys_pipe(p),
           UNCHANGED executable
    PROVE  Balanced(i)'
<1>. /\ At(pc[p], loc[p]) /\ pc[p] = "idle" /\ At(pc'[p], loc'[p]) /\ UNCHANGED <<f_inode, i_count>>
     /\ pc \in [Procs -> Labels] /\ loc \in [Procs -> Locals] /\ f_count \in [Files -> Int]
  BY BeforeIs DEF Control, FileTypeOK, sys_open, sys_pipe, May
<1>0. pc'[p] \in {"idle", "open_namei", "get_pipe_inode"}
  BY DEF sys_open, sys_pipe, Goto
<1>1. /\ loc[p].inode = None /\ loc[p].put = None /\ ~Replacing(p)
      /\ loc'[p].inode = None /\ loc'[p].put = None /\ ~Replacing(p)'
  BY <1>0, NoLocIs DEF At, Replacing
<1>2. Held(p, i)' = Held(p, i)
  BY <1>1, OpenFilesAssumption DEF Held
<1>3. i_count'[i] = i_count[i] + Held(p, i)' - Held(p, i)
  <2>1. i_count[i] \in Int
    BY BeforeIs DEF InodeTypeOK
  <2>. QED
    BY <1>2, <2>1 DEF Held
<1>4. \A g \in Files : ~Here(p, g)
  BY NotHere
<1>5. \A g \in Files : \/ f_count'[g] = f_count[g] /\ ~Here(p, g)'
                       \/ f_count[g] = 0 /\ Here(p, g)'
  <2>1. CASE sys_open(p) /\ FreeFiles \intersect Table = {}
    <3>1. f_count' = f_count /\ pc'[p] = "idle"
      BY <2>1 DEF sys_open
    <3>. QED
      BY <3>1, NotHere
  <2>2. CASE sys_open(p) /\ FreeFiles \intersect Table # {}
    <3>1. PICK a \in Fds, f \in Files : /\ a = Min(FreeFds(p)) /\ f = Min(FreeFiles)
                                        /\ f_count[f] = 0
      BY <2>2, LeastFree DEF sys_open, FreeFiles
    <3>2. f_count' = [f_count EXCEPT ![f] = f_count[f] + 1] /\ loc' = [loc EXCEPT ![p].f = <<<<a, f>>>>]
      BY <2>2, <3>1 DEF sys_open
    <3>3. loc'[p].f = <<<<a, f>>>>
      BY <3>2 DEF Locals
    <3>4. Taken(p)' = {<<a, f>>}
      BY <3>3 DEF Taken
    <3>. QED
      BY <3>1, <3>2, <3>4 DEF Here
  <2>3. CASE sys_pipe(p)
    <3>1. PICK a, b \in Fds : a = Min(FreeFds(p)) /\ b = Second(FreeFds(p))
      BY <2>3, TwoFree, LeastFree DEF sys_pipe
    <3>2. PICK f, g \in Files : /\ f = Min(FreeFiles) /\ g = Second(FreeFiles)
                                /\ f_count[f] = 0 /\ f_count[g] = 0
      BY <2>3, TwoFree DEF sys_pipe, FreeFiles
    <3>3. /\ f_count' = [f_count EXCEPT ![f] = 1, ![g] = 1]
          /\ loc' = [loc EXCEPT ![p].f = <<<<a, f>>, <<b, g>>>>]
      BY <2>3, <3>1, <3>2 DEF sys_pipe
    <3>4. loc'[p].f = <<<<a, f>>, <<b, g>>>>
      BY <3>3 DEF Locals
    <3>5. Taken(p)' = {<<a, f>>, <<b, g>>}
      BY <3>4 DEF Taken
    <3>. QED
      BY <3>2, <3>3, <3>5 DEF Here
  <2>. QED
    BY <2>1, <2>2, <2>3
<1>6. ASSUME NEW g \in Files PROVE g \in Established' <=> g \in Established
  <2>1. CASE f_count'[g] = f_count[g] /\ ~Here(p, g)'
    BY <1>4, <2>1, BeforeIs, EstablishedIs
  <2>2. CASE f_count[g] = 0 /\ Here(p, g)'
    <3>1. ~(f_count[g] > 0)
      BY <2>2
    <3>. QED
      BY <2>2, <3>1, BeforeIs, EstablishedIs
  <2>. QED
    BY <1>5, <2>1, <2>2
<1>7. FilesOf(i)' = FilesOf(i)
  BY <1>6 DEF FilesOf, Established
<1>. QED
  BY <1>3, <1>7, Quiet

(* A call that fails gives back files that were not established.           *)
LEMMA GiveBackInodes ==
    ASSUME NEW p \in Procs, Before(p), NEW i \in Inodes, Balanced(i), OpenFails(p) \/ PipeFails(p),
           UNCHANGED executable
    PROVE  Balanced(i)'
<1>. /\ At(pc[p], loc[p]) /\ UNCHANGED <<f_inode, i_count>> /\ loc[p] \in Locals
     /\ pc[p] \in {"open_namei", "get_pipe_inode"} /\ GiveBack(p) /\ Done(p)
     /\ pc \in [Procs -> Labels] /\ loc \in [Procs -> Locals] /\ f_count \in [Files -> Int]
  BY BeforeIs DEF Control, FileTypeOK, OpenFails, PipeFails
<1>1. /\ loc[p].inode = None /\ loc[p].put = None /\ ~Replacing(p)
      /\ loc'[p] = NoLoc /\ pc'[p] = "idle"
  BY NoLocIs DEF At, Replacing, Done, Goto
<1>2. Held(p, i)' = Held(p, i)
  BY <1>1, NoLocIs, OpenFilesAssumption DEF Held, Replacing
<1>3. i_count'[i] = i_count[i] + Held(p, i)' - Held(p, i)
  <2>1. i_count[i] \in Int
    BY BeforeIs DEF InodeTypeOK
  <2>. QED
    BY <1>2, <2>1 DEF Held
<1>4. ASSUME NEW g \in Files PROVE g \in Established' <=> g \in Established
  <2>1. f_count'[g] = IF Here(p, g) THEN 0 ELSE f_count[g]
    <3>1. f_count'[g] = IF \E t \in Taken(p) : t[2] = g THEN 0 ELSE f_count[g]
      BY DEF GiveBack, Taken
    <3>2. Taken(p) \subseteq Fds \X Files
      BY TakenPairs DEF Taken, Locals
    <3>. QED
      BY <3>1, <3>2, PairIn DEF Here
  <2>2. ~Here(p, g)'
    BY <1>1, NotHere
  <2>3. CASE Here(p, g)
    <3>1. ~(f_count'[g] > 0)
      BY <2>1, <2>3
    <3>. QED
      BY <2>3, <3>1, BeforeIs, EstablishedIs
  <2>4. CASE ~Here(p, g)
    BY <2>1, <2>2, <2>4, BeforeIs, EstablishedIs
  <2>. QED
    BY <2>3, <2>4
<1>5. FilesOf(i)' = FilesOf(i)
  BY <1>4 DEF FilesOf, Established
<1>. QED
  BY <1>3, <1>5, Quiet

(* An open ends: its file is established with the inode it held.           *)
LEMMA OpenedInodes ==
    ASSUME NEW p \in Procs, Before(p), NEW i \in Inodes, Balanced(i), Opened(p), UNCHANGED executable
    PROVE  Balanced(i)'
<1>. /\ At(pc[p], loc[p]) /\ UNCHANGED i_count /\ pc[p] = "opened" /\ Done(p)
     /\ pc \in [Procs -> Labels] /\ loc \in [Procs -> Locals] /\ f_count \in [Files -> Int]
     /\ f_inode \in [Files -> Inodes \union {None}] /\ i_count[i] \in Int
  BY BeforeIs DEF Control, FileTypeOK, InodeTypeOK, Opened
<1>1. PICK a \in Fds, f \in Files : loc[p].f = <<<<a, f>>>>
  BY DEF At, One
<1>2. Taken(p) = {<<a, f>>}
  BY <1>1, TakenOne
<1>3. f_count[f] = 1 /\ Here(p, f) /\ Mine(p, f) /\ \A g \in Files : g # f => ~Here(p, g)
  BY ZenonT(60), <1>2, BeforeIs, TakenMine DEF Here
<1>4. f_count' = [f_count EXCEPT ![f] = 1] /\ f_inode' = [f_inode EXCEPT ![f] = loc[p].inode]
  BY <1>1 DEF Opened
<1>5. loc'[p] = NoLoc /\ pc'[p] = "idle"
  BY DEF Done, Goto
<1>6. \A g \in Files : ~Here(p, g)'
  BY <1>5, NotHere
<1>7. f \notin Established /\ f \in Established'
  <2>1. ~Elsewhere(p, f) /\ f_count'[f] > 0
    BY <1>3, <1>4, BeforeIs, MineNotElsewhere
  <2>. QED
    BY <1>3, <1>6, <2>1, BeforeIs, EstablishedIs
<1>8. ASSUME NEW g \in Files, g # f PROVE g \in Established <=> g \in Established'
  <2>1. f_count'[g] = f_count[g]
    BY <1>4, <1>8
  <2>. QED
    BY <1>3, <1>6, <1>8, <2>1, BeforeIs, EstablishedIs
<1>9. \A g \in Files : g # f => (g \in FilesOf(i) <=> g \in FilesOf(i)')
  BY <1>4, <1>8 DEF FilesOf
<1>10. In(f, FilesOf(i)) = 0 /\ In(f, FilesOf(i)') = (IF loc[p].inode = i THEN 1 ELSE 0)
  BY <1>4, <1>7 DEF FilesOf, In
<1>11. loc[p].put = None /\ ~Replacing(p) /\ ~Replacing(p)'
  BY <1>5, NoLocIs DEF At, Replacing
<1>12. Held(p, i) = (IF loc[p].inode = i THEN 1 ELSE 0) + Held(p, i)'
  BY <1>5, <1>11, NoLocIs, OpenFilesAssumption DEF Held
<1>13. i_count'[i] = i_count[i] + In(f, FilesOf(i)') - In(f, FilesOf(i))
                                + Held(p, i)' - Held(p, i)
  BY <1>10, <1>12 DEF Held
<1>. QED
  BY <1>9, <1>13, OneFile

(* get_pipe_inode: both files are established with an inode nobody had.    *)
LEMMA PipeMadeInodes ==
    ASSUME NEW p \in Procs, Before(p), NEW i \in Inodes, Balanced(i), PipeMade(p), UNCHANGED executable
    PROVE  Balanced(i)'
<1>. /\ At(pc[p], loc[p]) /\ UNCHANGED f_count /\ pc[p] = "get_pipe_inode" /\ Done(p)
     /\ pc \in [Procs -> Labels] /\ loc \in [Procs -> Locals] /\ f_count \in [Files -> Int]
     /\ f_inode \in [Files -> Inodes \union {None}] /\ i_count \in [Inodes -> Int]
  BY BeforeIs DEF Control, FileTypeOK, InodeTypeOK, PipeMade
<1>1. PICK a, b \in Fds, f, g \in Files : loc[p].f = <<<<a, f>>, <<b, g>>>> /\ f # g
  BY DEF At, Two
<1>2. Taken(p) = {<<a, f>>, <<b, g>>}
  BY <1>1, TakenTwo
<1>3. /\ f_count[f] = 1 /\ Here(p, f) /\ Mine(p, f)
      /\ f_count[g] = 1 /\ Here(p, g) /\ Mine(p, g)
      /\ \A h \in Files \ {f, g} : ~Here(p, h)
  <2>1. <<a, f>> \in Taken(p) /\ <<b, g>> \in Taken(p)
    BY <1>2
  <2>2. \A h \in Files \ {f, g} : ~Here(p, h)
    BY <1>2 DEF Here
  <2>. QED
    BY <2>1, <2>2, BeforeIs, TakenMine DEF Here
<1>4. PICK j \in Inodes :
           /\ i_count[j] = 0 /\ i_count' = [i_count EXCEPT ![j] = 2]
           /\ f_inode' = [h \in Files |->
                 IF \E k \in 1 .. 2 : loc[p].f[k][2] = h THEN j ELSE f_inode[h]]
  BY DEF PipeMade
<1>5. \A h \in Files : f_inode'[h] = IF h = f \/ h = g THEN j ELSE f_inode[h]
  <2>1. \A h : (\E k \in 1 .. 2 : loc[p].f[k][2] = h) <=> h = f \/ h = g
    BY <1>1
  <2>. QED
    BY <1>4, <2>1
<1>6. loc'[p] = NoLoc /\ pc'[p] = "idle"
  BY DEF Done, Goto
<1>7. \A h \in Files : ~Here(p, h)'
  BY <1>6, NotHere
<1>8. /\ f \notin Established /\ f \in Established' /\ g \notin Established /\ g \in Established'
  <2>1. ~Elsewhere(p, f) /\ f_count'[f] > 0 /\ ~Elsewhere(p, g) /\ f_count'[g] > 0
    BY <1>3, BeforeIs, MineNotElsewhere
  <2>. QED
    BY <1>3, <1>7, <2>1, BeforeIs, EstablishedIs
<1>9. ASSUME NEW h \in Files \ {f, g} PROVE h \in Established <=> h \in Established'
  BY <1>3, <1>7, BeforeIs, EstablishedIs
<1>10. Held(p, i)' = Held(p, i) /\ Held(p, i) \in Int
  <2>1. loc[p].inode = None /\ loc[p].put = None /\ ~Replacing(p) /\ ~Replacing(p)'
    BY <1>6, NoLocIs DEF At, Replacing
  <2>. QED
    BY <1>6, <2>1, NoLocIs, OpenFilesAssumption DEF Held
<1>11. CASE i = j
  <2>1. FilesOf(i)' = (FilesOf(i) \union {f}) \union {g}
    BY <1>5, <1>8, <1>9, <1>11 DEF FilesOf, Established
  <2>2. f \notin FilesOf(i) /\ g \notin FilesOf(i) \union {f} /\ IsFiniteSet(FilesOf(i))
    <3>1. IsFiniteSet(FilesOf(i))
      BY FilesOfFinite, FS_Subset
    <3>. QED
      BY <1>1, <1>8, <3>1 DEF FilesOf
  <2>3. Cardinality(FilesOf(i)') = Cardinality(FilesOf(i)) + 1 + 1
    <3>. HIDE DEF FilesOf
    <3>1. /\ IsFiniteSet(FilesOf(i) \union {f})
          /\ Cardinality(FilesOf(i) \union {f}) = Cardinality(FilesOf(i)) + 1
      BY <2>2, CardAdd
    <3>. QED
      BY <2>1, <2>2, <3>1, CardAdd
  <2>4. Cardinality(FilesOf(i)) \in Int
    BY FilesOfFinite
  <2>5. i_count'[i] = i_count[i] + Cardinality(FilesOf(i)') - Cardinality(FilesOf(i))
                                 + Held(p, i)' - Held(p, i)
    BY <1>4, <1>10, <1>11, <2>3, <2>4
  <2>. QED
    BY <2>5, BeforeIs, HeldMove
<1>12. CASE i # j
  <2>1. FilesOf(i)' = FilesOf(i)
    BY <1>5, <1>8, <1>9, <1>12 DEF FilesOf, Established
  <2>2. i_count'[i] = i_count[i] + Held(p, i)' - Held(p, i)
    BY <1>4, <1>10, <1>12
  <2>. QED
    BY <2>1, <2>2, Quiet
<1>. QED
  BY <1>11, <1>12

(* A descriptor more for a file.                                           *)
LEMMA DupInodes ==
    ASSUME NEW p \in Procs, Before(p), NEW i \in Inodes, Balanced(i), Dup(p) \/ Dup2Done(p),
           UNCHANGED executable
    PROVE  Balanced(i)'
<1>. /\ At(pc[p], loc[p]) /\ UNCHANGED <<f_inode, i_count>> /\ pc[p] \in {"idle", "dupfd"}
     /\ At(pc'[p], loc'[p]) /\ pc'[p] = "idle"
     /\ f_count \in [Files -> Int] /\ filp \in Tables /\ Match(filp, f_count)
  BY BeforeIs, FilesOKIs DEF Control, FileTypeOK, Dup, Dup2Done, Done, Goto, May
<1>1. PICK fd, arg \in Fds : dupfd(p, fd, arg)
  BY BeforeIs DEF Dup, Dup2Done, Open, Locals
<1>2. \A g \in Files : f_count'[g] > 0 <=> f_count[g] > 0
  <2>1. CASE fd \in Open(p) /\ f_count' = [f_count EXCEPT ![filp[p][fd]] = f_count[filp[p][fd]] + 1]
    <3>1. filp[p][fd] \in Files /\ f_count[filp[p][fd]] >= 1
      BY <2>1, Counted DEF Open
    <3>. QED
      BY <2>1, <3>1
  <2>2. CASE f_count' = f_count
    BY <2>2
  <2>. QED
    BY <1>1, <2>1, <2>2 DEF dupfd
<1>3. \A g \in Files : ~Here(p, g) /\ ~Here(p, g)'
  BY NotHere
<1>4. FilesOf(i)' = FilesOf(i)
  BY <1>2, <1>3, BeforeIs, FilesOfSame
<1>5. /\ loc[p].inode = None /\ loc[p].put = None /\ ~Replacing(p)
      /\ loc'[p].inode = None /\ loc'[p].put = None /\ ~Replacing(p)'
  BY NoLocIs DEF At, Replacing
<1>6. Held(p, i)' = Held(p, i)
  BY <1>5, OpenFilesAssumption DEF Held
<1>7. i_count'[i] = i_count[i] + Held(p, i)' - Held(p, i)
  <2>1. i_count[i] \in Int
    BY BeforeIs DEF InodeTypeOK
  <2>. QED
    BY <1>6, <2>1 DEF Held
<1>. QED
  BY <1>4, <1>7, Quiet

(* The other steps move an inode between what the process holds.           *)
LEMMA HeldOnly ==
    ASSUME NEW p \in Procs, Before(p), NEW i \in Inodes, Balanced(i), UNCHANGED files,
           loc'[p].f = loc[p].f,
           i_count'[i] = i_count[i] + Held(p, i)' - Held(p, i)
    PROVE  Balanced(i)'
<1>1. \A g \in Files : Here(p, g)' <=> Here(p, g)
  BY DEF Here, Taken
<1>2. FilesOf(i)' = FilesOf(i)
  BY <1>1, BeforeIs, FilesOfSame DEF files
<1>. QED
  BY <1>2, Quiet

LEMMA MoveInodes ==
    ASSUME NEW p \in Procs, Before(p), NEW i \in Inodes, Balanced(i),
           \/ UNCHANGED executable /\ (open_namei(p) \/ iput(p) \/ sys_fcntl(p))
           \/ ExecStep(p) /\ ~CloseOnExec(p)
    PROVE  Balanced(i)'
<1>. USE DEF files, descriptors, execVars
<1>. /\ At(pc[p], loc[p]) /\ At(pc'[p], loc'[p]) /\ loc[p] \in Locals
     /\ pc \in [Procs -> Labels] /\ loc \in [Procs -> Locals] /\ i_count \in [Inodes -> Int]
     /\ executable \in [Procs -> Inodes \union {None}] /\ None \notin Inodes /\ i # None
  BY BeforeIs, OpenFilesAssumption DEF Control, InodeTypeOK
<1>. \A label : Goto(p, label) => pc'[p] = label
  BY DEF Goto
<1>1. CASE UNCHANGED executable /\ sys_fcntl(p)
  <2>1. UNCHANGED <<files, i_count, pc, loc, executable>>
    BY <1>1 DEF sys_fcntl
  <2>2. i_count'[i] = i_count[i] + Held(p, i)' - Held(p, i)
    BY <2>1 DEF Held, Replacing
  <2>. QED
    BY <2>1, <2>2, HeldOnly
<1>2. ASSUME NEW j \in Inodes, i_count' = [i_count EXCEPT ![j] = i_count[j] + 1],
             loc' = [loc EXCEPT ![p].inode = j], UNCHANGED <<files, executable>>,
             pc[p] \in {"idle", "open_namei", "namei"}, pc'[p] # "replace"
      PROVE  Balanced(i)'
  <2>1. /\ loc[p].inode = None /\ loc[p].put = None /\ ~Replacing(p)
    BY <1>2, NoLocIs DEF At, Replacing
  <2>2. /\ loc'[p].inode = j /\ loc'[p].put = None /\ ~Replacing(p)' /\ loc'[p].f = loc[p].f
    BY <1>2, <2>1 DEF Locals, Replacing
  <2>3. Held(p, i)' = Held(p, i) + (IF j = i THEN 1 ELSE 0) /\ Held(p, i) \in Int
    BY <1>2, <2>1, <2>2 DEF Held
  <2>4. i_count'[i] = i_count[i] + (IF j = i THEN 1 ELSE 0) /\ i_count[i] \in Int
    BY <1>2
  <2>5. i_count'[i] = i_count[i] + Held(p, i)' - Held(p, i)
    BY <2>3, <2>4
  <2>. QED
    BY <1>2, <2>2, <2>5, HeldOnly
<1>3. CASE UNCHANGED executable /\ open_namei(p)
  BY <1>2, <1>3 DEF open_namei
<1>4. CASE do_execve(p)
  BY <1>2, <1>4 DEF do_execve, May
<1>5. CASE UNCHANGED executable /\ iput(p)
  <2>1. /\ i_count' = [i_count EXCEPT ![loc[p].put] = i_count[loc[p].put] - 1]
        /\ UNCHANGED <<files, executable>> /\ pc[p] = "iput"
    BY <1>5 DEF iput
  <2>2. /\ loc'[p].put = None /\ loc'[p].f = <<>> /\ loc[p].f = <<>>
        /\ loc'[p].inode = loc[p].inode
        /\ Replacing(p)' <=> Replacing(p)
    <3>1. CASE loc[p].then = "idle"
      BY <1>5, <3>1, NoLocIs DEF At, iput, Done, Goto, Replacing
    <3>2. CASE loc[p].then # "idle"
      <4>1. /\ loc'[p] = [loc[p] EXCEPT !.put = None, !.then = "idle"] /\ pc'[p] = loc[p].then
        BY <1>5, <3>2 DEF iput
      <4>. QED
        BY <2>1, <4>1 DEF At, Replacing, Locals
    <3>. QED
      BY <3>1, <3>2
  <2>3. Held(p, i) = Held(p, i)' + (IF loc[p].put = i THEN 1 ELSE 0) /\ Held(p, i) \in Int
    BY <2>1, <2>2 DEF Held
  <2>4. i_count'[i] = i_count[i] - (IF loc[p].put = i THEN 1 ELSE 0) /\ i_count[i] \in Int
    BY <2>1
  <2>5. Held(p, i)' \in Int
    BY DEF Held
  <2>6. i_count'[i] = i_count[i] + Held(p, i)' - Held(p, i)
    BY <2>3, <2>4, <2>5
  <2>. QED
    BY <2>1, <2>2, <2>6, HeldOnly
<1>6. ASSUME UNCHANGED <<files, i_count>>, Held(p, i)' = Held(p, i), loc'[p].f = loc[p].f
      PROVE  Balanced(i)'
  <2>1. i_count'[i] = i_count[i] + Held(p, i)' - Held(p, i)
    BY <1>6 DEF Held
  <2>. QED
    BY <1>6, <2>1, HeldOnly
<1>7. ASSUME NEW then, NEW l \in Locals, Put(p, loc[p].inode, then, l), pc[p] = "bread",
             then # "replace", l.inode = None, l.f = loc[p].f, UNCHANGED <<files, i_count, executable>>
      PROVE  Balanced(i)'
  <2>1. /\ loc'[p].put = loc[p].inode /\ loc'[p].inode = None /\ loc'[p].then = then
        /\ pc'[p] = "iput" /\ loc'[p].f = loc[p].f
    BY <1>7 DEF Put, Locals
  <2>2. loc[p].put = None /\ ~Replacing(p) /\ ~Replacing(p)'
    BY <1>7, <2>1 DEF At, Replacing
  <2>. QED
    BY <1>6, <1>7, <2>1, <2>2 DEF Held
<1>8. ASSUME exec_error2(p), pc[p] = "bread", UNCHANGED <<files, i_count, executable>>
      PROVE  Balanced(i)'
  <2>. DEFINE m == [loc[p] EXCEPT !.inode = None]
  <2>1. m \in Locals /\ m.inode = None /\ m.f = loc[p].f
    BY DEF Locals
  <2>2. Put(p, loc[p].inode, "exec_error1", m)
    BY <1>8 DEF exec_error2
  <2>. HIDE DEF m
  <2>. QED
    BY <1>7, <1>8, <2>1, <2>2
<1>9. CASE NotExecutable(p)
  BY <1>8, <1>9 DEF NotExecutable
<1>10. CASE Script(p)
  <2>. DEFINE m == [loc[p] EXCEPT !.inode = None, !.sh_bang = TRUE]
  <2>1. m \in Locals /\ m.inode = None /\ m.f = loc[p].f
    BY DEF Locals
  <2>2. Put(p, loc[p].inode, "sh_bang", m) /\ pc[p] = "bread" /\ UNCHANGED <<files, i_count, executable>>
    BY <1>10 DEF Script
  <2>. HIDE DEF m
  <2>. QED
    BY <1>7, <2>1, <2>2
<1>11. ASSUME UNCHANGED <<files, i_count, loc, executable>>, pc[p] # "replace", pc'[p] # "replace"
       PROVE  Balanced(i)'
  <2>1. Held(p, i)' = Held(p, i)
    BY <1>11 DEF Held, Replacing
  <2>. QED
    BY <1>6, <1>11, <2>1
<1>12. CASE BadScript(p) \/ ScriptStrings(p)
  BY <1>11, <1>12 DEF BadScript, ScriptStrings, copy_strings
<1>13. CASE Interpreter(p)
  BY <1>2, <1>11, <1>13 DEF Interpreter
<1>14. ASSUME Replace(p), pc[p] = "bread", UNCHANGED <<files, i_count, executable>>
       PROVE  Balanced(i)'
  <2>1. ~Replacing(p) /\ loc[p].put = None
    BY <1>14 DEF At, Replacing
  <2>2. CASE executable[p] = None
    <3>1. loc' = loc
      BY <1>14, <2>2 DEF Replace
    <3>. QED
      BY <1>6, <1>14, <2>1, <2>2, <3>1 DEF Held
  <2>3. CASE executable[p] # None
    <3>1. /\ loc'[p].put = executable[p] /\ loc'[p].inode = loc[p].inode /\ loc'[p].then = "replace"
          /\ loc'[p].f = loc[p].f
      BY ZenonT(60), <1>14, <2>3 DEF Replace, Put, Locals
    <3>. QED
      BY <1>6, <1>14, <2>1, <3>1 DEF Held, Replacing
  <2>. QED
    BY <2>2, <2>3
<1>15. CASE Program(p)
  BY <1>8, <1>14, <1>15 DEF Program, copy_strings
<1>16. CASE Replaced(p)
  <2>1. /\ pc[p] = "replace" /\ pc'[p] = "closing" /\ executable'[p] = loc[p].inode
        /\ loc'[p] = [loc[p] EXCEPT !.inode = None] /\ UNCHANGED <<files, i_count>>
    BY <1>16 DEF Replaced
  <2>2. /\ Replacing(p) /\ ~Replacing(p)' /\ loc[p].put = None /\ loc'[p].put = None
        /\ loc'[p].inode = None /\ loc'[p].f = loc[p].f
    BY <2>1 DEF At, Replacing, Locals
  <2>. QED
    BY <1>6, <2>1, <2>2 DEF Held
<1>17. CASE Start(p) \/ exec_error1(p)
  <2>1. /\ pc[p] \in {"closing", "exec_error1"} /\ pc'[p] = "idle" /\ loc'[p] = NoLoc
        /\ UNCHANGED <<files, i_count, executable>>
    BY <1>17 DEF Start, exec_error1, Done
  <2>2. /\ ~Replacing(p) /\ ~Replacing(p)' /\ loc[p].put = None /\ loc'[p].put = None
        /\ loc[p].inode = None /\ loc'[p].inode = None /\ loc'[p].f = loc[p].f
    BY <2>1, NoLocIs DEF At, Replacing
  <2>. QED
    BY <1>6, <2>1, <2>2 DEF Held
<1>. QED
  BY <1>1, <1>3, <1>4, <1>5, <1>9, <1>10, <1>12, <1>13, <1>15, <1>16, <1>17 DEF ExecStep

LEMMA InodeTypes ==
    ASSUME FileTypeOK, InodeTypeOK, Control', NEW p \in Procs, Step(p)
    PROVE  /\ InodeTypeOK'
           /\ \A q \in Procs \ {p} : executable'[q] = executable[q]
<1>. USE DEF files, execVars
<1>. /\ f_inode \in [Files -> Inodes \union {None}] /\ i_count \in [Inodes -> Int]
     /\ executable \in [Procs -> Inodes \union {None}]
     /\ loc \in [Procs -> Locals] /\ loc[p].inode \in Inodes \union {None}
  BY DEF InodeTypeOK, Locals
<1>1. f_inode' \in [Files -> Inodes \union {None}]
  <2>1. CASE Opened(p)
    BY <2>1 DEF Opened
  <2>2. CASE PipeMade(p)
    BY <2>2 DEF PipeMade
  <2>3. CASE UNCHANGED f_inode
    BY <2>3
  <2>4. CASE OpenStep(p) /\ ~Opened(p) /\ ~PipeMade(p)
    BY ZenonT(60), <2>3, <2>4 DEF OpenStep, sys_open, OpenFails, open_namei, sys_close, iput, Dup, sys_dup2,
                      Dup2Done, sys_fcntl, sys_pipe, PipeFails
  <2>5. CASE ExecStep(p)
    BY <2>3, <2>5 DEF ExecStep, do_execve, NotExecutable, Script, BadScript, ScriptStrings,
                      Interpreter, Program, Replaced, CloseOnExec, Start, exec_error1
  <2>. QED
    BY <2>1, <2>2, <2>4, <2>5 DEF Step
<1>2. i_count' \in [Inodes -> Int]
  <2>2. CASE open_namei(p) \/ do_execve(p) \/ Interpreter(p) \/ PipeMade(p)
    BY <2>2 DEF open_namei, do_execve, Interpreter, PipeMade
  <2>3. CASE iput(p)
    <3>1. i_count' = [i_count EXCEPT ![loc[p].put] = i_count[loc[p].put] - 1]
      BY <2>3 DEF iput
    <3>2. CASE loc[p].put \in Inodes
      BY <3>1, <3>2
    <3>3. CASE loc[p].put \notin Inodes
      <4>1. i_count' = i_count
        BY <3>1, <3>3
      <4>. QED
        BY <4>1
    <3>. QED
      BY <3>2, <3>3
  <2>4. CASE OpenStep(p) /\ ~open_namei(p) /\ ~PipeMade(p) /\ ~iput(p)
    BY ZenonT(60), <2>4 DEF OpenStep, sys_open, OpenFails, Opened, sys_close, Dup, sys_dup2,
                Dup2Done, sys_fcntl, sys_pipe, PipeFails
  <2>5. CASE ExecStep(p) /\ ~do_execve(p) /\ ~Interpreter(p)
    BY <2>5 DEF ExecStep, NotExecutable, Script, BadScript, ScriptStrings, Program, Replaced,
                CloseOnExec, Start, exec_error1
  <2>. QED
    BY <2>2, <2>3, <2>4, <2>5 DEF Step
<1>3. \/ UNCHANGED executable
      \/ executable' = [executable EXCEPT ![p] = loc[p].inode]
  BY DEF Step, ExecStep, do_execve, NotExecutable, Script, BadScript, ScriptStrings,
         Interpreter, Program, Replaced, CloseOnExec, Start, exec_error1
<1>4. /\ executable' \in [Procs -> Inodes \union {None}]
      /\ \A q \in Procs \ {p} : executable'[q] = executable[q]
  BY <1>3
<1>. QED
  BY <1>1, <1>2, <1>4 DEF InodeTypeOK, Control

LEMMA InodesStep ==
    ASSUME TakenOK, Control', InodesMatch, NEW p \in Procs, Step(p)
    PROVE  InodesMatch'
<1>1. Before(p)
  BY OpenFrame, ExecFrame, InodeTypes DEF Step, Before, TakenOK, FilesOK, Control
<1>. /\ At(pc[p], loc[p]) /\ loc[p] \in Locals /\ FileTypeOK
  BY <1>1, BeforeIs
<1>2. ASSUME NEW i \in Inodes PROVE Balanced(i)'
  <2>1. Balanced(i)
    BY DEF InodesMatch, Balanced, FilesOf
  <2>2. CASE OpenStep(p) /\ UNCHANGED execVars
    <3>. UNCHANGED executable
      BY <2>2 DEF execVars
    <3>1. CASE sys_close(p)
      BY <1>1, <2>1, <3>1, NoLocIs, CloseInodes DEF sys_close, May, Open, Afterwards
    <3>2. CASE sys_dup2(p)
      <4>1. PICK oldfd \in Fds, newfd \in Fds :
                 Close(p, newfd, "dupfd", [NoLoc EXCEPT !.fd = oldfd, !.arg = newfd])
        BY ZenonT(60), <3>2 DEF sys_dup2, Open
      <4>. DEFINE m == [NoLoc EXCEPT !.fd = oldfd, !.arg = newfd]
      <4>2. m \in Locals /\ m.f = <<>> /\ m.inode = None /\ m.put = None /\ m.then = "idle"
        BY NoLocIs DEF Locals, NoLoc
      <4>3. Close(p, newfd, "dupfd", m)
        BY <4>1
      <4>. HIDE DEF m
      <4>4. At("dupfd", m)
        BY <4>2 DEF At
      <4>. QED
        BY <1>1, <2>1, <3>2, <4>2, <4>3, <4>4, CloseInodes DEF sys_dup2, May, Afterwards
    <3>3. CASE sys_open(p) \/ sys_pipe(p)
      BY <1>1, <2>1, <3>3, TakeInodes
    <3>4. CASE OpenFails(p) \/ PipeFails(p)
      BY <1>1, <2>1, <3>4, GiveBackInodes
    <3>5. CASE Opened(p)
      BY <1>1, <2>1, <3>5, OpenedInodes
    <3>6. CASE PipeMade(p)
      BY <1>1, <2>1, <3>6, PipeMadeInodes
    <3>7. CASE Dup(p) \/ Dup2Done(p)
      BY <1>1, <2>1, <3>7, DupInodes
    <3>8. CASE open_namei(p) \/ iput(p) \/ sys_fcntl(p)
      BY <1>1, <2>1, <3>8, MoveInodes
    <3>. QED
      BY <2>2, <3>1, <3>2, <3>3, <3>4, <3>5, <3>6, <3>7, <3>8 DEF OpenStep
  <2>3. CASE CloseOnExec(p)
    <3>1. close_on_exec[p] # {} /\ close_on_exec[p] \subseteq Fds
      BY <2>3 DEF CloseOnExec, FileTypeOK
    <3>2. Min(close_on_exec[p]) \in Fds
      BY <3>1, FilesAndFds, MinNat
    <3>3. At("closing", loc[p]) /\ loc[p].inode = None /\ pc[p] = "closing"
      BY <2>3 DEF CloseOnExec, At
    <3>4. /\ Close(p, Min(close_on_exec[p]), "closing", loc[p])
          /\ UNCHANGED <<f_inode, i_count, executable>>
      BY <2>3 DEF CloseOnExec, execVars
    <3>. QED
      BY <1>1, <2>1, <3>2, <3>3, <3>4, CloseInodes DEF Afterwards
  <2>4. CASE ExecStep(p) /\ ~CloseOnExec(p)
    BY <1>1, <2>1, <2>4, MoveInodes
  <2>. QED
    BY <2>2, <2>3, <2>4 DEF Step
<1>. QED
  BY <1>2 DEF InodesMatch, Balanced, FilesOf

-----------------------------------------------------------------------------
(***************************************************************************)
(* The theorems.                                                           *)
(***************************************************************************)
LEMMA InitIInv ==
    ASSUME Init
    PROVE  IInv
<1>. USE DEF Init, OpenInit
<1>0. 0 \notin Files /\ IsFiniteSet({}) /\ Cardinality({}) = 0
  BY FilesAndFds, FS_EmptySet
<1>1. TypeOK /\ ControlInv
  BY NoLocIs DEF TypeOK, FileTypeOK, InodeTypeOK, PageTypeOK, ControlInv, Labels
<1>2. \A p \in Procs : Taken(p) = {}
  BY NoLocIs, TakenNone
<1>3. FilesMatch
  <2>1. \A f \in Files : {d \in Procs \X Fds : filp[d[1]][d[2]] = f} = {}
    BY <1>0
  <2>. QED
    BY <1>0, <2>1 DEF FilesMatch
<1>4. InodesMatch
  <2>1. Established = {}
    BY DEF Established
  <2>2. ASSUME NEW i \in Inodes
        PROVE  /\ {f \in Established : f_inode[f] = i} = {}
               /\ {p \in Procs : loc[p].inode = i} = {}
               /\ {p \in Procs : loc[p].put = i} = {}
               /\ {p \in Procs : executable[p] = i /\ ~Replacing(p)} = {}
    BY <2>1, NoLocIs, OpenFilesAssumption
  <2>3. ASSUME NEW i \in Inodes PROVE Balanced(i)
    <3>1. i_count[i] = 0 /\ 0 = 0 + 0 + 0 + 0
      OBVIOUS
    <3>. QED
      BY <1>0, <2>2, <3>1 DEF Balanced, FilesOf
  <2>. QED
    BY <2>3 DEF InodesMatch, Balanced, FilesOf
<1>5. PagesMatch
  <2>1. \A g \in Pages : {p \in Procs : g \in page[p]} = {} /\ {p \in Procs : g \in space[p]} = {}
    OBVIOUS
  <2>2. ASSUME NEW g \in Pages PROVE mem_map[g] = 0 /\ 0 = 0 + 0
    OBVIOUS
  <2>3. ASSUME NEW g \in Pages
        PROVE  mem_map[g] = Cardinality({p \in Procs : g \in page[p]})
                            + Cardinality({p \in Procs : g \in space[p]})
    BY <1>0, <2>1, <2>2
  <2>. QED
    BY <2>3 DEF PagesMatch
<1>. QED
  BY <1>1, <1>2, <1>3, <1>4, <1>5 DEF IInv, TakenInv, UnflaggedInv, CloexecOpen

LEMMA IInvStep ==
    ASSUME IInv, [Next]_vars
    PROVE  IInv'
<1>. USE DEF IInv, TypeOK
<1>1. CASE UNCHANGED vars
  <2>. /\ UNCHANGED <<f_count, f_inode, filp, close_on_exec, i_count, pc, loc>>
       /\ UNCHANGED <<executable, page, space, mem_map>>
    BY <1>1 DEF vars, openVars, execVars, files, descriptors
  <2>1. (FileTypeOK /\ InodeTypeOK /\ PageTypeOK /\ ControlInv)'
    BY DEF FileTypeOK, InodeTypeOK, PageTypeOK, ControlInv
  <2>2. (TakenInv /\ UnflaggedInv)'
    BY DEF TakenInv, UnflaggedInv, Taken
  <2>3. (FilesMatch /\ CloexecOpen)'
    BY DEF FilesMatch, CloexecOpen, Open
  <2>4. InodesMatch'
    <3>1. Established' = Established /\ \A p \in Procs : Replacing(p)' <=> Replacing(p)
      BY DEF Established, Pending, Replacing
    <3>. QED
      BY <3>1 DEF InodesMatch
  <2>5. PagesMatch'
    BY DEF PagesMatch
  <2>. QED
    BY <2>1, <2>2, <2>3, <2>4, <2>5
<1>2. ASSUME NEW p \in Procs, Step(p)
      PROVE  IInv'
  <2>1. FilesOK /\ Control /\ TakenOK /\ PagesOK
    BY DEF FilesOK, Control, TakenOK, PagesOK, InodeTypeOK
  <2>2. FilesOK'
    BY <2>1, FilesStep DEF Control
  <2>3. Control'
    BY <1>2, <2>1, OpenControl, ExecControl DEF Step
  <2>4. InodeTypeOK'
    BY <1>2, <2>3, InodeTypes
  <2>5. TakenInv' /\ UnflaggedInv'
    BY <1>2, <2>1, <2>3, TakenStep
  <2>6. CloexecOpen'
    BY <1>2, <2>1, CloexecStep
  <2>7. InodesMatch'
    BY <1>2, <2>1, <2>3, InodesStep
  <2>8. PagesOK'
    BY <1>2, <2>1, PagesStep
  <2>. QED
    BY <2>2, <2>3, <2>4, <2>5, <2>6, <2>7, <2>8 DEF FilesOK, Control, PagesOK
<1>. QED
  BY <1>1, <1>2 DEF Next, Step

(* The inductive invariant holds in every reachable state.                 *)
THEOREM IInvCorrect == Spec => []IInv
BY InitIInv, IInvStep, PTL DEF Spec

(* A file counts the descriptors that refer to it, those of opens and      *)
(* pipes under way included: sys_close never meets a count of 0.           *)
(* (sys_open, sys_close, dupfd, sys_pipe and their exits)                  *)
THEOREM FilesCorrect == Spec => []FilesMatch
<1>1. IInv => FilesMatch
  BY DEF IInv
<1>. QED
  BY <1>1, IInvCorrect, PTL

(* Only an open descriptor has its close_on_exec flag, although sys_pipe   *)
(* does not clear the flags of those it takes.  (sys_fcntl, sys_close)     *)
THEOREM CloexecCorrect == Spec => []CloexecOpen
<1>1. IInv => CloexecOpen
  BY DEF IInv
<1>. QED
  BY <1>1, IInvCorrect, PTL

(* An inode counts the established files, the programs and the calls that  *)
(* have it: every way out of every call puts back what it took, once.      *)
(* (sys_open, sys_close, sys_pipe, do_execve)                              *)
THEOREM InodesCorrect == Spec => []InodesMatch
<1>1. IInv => InodesMatch
  BY DEF IInv
<1>. QED
  BY <1>1, IInvCorrect, PTL

(* A page is in use once for each array of strings or address space it is  *)
(* in, whatever way do_execve ends.  (copy_strings, exec_error1)           *)
THEOREM PagesCorrect == Spec => []PagesMatch
<1>1. IInv => PagesMatch
  BY DEF IInv
<1>. QED
  BY <1>1, IInvCorrect, PTL
=============================================================================
