------------------------- MODULE BufferQueuesProofs -------------------------
(***************************************************************************)
(* The queues of fs/buffer.c stay in order for any number of buffers and   *)
(* chains and any hash function, and implement the list of BufferLists.    *)
(*                                                                         *)
(* The order is a ranking of the buffers, their places on the ring; the    *)
(* chains are in reverse order of it.  Take gives the buffer it moves the  *)
(* last place and moves those behind it up by one, which keeps the order   *)
(* of every two others: that is all the chains depend on.                  *)
(***************************************************************************)
EXTENDS BufferQueues, FiniteSetsExt, FiniteSetTheorems, WellFoundedInduction, TLAPS

(***************************************************************************)
(* Lemmas about sets.                                                      *)
(***************************************************************************)
(* A set of natural numbers that is not empty has a least element.         *)
LEMMA MinNat ==
    ASSUME NEW S, S \subseteq Nat, S # {}
    PROVE  Min(S) \in S /\ \A y \in S : Min(S) =< y
<1>. DEFINE R == OpToRel(<, Nat)
<1>1. IsWellFoundedOn(R, Nat)
  BY NatLessThanWellFounded
<1>. HIDE DEF R
<1>2. PICK x \in S : \A y \in S : ~ (<<y, x>> \in R)
  BY <1>1, WFMin
<1>3. \A y \in S : ~ (y < x)
  BY <1>2 DEF R, OpToRel
<1>4. \A y \in S : x =< y
  BY <1>3
<1>. QED
  BY <1>4 DEF Min

(* The ranking after bh has gone to the end of the ring. *)
Moved(rank, bh) ==
  [b \in Buffers |-> IF b = bh THEN NR_BUFFERS
                     ELSE IF rank[b] > rank[bh] THEN rank[b] - 1 ELSE rank[b]]

(* The moved ranking is one, puts bh last and keeps the others' order. *)
LEMMA MovedRanking ==
  ASSUME NEW rank \in Rankings, NEW bh \in Buffers
  PROVE  /\ Moved(rank, bh) \in Rankings
         /\ \A b \in Buffers : Moved(rank, bh)[b] <= Moved(rank, bh)[bh]
         /\ \A b, c \in Buffers \ {bh} :
              (Moved(rank, bh)[b] < Moved(rank, bh)[c]) <=> (rank[b] < rank[c])
<1> DEFINE new == Moved(rank, bh)
<1>1. NR_BUFFERS \in Nat /\ NR_BUFFERS >= 1
  BY ConstantsAssumption
<1>2. rank \in [Buffers -> Buffers] /\ \A b, c \in Buffers : rank[b] = rank[c] => b = c
  BY DEF Rankings
<1>3. \A b \in Buffers : rank[b] \in 1..NR_BUFFERS
  BY <1>2 DEF Buffers
<1>4. /\ new[bh] = NR_BUFFERS
      /\ \A b \in Buffers \ {bh} :
           new[b] = IF rank[b] > rank[bh] THEN rank[b] - 1 ELSE rank[b]
  BY DEF Moved
<1>5. \A b \in Buffers \ {bh} : rank[b] # rank[bh]
  BY <1>2
<1>6. \A b \in Buffers \ {bh} : new[b] \in 1..(NR_BUFFERS - 1)
  BY <1>1, <1>3, <1>4, <1>5
<1>7. new \in [Buffers -> Buffers]
  <2>1. \A b \in Buffers : new[b] \in Buffers
    BY <1>1, <1>4, <1>6 DEF Buffers
  <2> QED  BY <2>1 DEF Moved
<1>8. \A b, c \in Buffers \ {bh} : (new[b] < new[c]) <=> (rank[b] < rank[c])
  BY <1>1, <1>3, <1>4, <1>5
<1>9. \A b, c \in Buffers : new[b] = new[c] => b = c
  <2> SUFFICES ASSUME NEW b \in Buffers, NEW c \in Buffers, new[b] = new[c]
               PROVE  b = c
    OBVIOUS
  <2>1. CASE b = bh \/ c = bh
    BY <2>1, <1>1, <1>4, <1>6
  <2>2. CASE b # bh /\ c # bh
    <3>1. rank[b] = rank[c]
      BY <2>2, <1>3, <1>6, <1>8
    <3> QED  BY <3>1, <1>2
  <2> QED  BY <2>1, <2>2
<1>10. \A b \in Buffers : new[b] <= new[bh]
  BY <1>1, <1>4, <1>6
<1> QED  BY <1>7, <1>8, <1>9, <1>10 DEF Rankings

-----------------------------------------------------------------------------
(* Types.                                                                  *)

LEMMA TypeStep ==
  ASSUME TypeOK, NEW bh \in Buffers, NEW k \in Blocks, Take(bh, k)
  PROVE  TypeOK'
<1> DEFINE loose == Unchain(bh, b_next, b_prev, hash_table)
           gap == Unring(bh, b_next_free, b_prev_free, free_list)
<1>1. Hash[k] \in 0..(NR_HASH - 1)
  BY ConstantsAssumption
<1>2. /\ loose.next \in [Buffers -> Pointers] /\ loose.prev \in [Pointers -> Pointers]
      /\ loose.table \in [0..(NR_HASH - 1) -> Pointers]
  BY DEF TypeOK, Unchain, Pointers
<1>3. b_ident' \in [Buffers -> Blocks \cup {NoBlock}]
  BY DEF TypeOK, Take
<1>4. /\ b_next' \in [Buffers -> Pointers] /\ b_prev' \in [Pointers -> Pointers]
      /\ hash_table' \in [0..(NR_HASH - 1) -> Pointers]
  BY <1>1, <1>2 DEF Take, Chain, Pointers
<1>5. /\ gap.next \in [Buffers -> Buffers] /\ gap.prev \in [Buffers -> Buffers]
      /\ gap.list \in Buffers
  BY DEF TypeOK, Unring
<1>6. /\ b_next_free' \in [Buffers -> Buffers] /\ b_prev_free' \in [Buffers -> Buffers]
      /\ free_list' \in Buffers
  BY <1>5 DEF Take, Ring
<1> QED  BY <1>3, <1>4, <1>6 DEF TypeOK

-----------------------------------------------------------------------------
(* The ring.                                                               *)

LEMMA RingStep ==
  ASSUME TypeOK, NEW rank \in Rankings, RingFollows(rank),
         NEW bh \in Buffers, NEW k \in Blocks, Take(bh, k)
  PROVE  RingFollows(Moved(rank, bh))'
<1> DEFINE new == Moved(rank, bh)
           r == rank[bh]
           pv == b_prev_free[bh]
           nx == b_next_free[bh]
           gap == Unring(bh, b_next_free, b_prev_free, free_list)
           last == gap.prev[gap.list]
<1>1. NR_BUFFERS \in Nat /\ NR_BUFFERS >= 1
  BY ConstantsAssumption
<1>2. rank \in [Buffers -> Buffers] /\ \A b, c \in Buffers : rank[b] = rank[c] => b = c
  BY DEF Rankings
<1>3. \A b \in Buffers : rank[b] \in 1..NR_BUFFERS
  BY <1>2 DEF Buffers
<1>4. /\ b_next_free \in [Buffers -> Buffers] /\ b_prev_free \in [Buffers -> Buffers]
      /\ free_list \in Buffers
  BY DEF TypeOK
<1>5. /\ rank[free_list] = 1
      /\ \A b \in Buffers : /\ rank[b_next_free[b]] = After(rank[b])
                            /\ rank[b_prev_free[b]] = Before(rank[b])
  BY DEF RingFollows
<1>6. /\ new[bh] = NR_BUFFERS
      /\ \A b \in Buffers \ {bh} : new[b] = IF rank[b] > r THEN rank[b] - 1 ELSE rank[b]
  BY DEF Moved
<1>7. new \in [Buffers -> Buffers] /\ \A b, c \in Buffers : new[b] = new[c] => b = c
  BY MovedRanking DEF Rankings
<1>8. /\ \A b \in Buffers : gap.next[b] = IF b = pv THEN nx ELSE b_next_free[b]
      /\ \A b \in Buffers : gap.prev[b] = IF b = nx THEN pv ELSE b_prev_free[b]
      /\ gap.list = IF free_list = bh THEN nx ELSE free_list
      /\ gap.next \in [Buffers -> Buffers] /\ gap.prev \in [Buffers -> Buffers]
      /\ gap.list \in Buffers
  BY <1>4 DEF Unring
<1> HIDE DEF gap
<1>9. last = gap.prev[gap.list] /\ last \in Buffers
  BY <1>8
<1>10. /\ free_list' = gap.list
       /\ \A b \in Buffers : b_next_free'[b] = IF b = last THEN bh
                                               ELSE IF b = bh THEN gap.list ELSE gap.next[b]
       /\ \A b \in Buffers : b_prev_free'[b] = IF b = gap.list THEN bh
                                               ELSE IF b = bh THEN last ELSE gap.prev[b]
  BY <1>8, <1>9 DEF Take, Ring, gap
<1> HIDE DEF last, new
<1>11. CASE NR_BUFFERS = 1
  <2>1. Buffers = {1}
    BY <1>11 DEF Buffers
  <2>2. free_list' = 1 /\ b_next_free'[1] = 1 /\ b_prev_free'[1] = 1 /\ new[1] = 1
    BY <2>1, <1>7, <1>8, <1>9, <1>10
  <2> QED  BY <1>11, <2>1, <2>2 DEF RingFollows, After, Before, new
<1>12. CASE NR_BUFFERS > 1
  <2>1. /\ pv \in Buffers /\ nx \in Buffers /\ pv # bh /\ nx # bh
        /\ rank[pv] = Before(r) /\ rank[nx] = After(r)
    <3>1. pv \in Buffers /\ nx \in Buffers /\ rank[pv] = Before(r) /\ rank[nx] = After(r)
      BY <1>4, <1>5
    <3> QED  BY <3>1, <1>3, <1>12 DEF Before, After
  <2>2. gap.list # bh /\ new[gap.list] = 1
    <3>1. CASE free_list = bh
      BY <3>1, <2>1, <1>3, <1>5, <1>6, <1>8, <1>12 DEF After
    <3>2. CASE free_list # bh
      <4>1. gap.list = free_list /\ rank[free_list] = 1 /\ free_list \in Buffers \ {bh}
        BY <3>2, <1>4, <1>5, <1>8
      <4>2. r \in 1..NR_BUFFERS
        BY <1>3
      <4> QED  BY <4>1, <4>2, <1>6
    <3> QED  BY <3>1, <3>2
  <2>3. last # bh /\ new[last] = NR_BUFFERS - 1
    <3>1. CASE gap.list = nx
      <4>1. last = pv
        BY <3>1, <2>1, <1>8, <1>9
      <4>2. r = 1 \/ r = NR_BUFFERS
        <5>1. CASE free_list = bh
          BY <5>1, <1>5
        <5>2. CASE free_list # bh
          <6>1. After(r) = 1
            BY <5>2, <3>1, <2>1, <1>5, <1>8
          <6> QED  BY <6>1, <1>3 DEF After
        <5> QED  BY <5>1, <5>2
      <4> QED  BY <4>1, <4>2, <2>1, <1>3, <1>6, <1>12 DEF Before
    <3>2. CASE gap.list # nx
      <4>1. free_list # bh /\ gap.list = free_list /\ last = b_prev_free[free_list]
        BY <3>2, <1>4, <1>8, <1>9
      <4>2. rank[last] = NR_BUFFERS
        BY <4>1, <1>4, <1>5 DEF Before
      <4>3. r # NR_BUFFERS
        BY <3>2, <4>1, <2>1, <1>2, <1>4, <1>5 DEF After
      <4> QED  BY <4>2, <4>3, <1>3, <1>6, <1>9
    <3> QED  BY <3>1, <3>2
  <2>4. new[free_list'] = 1
    BY <2>2, <1>10
  <2>5. ASSUME NEW b \in Buffers  PROVE  new[b_next_free'[b]] = After(new[b])
    <3>1. CASE b = last
      BY <3>1, <2>3, <1>1, <1>6, <1>10, <1>12 DEF After
    <3>2. CASE b = bh
      BY <3>2, <2>2, <2>3, <1>6, <1>10 DEF After
    <3>3. CASE b # last /\ b # bh
      <4>1. b_next_free'[b] = gap.next[b] /\ new[b] # NR_BUFFERS - 1 /\ new[b] # NR_BUFFERS
        BY <3>3, <2>3, <1>6, <1>7, <1>9, <1>10
      <4>2. CASE b = pv
        <5>1. gap.next[b] = nx
          BY <4>2, <1>8
        <5>2. r # 1 /\ r # NR_BUFFERS
          BY <4>1, <4>2, <2>1, <1>3, <1>6, <1>12 DEF Before
        <5> QED  BY <4>1, <4>2, <5>1, <5>2, <2>1, <1>3, <1>6, <1>12 DEF Before, After
      <4>3. CASE b # pv
        <5>1. gap.next[b] = b_next_free[b] /\ b_next_free[b] \in Buffers
          BY <4>3, <1>4, <1>8
        <5>2. rank[b] # Before(r) /\ rank[b] # r
          BY <3>3, <4>3, <2>1, <1>2
        <5>3. rank[b_next_free[b]] = After(rank[b])
          BY <1>5
        <5>4. b_next_free[b] # bh
          BY <5>2, <5>3, <1>3, <1>12 DEF After, Before
        <5> QED  BY <3>3, <4>1, <5>1, <5>2, <5>3, <5>4, <1>3, <1>6, <1>12 DEF After, Before
      <4> QED  BY <4>2, <4>3
    <3> QED  BY <3>1, <3>2, <3>3
  <2>6. ASSUME NEW b \in Buffers  PROVE  new[b_prev_free'[b]] = Before(new[b])
    <3>1. CASE b = gap.list
      BY <3>1, <2>2, <1>6, <1>10 DEF Before
    <3>2. CASE b = bh
      BY <3>2, <2>2, <2>3, <1>6, <1>10, <1>12 DEF Before
    <3>3. CASE b # gap.list /\ b # bh
      <4>1. b_prev_free'[b] = gap.prev[b] /\ new[b] # 1 /\ new[b] # NR_BUFFERS
        BY <3>3, <2>2, <1>6, <1>7, <1>8, <1>10
      <4>2. CASE b = nx
        <5>1. gap.prev[b] = pv
          BY <4>2, <1>8
        <5>2. r # 1 /\ r # NR_BUFFERS
          BY <4>1, <4>2, <2>1, <1>3, <1>6, <1>12 DEF After
        <5> QED  BY <4>1, <4>2, <5>1, <5>2, <2>1, <1>3, <1>6, <1>12 DEF Before, After
      <4>3. CASE b # nx
        <5>1. gap.prev[b] = b_prev_free[b] /\ b_prev_free[b] \in Buffers
          BY <4>3, <1>4, <1>8
        <5>2. rank[b] # After(r) /\ rank[b] # r
          BY <3>3, <4>3, <2>1, <1>2
        <5>3. rank[b_prev_free[b]] = Before(rank[b])
          BY <1>5
        <5>4. b_prev_free[b] # bh
          BY <5>2, <5>3, <1>3, <1>12 DEF After, Before
        <5> QED  BY <3>3, <4>1, <5>1, <5>2, <5>3, <5>4, <1>3, <1>6, <1>12 DEF After, Before
      <4> QED  BY <4>2, <4>3
    <3> QED  BY <3>1, <3>2, <3>3
  <2>7. new' = new
    BY DEF new
  <2> QED  BY <2>4, <2>5, <2>6 DEF RingFollows, new
<1> QED  BY <1>1, <1>11, <1>12

-----------------------------------------------------------------------------
(* The chains.                                                             *)

(* Taking away a buffer the pointer does not point to changes nothing. *)
LEMMA Drop ==
  ASSUME NEW S, NEW rank, NEW ptr, NEW x, x # ptr
  PROVE  /\ ToLast(ptr, S, rank) => ToLast(ptr, S \ {x}, rank)
         /\ ToFirst(ptr, S, rank) => ToFirst(ptr, S \ {x}, rank)
BY DEF ToLast, ToFirst

(* Without its last buffer a set ends with the last one before that; and   *)
(* the other way round.                                                    *)
LEMMA DropEnd ==
  ASSUME NEW rank \in Rankings, NEW S \in SUBSET Buffers, NEW x \in S, NEW ptr
  PROVE  /\ ToLast(x, S, rank) /\ ToLast(ptr, {c \in S : rank[c] < rank[x]}, rank)
            => ToLast(ptr, S \ {x}, rank)
         /\ ToFirst(x, S, rank) /\ ToFirst(ptr, {c \in S : rank[x] < rank[c]}, rank)
            => ToFirst(ptr, S \ {x}, rank)
<1>1. /\ \A c \in S : rank[c] \in Int
      /\ \A b, c \in S : rank[b] = rank[c] => b = c
  BY DEF Rankings, Buffers
<1>2. ToLast(x, S, rank) => S \ {x} = {c \in S : rank[c] < rank[x]}
  BY <1>1 DEF ToLast
<1>3. ToFirst(x, S, rank) => S \ {x} = {c \in S : rank[x] < rank[c]}
  BY <1>1 DEF ToFirst
<1> QED  BY <1>2, <1>3

(* A ranking that keeps the order of a set keeps its first and last. *)
LEMMA Reranked ==
  ASSUME NEW rank \in Rankings, NEW new \in Rankings, NEW S \in SUBSET Buffers, NEW ptr,
         \A b, c \in S : (new[b] < new[c]) <=> (rank[b] < rank[c])
  PROVE  /\ ToLast(ptr, S, rank) => ToLast(ptr, S, new)
         /\ ToFirst(ptr, S, rank) => ToFirst(ptr, S, new)
<1>1. \A b \in S : rank[b] \in Int /\ new[b] \in Int
  BY DEF Rankings, Buffers
<1>2. \A b, c \in S : (rank[b] <= rank[c]) => (new[b] <= new[c])
  BY <1>1
<1> QED  BY <1>2 DEF ToLast, ToFirst

(* Within a chain b_next and b_prev are each other's inverse. *)
LEMMA ChainInverse ==
  ASSUME NEW rank \in Rankings, ChainsFollow(rank), NEW h \in 0..(NR_HASH - 1),
         NEW b \in OnChain(h), NEW c \in OnChain(h)
  PROVE  (b_next[b] = c) <=> (b_prev[c] = b)
<1> DEFINE C == OnChain(h)
           lower == {d \in C : rank[d] < rank[b]}
           higher == {d \in C : rank[c] < rank[d]}
<1>1. /\ \A d \in C : d \in Buffers /\ rank[d] \in Int /\ d # NULL
      /\ \A d, e \in C : rank[d] = rank[e] => d = e
  BY DEF Rankings, Buffers, OnChain, NULL
<1>2. ToLast(b_next[b], lower, rank) /\ ToFirst(b_prev[c], higher, rank)
  BY DEF ChainsFollow
<1>3. ASSUME b_next[b] = c  PROVE  b_prev[c] = b
  <2>1. c \in lower /\ \A d \in lower : rank[d] <= rank[c]
    BY <1>1, <1>2, <1>3 DEF ToLast
  <2>2. b \in higher
    BY <2>1
  <2>3. b_prev[c] \in higher /\ rank[b_prev[c]] <= rank[b]
    BY <1>2, <2>2 DEF ToFirst
  <2>4. ~(rank[b_prev[c]] < rank[b])
    BY <1>1, <2>1, <2>3
  <2> QED  BY <1>1, <2>3, <2>4
<1>4. ASSUME b_prev[c] = b  PROVE  b_next[b] = c
  <2>1. b \in higher /\ \A d \in higher : rank[b] <= rank[d]
    BY <1>1, <1>2, <1>4 DEF ToFirst
  <2>2. c \in lower
    BY <2>1
  <2>3. b_next[b] \in lower /\ rank[c] <= rank[b_next[b]]
    BY <1>2, <2>2 DEF ToLast
  <2>4. ~(rank[c] < rank[b_next[b]])
    BY <1>1, <2>1, <2>3
  <2> QED  BY <1>1, <2>3, <2>4
<1> QED  BY <1>3, <1>4

(* The chains without bh, between remove_from_queues and insert_into_queues. *)
Others(h, bh) == OnChain(h) \ {bh}

LEMMA Unchained ==
  ASSUME TypeOK, NEW rank \in Rankings, ChainsFollow(rank), NEW bh \in Buffers,
         NEW loose, loose = Unchain(bh, b_next, b_prev, hash_table)
  PROVE  /\ \A h \in 0..(NR_HASH - 1) :
              /\ ToLast(loose.table[h], Others(h, bh), rank)
              /\ \A b \in Others(h, bh) :
                   /\ ToLast(loose.next[b], {c \in Others(h, bh) : rank[c] < rank[b]}, rank)
                   /\ ToFirst(loose.prev[b], {c \in Others(h, bh) : rank[b] < rank[c]}, rank)
         /\ \A b \in Buffers \ {bh} :
              b_ident[b] = NoBlock => loose.next[b] = NULL /\ loose.prev[b] = NULL
<1>1. /\ loose.next = IF b_prev[bh] # NULL THEN [b_next EXCEPT ![b_prev[bh]] = b_next[bh]]
                      ELSE b_next
      /\ loose.prev = IF b_next[bh] # NULL THEN [b_prev EXCEPT ![b_next[bh]] = b_prev[bh]]
                      ELSE b_prev
      /\ loose.table = IF HeadsChain(bh, hash_table)
                       THEN [hash_table EXCEPT ![Hash[b_ident[bh]]] = b_next[bh]]
                       ELSE hash_table
  BY DEF Unchain
<1>2. /\ b_next \in [Buffers -> Pointers] /\ b_prev \in [Pointers -> Pointers]
      /\ hash_table \in [0..(NR_HASH - 1) -> Pointers]
      /\ b_ident \in [Buffers -> Blocks \cup {NoBlock}]
      /\ Hash \in [Blocks -> 0..(NR_HASH - 1)]
      /\ Buffers \subseteq Pointers /\ NULL \notin Buffers
  <2>1. NULL \notin Buffers
    BY DEF Buffers, NULL
  <2> QED  BY <2>1, ConstantsAssumption DEF TypeOK, Pointers
<1>3. \A b \in Buffers :
        loose.next[b] = IF b = b_prev[bh] THEN b_next[bh] ELSE b_next[b]
  BY <1>1, <1>2 DEF Pointers
<1>4. \A b \in Buffers :
        loose.prev[b] = IF b = b_next[bh] THEN b_prev[bh] ELSE b_prev[b]
  BY <1>1, <1>2 DEF Pointers
<1>5. \A h \in 0..(NR_HASH - 1) :
        loose.table[h] = IF bh \in OnChain(h) /\ hash_table[h] = bh
                         THEN b_next[bh] ELSE hash_table[h]
  BY <1>1, <1>2 DEF HeadsChain, OnChain
<1>6. \A h \in 0..(NR_HASH - 1) : OnChain(h) \in SUBSET Buffers
  BY DEF OnChain
<1>7. \A b, c \in Buffers : rank[b] = rank[c] => b = c
  BY DEF Rankings
(* Whatever points to bh, or bh to, is on bh's chain. *)
<1>8. ASSUME NEW b \in Buffers, b_prev[bh] = b \/ b_next[bh] = b
      PROVE  \E h \in 0..(NR_HASH - 1) : bh \in OnChain(h) /\ b \in OnChain(h)
  <2>1. b_ident[bh] # NoBlock
    BY <1>2, <1>8 DEF ChainsFollow
  <2>2. PICK h \in 0..(NR_HASH - 1) : bh \in OnChain(h)
    BY <1>2, <2>1 DEF OnChain
  <2>3. /\ ToLast(b_next[bh], {c \in OnChain(h) : rank[c] < rank[bh]}, rank)
        /\ ToFirst(b_prev[bh], {c \in OnChain(h) : rank[bh] < rank[c]}, rank)
    BY <2>2 DEF ChainsFollow
  <2>4. b \in OnChain(h)
    BY <1>2, <1>8, <2>3 DEF ToLast, ToFirst
  <2> QED  BY <2>2, <2>4
<1>9. ASSUME NEW h \in 0..(NR_HASH - 1)
      PROVE  ToLast(loose.table[h], Others(h, bh), rank)
  <2>1. ToLast(hash_table[h], OnChain(h), rank)
    BY DEF ChainsFollow
  <2>2. CASE bh \in OnChain(h) /\ hash_table[h] = bh
    <3>1. ToLast(b_next[bh], {c \in OnChain(h) : rank[c] < rank[bh]}, rank)
      BY <2>2 DEF ChainsFollow
    <3>2. ToLast(b_next[bh], OnChain(h) \ {bh}, rank)
      BY <2>1, <2>2, <3>1, <1>6, DropEnd
    <3> QED  BY <2>2, <3>2, <1>5 DEF Others
  <2>3. CASE ~(bh \in OnChain(h) /\ hash_table[h] = bh)
    <3>1. hash_table[h] # bh
      BY <2>1, <2>3, <1>2 DEF ToLast
    <3> QED  BY <2>1, <2>3, <3>1, <1>5, Drop DEF Others
  <2> QED  BY <2>2, <2>3
<1>10. ASSUME NEW h \in 0..(NR_HASH - 1), NEW b \in Others(h, bh)
       PROVE  ToLast(loose.next[b], {c \in Others(h, bh) : rank[c] < rank[b]}, rank)
  <2> DEFINE lower == {c \in OnChain(h) : rank[c] < rank[b]}
  <2>1. b \in OnChain(h) /\ b \in Buffers /\ b # bh
    BY DEF Others, OnChain
  <2>2. ToLast(b_next[b], lower, rank)
    BY <2>1 DEF ChainsFollow
  <2>3. {c \in Others(h, bh) : rank[c] < rank[b]} = lower \ {bh}
    BY DEF Others
  <2>4. CASE b = b_prev[bh]
    <3>1. bh \in OnChain(h)
      BY <2>1, <2>4, <1>8 DEF OnChain
    <3>2. b_next[b] = bh
      BY <2>1, <2>4, <3>1, ChainInverse
    <3>3. bh \in lower
      BY <2>2, <3>2, <1>2 DEF ToLast
    <3>4. ToLast(b_next[bh], {c \in OnChain(h) : rank[c] < rank[bh]}, rank)
      BY <3>1 DEF ChainsFollow
    <3>5. {c \in lower : rank[c] < rank[bh]} = {c \in OnChain(h) : rank[c] < rank[bh]}
      <4>1. \A c \in OnChain(h) : rank[c] \in Int
        BY DEF Rankings, OnChain, Buffers
      <4> QED  BY <2>1, <3>1, <3>3, <4>1
    <3>6. lower \in SUBSET Buffers
      BY <1>6
    <3> HIDE DEF lower
    <3>7. ToLast(b_next[bh], lower \ {bh}, rank)
      BY <2>2, <3>2, <3>3, <3>4, <3>5, <3>6, DropEnd
    <3> QED  BY <2>1, <2>3, <2>4, <3>7, <1>3
  <2>5. CASE b # b_prev[bh]
    <3>1. b_next[b] # bh
      <4>1. SUFFICES ASSUME b_next[b] = bh  PROVE  FALSE
        OBVIOUS
      <4>2. bh \in OnChain(h)
        BY <2>2, <4>1, <1>2 DEF ToLast
      <4> QED  BY <2>1, <2>5, <4>1, <4>2, ChainInverse
    <3>2. ToLast(b_next[b], lower \ {bh}, rank)
      BY <2>2, <3>1, Drop
    <3> QED  BY <2>1, <2>3, <2>5, <3>2, <1>3
  <2> QED  BY <2>4, <2>5
<1>11. ASSUME NEW h \in 0..(NR_HASH - 1), NEW b \in Others(h, bh)
       PROVE  ToFirst(loose.prev[b], {c \in Others(h, bh) : rank[b] < rank[c]}, rank)
  <2> DEFINE higher == {c \in OnChain(h) : rank[b] < rank[c]}
  <2>1. b \in OnChain(h) /\ b \in Buffers /\ b # bh
    BY DEF Others, OnChain
  <2>2. ToFirst(b_prev[b], higher, rank)
    BY <2>1 DEF ChainsFollow
  <2>3. {c \in Others(h, bh) : rank[b] < rank[c]} = higher \ {bh}
    BY DEF Others
  <2>4. CASE b = b_next[bh]
    <3>1. bh \in OnChain(h)
      BY <2>1, <2>4, <1>8 DEF OnChain
    <3>2. b_prev[b] = bh
      BY <2>1, <2>4, <3>1, ChainInverse
    <3>3. bh \in higher
      BY <2>2, <3>2, <1>2 DEF ToFirst
    <3>4. ToFirst(b_prev[bh], {c \in OnChain(h) : rank[bh] < rank[c]}, rank)
      BY <3>1 DEF ChainsFollow
    <3>5. {c \in higher : rank[bh] < rank[c]} = {c \in OnChain(h) : rank[bh] < rank[c]}
      <4>1. \A c \in OnChain(h) : rank[c] \in Int
        BY DEF Rankings, OnChain, Buffers
      <4> QED  BY <2>1, <3>1, <3>3, <4>1
    <3>6. higher \in SUBSET Buffers
      BY <1>6
    <3> HIDE DEF higher
    <3>7. ToFirst(b_prev[bh], higher \ {bh}, rank)
      BY <2>2, <3>2, <3>3, <3>4, <3>5, <3>6, DropEnd
    <3> QED  BY <2>1, <2>3, <2>4, <3>7, <1>4
  <2>5. CASE b # b_next[bh]
    <3>1. b_prev[b] # bh
      <4>1. SUFFICES ASSUME b_prev[b] = bh  PROVE  FALSE
        OBVIOUS
      <4>2. bh \in OnChain(h)
        BY <2>2, <4>1, <1>2 DEF ToFirst
      <4> QED  BY <2>1, <2>5, <4>1, <4>2, ChainInverse
    <3>2. ToFirst(b_prev[b], higher \ {bh}, rank)
      BY <2>2, <3>1, Drop
    <3> QED  BY <2>1, <2>3, <2>5, <3>2, <1>4
  <2> QED  BY <2>4, <2>5
<1>12. ASSUME NEW b \in Buffers \ {bh}, b_ident[b] = NoBlock
       PROVE  loose.next[b] = NULL /\ loose.prev[b] = NULL
  <2>1. b_next[b] = NULL /\ b_prev[b] = NULL
    BY <1>12 DEF ChainsFollow
  <2>2. b # b_prev[bh] /\ b # b_next[bh]
    BY <1>8, <1>12 DEF OnChain
  <2> QED  BY <2>1, <2>2, <1>3, <1>4
<1> QED  BY <1>9, <1>10, <1>11, <1>12

LEMMA ChainsStep ==
  ASSUME TypeOK, NEW rank \in Rankings, ChainsFollow(rank),
         NEW bh \in Buffers, NEW k \in Blocks, Take(bh, k)
  PROVE  ChainsFollow(Moved(rank, bh))'
<1> DEFINE new == Moved(rank, bh)
           loose == Unchain(bh, b_next, b_prev, hash_table)
           h1 == Hash[k]
           top == loose.table[h1]
           D(h) == Others(h, bh)
           C(h) == IF h = h1 THEN D(h) \cup {bh} ELSE D(h)
<1>1. /\ new \in Rankings
      /\ \A b \in Buffers : new[b] \in Int
      /\ \A b, c \in Buffers : new[b] = new[c] => b = c
      /\ \A b \in Buffers \ {bh} : new[b] < new[bh]
      /\ \A b, c \in Buffers \ {bh} : (new[b] < new[c]) <=> (rank[b] < rank[c])
  <2>1. /\ new \in Rankings
        /\ \A b \in Buffers : new[b] <= new[bh]
        /\ \A b, c \in Buffers \ {bh} : (new[b] < new[c]) <=> (rank[b] < rank[c])
    BY MovedRanking
  <2> HIDE DEF new
  <2>2. /\ \A b \in Buffers : new[b] \in Int
        /\ \A b, c \in Buffers : new[b] = new[c] => b = c
    BY <2>1 DEF Rankings, Buffers
  <2> QED  BY <2>1, <2>2
<1>2. /\ loose.next \in [Buffers -> Pointers] /\ loose.prev \in [Pointers -> Pointers]
      /\ loose.table \in [0..(NR_HASH - 1) -> Pointers]
      /\ h1 \in 0..(NR_HASH - 1) /\ top \in Pointers
      /\ b_ident \in [Buffers -> Blocks \cup {NoBlock}] /\ k # NoBlock
      /\ Buffers \subseteq Pointers
  BY ConstantsAssumption DEF TypeOK, Unchain, Pointers
<1>3. NULL \notin Buffers
  BY DEF Buffers, NULL
<1>4. /\ \A h \in 0..(NR_HASH - 1) :
           /\ ToLast(loose.table[h], D(h), rank)
           /\ \A b \in D(h) :
                /\ ToLast(loose.next[b], {c \in D(h) : rank[c] < rank[b]}, rank)
                /\ ToFirst(loose.prev[b], {c \in D(h) : rank[b] < rank[c]}, rank)
      /\ \A b \in Buffers \ {bh} :
           b_ident[b] = NoBlock => loose.next[b] = NULL /\ loose.prev[b] = NULL
  <2> HIDE DEF loose
  <2>1. loose = Unchain(bh, b_next, b_prev, hash_table)
    BY DEF loose
  <2> QED  BY <2>1, Unchained
<1>5. /\ \A b \in Buffers : b_next'[b] = IF b = bh THEN top ELSE loose.next[b]
      /\ \A b \in Buffers : b_prev'[b] = IF b = top THEN bh
                                         ELSE IF b = bh THEN NULL ELSE loose.prev[b]
      /\ \A h \in 0..(NR_HASH - 1) :
           hash_table'[h] = IF h = h1 THEN bh ELSE loose.table[h]
  <2> HIDE DEF loose
  <2>1. /\ b_next' = [loose.next EXCEPT ![bh] = top]
        /\ b_prev' = [loose.prev EXCEPT ![bh] = NULL, ![top] = bh]
        /\ hash_table' = [loose.table EXCEPT ![h1] = bh]
    BY DEF Take, Chain, loose
  <2> QED  BY <2>1, <1>2
<1>6. /\ \A b \in Buffers : b_ident'[b] = IF b = bh THEN k ELSE b_ident[b]
      /\ \A h \in 0..(NR_HASH - 1) : OnChain(h)' = C(h)
  <2>1. b_ident' = [b_ident EXCEPT ![bh] = k]
    BY DEF Take
  <2>2. \A b \in Buffers : b_ident'[b] = IF b = bh THEN k ELSE b_ident[b]
    BY <2>1, <1>2
  <2>3. ASSUME NEW h \in 0..(NR_HASH - 1)  PROVE  OnChain(h)' = C(h)
    BY <2>2, <1>2 DEF OnChain, Others
  <2> QED  BY <2>2, <2>3
<1>7. \A h \in 0..(NR_HASH - 1) : D(h) \subseteq Buffers \ {bh}
  BY DEF Others, OnChain
<1> HIDE DEF new, loose, top
(* The chains without bh, in the new ranking. *)
<1>8. ASSUME NEW h \in 0..(NR_HASH - 1), NEW ptr, NEW S \in SUBSET D(h)
      PROVE  /\ ToLast(ptr, S, rank) => ToLast(ptr, S, new)
             /\ ToFirst(ptr, S, rank) => ToFirst(ptr, S, new)
  <2>1. S \in SUBSET Buffers /\ \A b, c \in S : (new[b] < new[c]) <=> (rank[b] < rank[c])
    BY <1>1, <1>7
  <2> QED  BY <2>1, <1>1, Reranked
<1>9. ASSUME NEW h \in 0..(NR_HASH - 1), NEW b \in D(h)
      PROVE  /\ ToLast(loose.next[b], {c \in D(h) : new[c] < new[b]}, new)
             /\ ToFirst(loose.prev[b], {c \in D(h) : new[b] < new[c]}, new)
  <2>1. /\ {c \in D(h) : new[c] < new[b]} = {c \in D(h) : rank[c] < rank[b]}
        /\ {c \in D(h) : new[b] < new[c]} = {c \in D(h) : rank[b] < rank[c]}
    BY <1>1, <1>7
  <2> QED  BY <2>1, <1>4, <1>8
<1>10. ToLast(top, D(h1), new)
  <2>1. ToLast(top, D(h1), rank)
    BY <1>2, <1>4 DEF top
  <2> QED  BY <2>1, <1>2, <1>8
<1>11. ASSUME NEW h \in 0..(NR_HASH - 1)  PROVE  ToLast(hash_table'[h], C(h), new)
  <2>1. CASE h = h1
    <3>1. \A c \in C(h) : new[c] <= new[bh]
      BY <2>1, <1>1, <1>7
    <3> QED  BY <2>1, <3>1, <1>5 DEF ToLast
  <2>2. CASE h # h1
    BY <2>2, <1>4, <1>5, <1>8
  <2> QED  BY <2>1, <2>2
<1>12. ASSUME NEW h \in 0..(NR_HASH - 1), NEW b \in C(h)
       PROVE  ToLast(b_next'[b], {c \in C(h) : new[c] < new[b]}, new)
  <2>1. CASE b = bh
    <3>1. h = h1
      BY <2>1, <1>7
    <3>2. {c \in C(h) : new[c] < new[b]} = D(h1)
      BY <2>1, <3>1, <1>1, <1>7
    <3> QED  BY <2>1, <3>2, <1>5, <1>10
  <2>2. CASE b # bh
    <3>1. b \in D(h) /\ b \in Buffers
      BY <2>2, <1>7
    <3>2. {c \in C(h) : new[c] < new[b]} = {c \in D(h) : new[c] < new[b]}
      BY <2>2, <3>1, <1>1, <1>7
    <3> QED  BY <2>2, <3>1, <3>2, <1>5, <1>9
  <2> QED  BY <2>1, <2>2
<1>13. ASSUME NEW h \in 0..(NR_HASH - 1), NEW b \in C(h)
       PROVE  ToFirst(b_prev'[b], {c \in C(h) : new[b] < new[c]}, new)
  <2>1. b \in Buffers
    BY <1>7
  <2>2. CASE b = bh
    <3>1. {c \in C(h) : new[b] < new[c]} = {}
      BY <2>2, <1>1, <1>7
    <3>2. b_prev'[b] = NULL
      <4>1. bh # top
        BY <1>2, <1>3, <1>7, <1>10 DEF ToLast
      <4> QED  BY <2>1, <2>2, <4>1, <1>5
    <3> QED  BY <3>1, <3>2 DEF ToFirst
  <2>3. CASE b # bh /\ b = top
    <3>1. b_prev'[b] = bh
      BY <2>1, <2>3, <1>5
    <3>2. h = h1
      <4>1. top \in D(h1)
        BY <2>1, <2>3, <1>3, <1>10 DEF ToLast
      <4>2. b \in D(h)
        BY <2>3
      <4> QED  BY <2>3, <4>1, <4>2 DEF Others, OnChain
    <3>3. {c \in C(h) : new[b] < new[c]} = {bh}
      <4>1. b \in D(h1) /\ \A c \in D(h1) : new[c] <= new[b]
        BY <2>3, <3>2, <1>10 DEF ToLast
      <4>2. \A c \in D(h1) : ~(new[b] < new[c])
        BY <2>1, <4>1, <1>1, <1>7, <1>2
      <4>3. new[b] < new[bh]
        BY <2>1, <2>3, <1>1
      <4> QED  BY <3>2, <4>2, <4>3
    <3> QED
      BY <3>1, <3>3, <1>1 DEF ToFirst
  <2>4. CASE b # bh /\ b # top
    <3> DEFINE higher == {c \in D(h) : new[b] < new[c]}
    <3>1. b \in D(h)
      BY <2>4
    <3>2. b_prev'[b] = loose.prev[b] /\ ToFirst(loose.prev[b], higher, new)
      BY <2>1, <2>4, <3>1, <1>5, <1>9
    <3>3. CASE h # h1
      BY <3>2, <3>3
    <3>4. CASE h = h1
      <4>1. top \in D(h) /\ new[b] <= new[top]
        BY <3>1, <3>4, <1>10 DEF ToLast
      <4>2. top \in higher
        BY <2>1, <2>4, <4>1, <1>1, <1>7
      <4>3. loose.prev[b] \in higher /\ \A c \in higher : new[loose.prev[b]] <= new[c]
        BY <3>2, <4>2 DEF ToFirst
      <4>4. {c \in C(h) : new[b] < new[c]} = higher \cup {bh}
        BY <2>1, <2>4, <3>4, <1>1
      <4>5. new[loose.prev[b]] <= new[bh]
        BY <4>3, <1>1, <1>7
      <4> QED  BY <3>2, <4>3, <4>4, <4>5 DEF ToFirst
    <3> QED  BY <3>3, <3>4
  <2> QED  BY <2>2, <2>3, <2>4
<1>14. ASSUME NEW b \in Buffers, b_ident'[b] = NoBlock
       PROVE  b_next'[b] = NULL /\ b_prev'[b] = NULL
  <2>1. b # bh /\ b_ident[b] = NoBlock
    BY <1>2, <1>6, <1>14
  <2>2. b # top
    <3>1. \A h \in 0..(NR_HASH - 1) : b \notin D(h)
      BY <2>1 DEF Others, OnChain
    <3> QED  BY <3>1, <1>2, <1>3, <1>10 DEF ToLast
  <2> QED  BY <2>1, <2>2, <1>4, <1>5
<1>15. new' = new
  BY DEF new
<1> QED  BY <1>6, <1>11, <1>12, <1>13, <1>14, <1>15 DEF ChainsFollow, new

-----------------------------------------------------------------------------
(* What buffer_init leaves is in order. *)
LEMMA InitOK ==
  ASSUME Init
  PROVE  TypeOK /\ QueuesOK
<1> DEFINE rank == [b \in Buffers |-> b]
<1>1. NR_BUFFERS \in Nat /\ NR_BUFFERS >= 1
  BY ConstantsAssumption
<1>2. TypeOK
  BY <1>1 DEF Init, TypeOK, Buffers, Pointers, NULL
<1>3. rank \in Rankings
  BY DEF Rankings
<1>4. RingFollows(rank)
  BY <1>1 DEF Init, RingFollows, After, Before, Buffers
<1>5. \A h \in 0..(NR_HASH - 1) : OnChain(h) = {}
  BY DEF Init, OnChain
<1>6. ChainsFollow(rank)
  BY <1>5 DEF Init, ChainsFollow, ToLast, Pointers
<1> QED  BY <1>2, <1>3, <1>4, <1>6 DEF QueuesOK

(* Pointers keep their type, and those of the ring are never NULL, so that *)
(* remove_from_queues does not panic.                                      *)
THEOREM TypeCorrect == Spec => []TypeOK
<1>1. Init => TypeOK
  BY InitOK
<1>2. TypeOK /\ [Next]_vars => TypeOK'
  <2> SUFFICES ASSUME TypeOK, [Next]_vars  PROVE  TypeOK'
    OBVIOUS
  <2>1. CASE Next
    BY <2>1, TypeStep DEF Next
  <2>2. CASE UNCHANGED vars
    BY <2>2 DEF TypeOK, vars, idVars, chainVars, ringVars
  <2> QED  BY <2>1, <2>2
<1> QED  BY <1>1, <1>2, PTL DEF Spec

(* The ring goes through every buffer, and every chain holds the buffers   *)
(* whose block hashes to it, however often the buffers are reused.         *)
THEOREM QueuesCorrect == Spec => []QueuesOK
<1>1. Init => QueuesOK
  BY InitOK
<1>2. TypeOK /\ QueuesOK /\ [Next]_vars => QueuesOK'
  <2> SUFFICES ASSUME TypeOK, QueuesOK, [Next]_vars  PROVE  QueuesOK'
    OBVIOUS
  <2>1. PICK rank \in Rankings : RingFollows(rank) /\ ChainsFollow(rank)
    BY DEF QueuesOK
  <2>2. CASE Next
    <3>1. PICK bh \in Buffers, k \in Blocks : Take(bh, k)
      BY <2>2 DEF Next
    <3>2. Moved(rank, bh) \in Rankings
      BY MovedRanking
    <3>3. RingFollows(Moved(rank, bh))' /\ ChainsFollow(Moved(rank, bh))'
      BY <2>1, <3>1, RingStep, ChainsStep
    <3> QED  BY <3>2, <3>3 DEF QueuesOK
  <2>3. CASE UNCHANGED vars
    <3>1. RingFollows(rank)' /\ ChainsFollow(rank)'
      BY <2>1, <2>3 DEF RingFollows, ChainsFollow, OnChain, ToLast, ToFirst,
                        vars, idVars, chainVars, ringVars
    <3> QED  BY <3>1 DEF QueuesOK
  <2> QED  BY <2>2, <2>3
<1> QED  BY <1>1, <1>2, TypeCorrect, PTL DEF Spec

-----------------------------------------------------------------------------
(* The ring read from free_list on.                                        *)

(* The ranking reaches every place: the buffer at place i leads to that at *)
(* place i + 1.                                                            *)
LEMMA PlaceTaken ==
  ASSUME TypeOK, NEW rank \in Rankings, RingFollows(rank), NEW i \in Buffers
  PROVE  \E b \in Buffers : rank[b] = i
<1> DEFINE S == {j \in Buffers : \A b \in Buffers : rank[b] # j}
<1>1. NR_BUFFERS \in Nat /\ NR_BUFFERS >= 1
  BY ConstantsAssumption
<1>2. /\ free_list \in Buffers /\ rank[free_list] = 1
      /\ \A b \in Buffers : b_next_free[b] \in Buffers /\ rank[b_next_free[b]] = After(rank[b])
  BY DEF TypeOK, RingFollows
<1>3. S \subseteq Nat
  BY <1>1 DEF Buffers
<1>4. SUFFICES ASSUME S # {}  PROVE FALSE
  OBVIOUS
<1> HIDE DEF S
<1>5. Min(S) \in S /\ \A j \in S : Min(S) <= j
  BY <1>3, <1>4, MinNat
<1>6. PICK m \in S : \A j \in S : m <= j
  BY <1>5
<1>7. m \in 1..NR_BUFFERS /\ \A b \in Buffers : rank[b] # m
  BY <1>6 DEF S, Buffers
<1>8. m # 1
  BY <1>2, <1>7
<1>9. m - 1 \in Buffers /\ m - 1 \notin S
  BY <1>1, <1>6, <1>7, <1>8 DEF Buffers
<1>10. PICK b \in Buffers : rank[b] = m - 1
  BY <1>9 DEF S
<1>11. After(m - 1) = m
  BY <1>1, <1>7, <1>8 DEF After
<1> QED  BY <1>2, <1>7, <1>10, <1>11

(* The buffers in the order of a ranking. *)
Place(rank) == [i \in Buffers |-> CHOOSE b \in Buffers : rank[b] = i]

LEMMA PlaceIs ==
  ASSUME TypeOK, NEW rank \in Rankings, RingFollows(rank)
  PROVE  /\ \A i \in Buffers : Place(rank)[i] \in Buffers /\ rank[Place(rank)[i]] = i
         /\ \A b \in Buffers : rank[b] \in Buffers /\ Place(rank)[rank[b]] = b
<1>1. \A i \in Buffers : Place(rank)[i] \in Buffers /\ rank[Place(rank)[i]] = i
  BY PlaceTaken DEF Place
<1>2. /\ \A b \in Buffers : rank[b] \in Buffers
      /\ \A b, c \in Buffers : rank[b] = rank[c] => b = c
  BY DEF Rankings
<1> QED  BY <1>1, <1>2

(* The equation FreeOrder is defined by. *)
Follows(at) ==
  at = [i \in Buffers |-> IF i = 1 THEN free_list ELSE b_next_free[at[i - 1]]]

LEMMA PlaceFollows ==
  ASSUME TypeOK, NEW rank \in Rankings, RingFollows(rank)
  PROVE  Follows(Place(rank))
<1> DEFINE at == Place(rank)
<1>1. NR_BUFFERS \in Nat /\ NR_BUFFERS >= 1
  BY ConstantsAssumption
<1>2. /\ free_list \in Buffers /\ rank[free_list] = 1
      /\ \A b \in Buffers : b_next_free[b] \in Buffers /\ rank[b_next_free[b]] = After(rank[b])
      /\ \A b, c \in Buffers : rank[b] = rank[c] => b = c
  BY DEF TypeOK, RingFollows, Rankings
<1>3. \A i \in Buffers : at[i] \in Buffers /\ rank[at[i]] = i
  BY PlaceIs
<1>4. at = [i \in Buffers |-> at[i]]
  BY DEF Place
<1> HIDE DEF at
<1>5. ASSUME NEW i \in Buffers
      PROVE  at[i] = IF i = 1 THEN free_list ELSE b_next_free[at[i - 1]]
  <2>1. CASE i = 1
    <3>1. at[i] \in Buffers /\ rank[at[i]] = rank[free_list] /\ free_list \in Buffers
      BY <1>2, <1>3, <2>1
    <3>2. at[i] = free_list
      BY <1>2, <3>1
    <3> QED  BY <2>1, <3>2
  <2>2. CASE i # 1
    <3>1. i - 1 \in Buffers /\ After(i - 1) = i
      BY <1>1, <2>2 DEF Buffers, After
    <3>2. at[i - 1] \in Buffers /\ rank[at[i - 1]] = i - 1
      BY <1>3, <3>1
    <3>3. rank[b_next_free[at[i - 1]]] = i /\ b_next_free[at[i - 1]] \in Buffers
      BY <1>2, <3>1, <3>2
    <3>4. b_next_free[at[i - 1]] = at[i]
      BY <1>2, <1>3, <3>3
    <3> QED  BY <2>2, <3>4
  <2> QED  BY <2>1, <2>2
<1> QED  BY <1>4, <1>5 DEF Follows, at

(* The equation has a solution, so FreeOrder is one. *)
LEMMA OrderFollows ==
  ASSUME NEW at, Follows(at)
  PROVE  Follows(FreeOrder)
BY Zenon DEF Follows, FreeOrder

(* Two solutions are equal: the first place where they differ would come   *)
(* after one where they agree.                                             *)
LEMMA FollowsOnce ==
  ASSUME NEW f, NEW g, Follows(f), Follows(g)
  PROVE  f = g
<1> DEFINE S == {i \in Buffers : f[i] # g[i]}
<1>1. NR_BUFFERS \in Nat /\ NR_BUFFERS >= 1
  BY ConstantsAssumption
<1>2. /\ f = [i \in Buffers |-> f[i]]
      /\ g = [i \in Buffers |-> g[i]]
  BY DEF Follows
<1>3. ASSUME NEW i \in Buffers
      PROVE  /\ f[i] = IF i = 1 THEN free_list ELSE b_next_free[f[i - 1]]
             /\ g[i] = IF i = 1 THEN free_list ELSE b_next_free[g[i - 1]]
  BY DEF Follows
<1>4. S = {}
  <2> SUFFICES ASSUME S # {}  PROVE FALSE
    OBVIOUS
  <2>1. S \subseteq Nat
    BY <1>1 DEF Buffers
  <2>2. Min(S) \in S /\ \A j \in S : Min(S) <= j
    BY <2>1, MinNat
  <2>3. PICK m \in S : \A j \in S : m <= j
    BY <2>2
  <2>4. m \in 1..NR_BUFFERS /\ f[m] # g[m]
    BY DEF Buffers
  <2>5. m # 1
    BY <1>3, <2>4
  <2>6. m - 1 \in Buffers /\ ~(m <= m - 1)
    BY <1>1, <2>4, <2>5 DEF Buffers
  <2>7. f[m - 1] = g[m - 1]
    BY <2>3, <2>6
  <2> QED  BY <1>3, <2>4, <2>5, <2>7
<1>5. \A i \in Buffers : f[i] = g[i]
  BY <1>4
<1> QED  BY <1>2, <1>5

(* FreeOrder lists the buffers in the order of the ranking. *)
LEMMA OrderIsPlace ==
  TypeOK => \A rank \in Rankings : RingFollows(rank) => FreeOrder = Place(rank)
<1> SUFFICES ASSUME TypeOK, NEW rank \in Rankings, RingFollows(rank)
             PROVE  FreeOrder = Place(rank)
  OBVIOUS
<1>1. Follows(Place(rank))
  BY PlaceFollows
<1> QED  BY <1>1, OrderFollows, FollowsOnce

(* Moving bh to the end of the ranking moves it to the end of the list. *)
LEMMA PlaceMoved ==
  ASSUME TypeOK, NEW rank \in Rankings, RingFollows(rank), NEW bh \in Buffers
  PROVE  Place(Moved(rank, bh)) =
           [i \in Buffers |-> IF i < rank[bh] THEN Place(rank)[i]
                              ELSE IF i + 1 \in Buffers THEN Place(rank)[i + 1] ELSE bh]
<1> DEFINE new == Moved(rank, bh)
           old == Place(rank)
           moved(i) == IF i < rank[bh] THEN old[i]
                       ELSE IF i + 1 \in Buffers THEN old[i + 1] ELSE bh
<1>1. NR_BUFFERS \in Nat /\ NR_BUFFERS >= 1
  BY ConstantsAssumption
<1>2. /\ \A i \in Buffers : old[i] \in Buffers /\ rank[old[i]] = i
      /\ \A b \in Buffers : rank[b] \in Buffers /\ old[rank[b]] = b
  BY PlaceIs
<1>3. new \in Rankings
  BY MovedRanking
<1>4. \A b \in Buffers : new[b] = IF b = bh THEN NR_BUFFERS
                                  ELSE IF rank[b] > rank[bh] THEN rank[b] - 1 ELSE rank[b]
  BY DEF Moved
<1> HIDE DEF new, old
<1>5. ASSUME NEW i \in Buffers
      PROVE  moved(i) \in Buffers /\ new[moved(i)] = i
  <2> USE DEF Buffers
  <2>1. CASE i < rank[bh]
    BY <1>1, <1>2, <1>4, <2>1
  <2>2. CASE ~(i < rank[bh]) /\ i + 1 \in Buffers
    <3>1. old[i + 1] \in Buffers /\ rank[old[i + 1]] = i + 1 /\ rank[bh] \in Buffers
      BY <1>2, <2>2
    <3>2. i + 1 > rank[bh] /\ old[i + 1] # bh
      BY <1>1, <2>2, <3>1
    <3> QED  BY <1>1, <1>4, <2>2, <3>1, <3>2
  <2>3. CASE ~(i < rank[bh]) /\ i + 1 \notin Buffers
    <3>1. i = NR_BUFFERS
      BY <1>1, <2>3
    <3> QED  BY <1>4, <2>3, <3>1
  <2> QED  BY <2>1, <2>2, <2>3
<1>6. \A b, c \in Buffers : new[b] = new[c] => b = c
  BY <1>3 DEF Rankings
<1> HIDE DEF moved
<1>7. \A i \in Buffers : (CHOOSE b \in Buffers : new[b] = i) = moved(i)
  BY <1>5, <1>6
<1>8. Place(new) = [i \in Buffers |-> moved(i)]
  BY <1>7 DEF Place
<1> QED  BY <1>8 DEF moved, new, old

-----------------------------------------------------------------------------
(* The chain as find_buffer walks it.                                      *)

Steps == 1..(NR_BUFFERS + 1)

(* f is the first n places of the walk of chain h. *)
Walks(f, h, n) ==
  f = [i \in 1..n |-> IF i = 1 THEN hash_table[h]
                      ELSE IF f[i - 1] = NULL THEN NULL ELSE b_next[f[i - 1]]]

(* A walk goes one place further. *)
LEMMA WalkOn ==
  ASSUME NEW h, NEW n \in Nat, n >= 1, NEW f, Walks(f, h, n)
  PROVE  \E g : Walks(g, h, n + 1)
<1> DEFINE next == IF f[n] = NULL THEN NULL ELSE b_next[f[n]]
           g == [i \in 1..(n + 1) |-> IF i = n + 1 THEN next ELSE f[i]]
<1>1. \A i \in 1..n : f[i] = IF i = 1 THEN hash_table[h]
                             ELSE IF f[i - 1] = NULL THEN NULL ELSE b_next[f[i - 1]]
  BY DEF Walks
<1>2. /\ g[n + 1] = next
      /\ \A i \in 1..n : g[i] = f[i]
  OBVIOUS
<1>3. g = [i \in 1..(n + 1) |-> g[i]]
  OBVIOUS
<1> HIDE DEF g
<1>4. ASSUME NEW i \in 1..(n + 1)
      PROVE  g[i] = IF i = 1 THEN hash_table[h]
                    ELSE IF g[i - 1] = NULL THEN NULL ELSE b_next[g[i - 1]]
  <2>1. CASE i = n + 1
    <3>1. i # 1 /\ i - 1 = n /\ n \in 1..n
      BY <2>1
    <3>2. g[i - 1] = f[n] /\ g[i] = next
      BY <1>2, <2>1, <3>1
    <3> QED  BY <3>1, <3>2
  <2>2. CASE i # n + 1
    <3>1. i \in 1..n /\ (i # 1 => i - 1 \in 1..n)
      BY <2>2
    <3> QED  BY <1>1, <1>2, <3>1
  <2> QED  BY <2>1, <2>2
<1>5. Walks(g, h, n + 1)
  BY <1>3, <1>4 DEF Walks
<1> QED  BY <1>5

(* So there is one of any length. *)
LEMMA WalkExists ==
  ASSUME NEW h, NEW n \in Nat, n >= 1
  PROVE  \E f : Walks(f, h, n)
<1> DEFINE S == {j \in Nat \ {0} : ~ \E f : Walks(f, h, j)}
<1> SUFFICES ASSUME S # {}  PROVE FALSE
  OBVIOUS
<1>1. Min(S) \in S /\ \A j \in S : Min(S) <= j
  BY MinNat
<1>2. PICK m \in S : \A j \in S : m <= j
  BY <1>1
<1>3. CASE m = 1
  <2>1. Walks([i \in 1..1 |-> hash_table[h]], h, 1)
    BY DEF Walks
  <2> QED  BY <1>3, <2>1
<1>4. CASE m # 1
  <2>1. m - 1 \in Nat \ {0} /\ m - 1 >= 1 /\ ~(m <= m - 1)
    BY <1>4
  <2>2. PICK f : Walks(f, h, m - 1)
    BY <1>2, <2>1
  <2>3. \E g : Walks(g, h, (m - 1) + 1)
    BY <2>1, <2>2, WalkOn
  <2>4. (m - 1) + 1 = m
    OBVIOUS
  <2> QED  BY <2>3, <2>4
<1> QED  BY <1>3, <1>4

LEMMA WalkWalks ==
  ASSUME NEW h
  PROVE  Walks(Walk(h), h, NR_BUFFERS + 1)
<1>1. NR_BUFFERS + 1 \in Nat /\ NR_BUFFERS + 1 >= 1
  BY ConstantsAssumption
<1>2. PICK f : Walks(f, h, NR_BUFFERS + 1)
  BY <1>1, WalkExists
<1> QED  BY <1>2, Zenon DEF Walks, Walk

LEMMA WalkStep ==
  ASSUME NEW h, NEW j \in Steps
  PROVE  Walk(h)[j] = IF j = 1 THEN hash_table[h]
                      ELSE IF Walk(h)[j - 1] = NULL THEN NULL ELSE b_next[Walk(h)[j - 1]]
<1>1. ASSUME NEW f, NEW n, Walks(f, h, n), NEW i \in 1..n
      PROVE  f[i] = IF i = 1 THEN hash_table[h]
                    ELSE IF f[i - 1] = NULL THEN NULL ELSE b_next[f[i - 1]]
  BY <1>1, Zenon DEF Walks
<1>2. j \in 1..(NR_BUFFERS + 1)
  BY DEF Steps
<1> QED  BY <1>1, <1>2, WalkWalks

(* The walk stays on the chain until it ends in NULL. *)
LEMMA WalkOnChain ==
  ASSUME NEW rank \in Rankings, ChainsFollow(rank), NEW h \in 0..(NR_HASH - 1),
         NEW i \in Steps
  PROVE  Walk(h)[i] = NULL \/ Walk(h)[i] \in OnChain(h)
<1> DEFINE w == Walk(h)
           S == {j \in Steps : ~(w[j] = NULL \/ w[j] \in OnChain(h))}
<1>1. NR_BUFFERS \in Nat
  BY ConstantsAssumption
<1>2. \A j \in Steps : w[j] = IF j = 1 THEN hash_table[h]
                              ELSE IF w[j - 1] = NULL THEN NULL ELSE b_next[w[j - 1]]
  BY WalkStep
<1>3. /\ hash_table[h] = NULL \/ hash_table[h] \in OnChain(h)
      /\ \A b \in OnChain(h) : b_next[b] = NULL \/ b_next[b] \in OnChain(h)
  BY DEF ChainsFollow, ToLast
<1> HIDE DEF w
<1> SUFFICES ASSUME S # {}  PROVE FALSE
  BY DEF w
<1>4. S \subseteq Nat
  BY <1>1 DEF Steps
<1>5. Min(S) \in S /\ \A j \in S : Min(S) <= j
  BY <1>4, MinNat
<1>6. PICK m \in S : \A j \in S : m <= j
  BY <1>5
<1>7. m \in Steps /\ ~(w[m] = NULL \/ w[m] \in OnChain(h))
  BY <1>6
<1>8. m # 1
  BY <1>2, <1>3, <1>7
<1>9. m - 1 \in Steps /\ ~(m <= m - 1)
  BY <1>1, <1>7, <1>8 DEF Steps
<1>10. w[m - 1] = NULL \/ w[m - 1] \in OnChain(h)
  BY <1>6, <1>9
<1> QED  BY <1>2, <1>3, <1>7, <1>8, <1>10

(* The walk meets every buffer of the chain: as long as it has not met b   *)
(* it is at a buffer taken after b, one place lower at each step, and      *)
(* there are no more than NR_BUFFERS places.                               *)
LEMMA WalkMeets ==
  ASSUME NEW rank \in Rankings, ChainsFollow(rank), NEW h \in 0..(NR_HASH - 1),
         NEW b \in OnChain(h)
  PROVE  \E i \in Steps : Walk(h)[i] = b
<1> DEFINE w == Walk(h)
           Above(j) == /\ w[j] \in OnChain(h)
                       /\ rank[b] < rank[w[j]]
                       /\ rank[w[j]] <= NR_BUFFERS + 1 - j
           S == {j \in Steps : ~Above(j)}
<1>1. NR_BUFFERS \in Nat /\ NR_BUFFERS >= 1
  BY ConstantsAssumption
<1>2. \A j \in Steps : w[j] = IF j = 1 THEN hash_table[h]
                              ELSE IF w[j - 1] = NULL THEN NULL ELSE b_next[w[j - 1]]
  BY WalkStep
<1>3. /\ \A c \in OnChain(h) : c \in Buffers /\ c # NULL /\ rank[c] \in 1..NR_BUFFERS
      /\ \A c, d \in OnChain(h) : rank[c] = rank[d] => c = d
  BY DEF Rankings, OnChain, Buffers, NULL
<1>4. /\ ToLast(hash_table[h], OnChain(h), rank)
      /\ \A c \in OnChain(h) : ToLast(b_next[c], {d \in OnChain(h) : rank[d] < rank[c]}, rank)
  BY DEF ChainsFollow
<1> HIDE DEF w
<1> SUFFICES ASSUME \A i \in Steps : w[i] # b  PROVE FALSE
  BY DEF w
<1>5. ASSUME NEW m \in S, \A j \in S : m <= j  PROVE FALSE
  <2>1. CASE m = 1
    <3>1. w[1] = hash_table[h] /\ w[1] # b
      BY <1>1, <1>2 DEF Steps
    <3>2. w[1] \in OnChain(h) /\ rank[b] <= rank[w[1]]
      BY <1>4, <3>1 DEF ToLast
    <3>3. rank[w[1]] \in 1..NR_BUFFERS /\ rank[b] \in 1..NR_BUFFERS /\ rank[b] # rank[w[1]]
      BY <1>3, <3>1, <3>2
    <3>4. Above(1)
      BY <1>1, <3>2, <3>3
    <3> QED  BY <2>1, <3>4
  <2>2. CASE m # 1
    <3>1. m \in Steps /\ m - 1 \in Steps /\ ~(m <= m - 1)
      BY <1>1, <2>2 DEF Steps
    <3>2. Above(m - 1)
      BY <1>5, <3>1
    <3> DEFINE c == w[m - 1]
    <3>3. c \in OnChain(h) /\ rank[b] < rank[c] /\ rank[c] <= NR_BUFFERS + 1 - (m - 1)
      BY <3>2
    <3>4. w[m] = b_next[c] /\ w[m] # b
      BY <1>2, <1>3, <2>2, <3>1, <3>3
    <3> HIDE DEF c
    <3>5. b_next[c] \in OnChain(h) /\ rank[b_next[c]] < rank[c] /\ rank[b] <= rank[b_next[c]]
      BY <1>4, <3>3 DEF ToLast
    <3>6. /\ rank[b_next[c]] \in 1..NR_BUFFERS /\ rank[b] \in 1..NR_BUFFERS
          /\ rank[c] \in 1..NR_BUFFERS /\ rank[b] # rank[b_next[c]]
      BY <1>3, <3>3, <3>4, <3>5
    <3>7. rank[b] < rank[b_next[c]] /\ rank[b_next[c]] <= NR_BUFFERS + 1 - m
      <4>1. m \in Int
        BY <1>1 DEF Steps
      <4> QED  BY <1>1, <3>3, <3>5, <3>6, <4>1
    <3>8. Above(m)
      BY <3>4, <3>5, <3>7
    <3> QED  BY <3>8
  <2> QED  BY <2>1, <2>2
<1>6. S \subseteq Nat
  BY <1>1 DEF Steps
<1> HIDE DEF S
<1>7. S = {}
  BY <1>5, <1>6, MinNat
<1>8. NR_BUFFERS + 1 \in Steps
  BY <1>1 DEF Steps
<1>9. Above(NR_BUFFERS + 1)
  BY <1>7, <1>8 DEF S
<1>10. rank[w[NR_BUFFERS + 1]] \in 1..NR_BUFFERS /\ rank[w[NR_BUFFERS + 1]] <= 0
  BY <1>1, <1>3, <1>9
<1> QED  BY <1>10

-----------------------------------------------------------------------------
(* What find_buffer returns.                                               *)

(* A block is in one buffer at most. *)
Unique == \A b, c \in Buffers : b_ident[b] = b_ident[c] /\ b_ident[b] # NoBlock => b = c

Ordered == \E rank \in Rankings : ChainsFollow(rank)

(* If a buffer holds k, FindBuffer(k) is a buffer that does. *)
LEMMA FindsIt ==
  ASSUME TypeOK, Ordered, NEW k \in Blocks, NEW b \in Buffers, b_ident[b] = k
  PROVE  FindBuffer(k) \in Buffers /\ b_ident[FindBuffer(k)] = k
<1> DEFINE w == Walk(Hash[k])
           holds == {i \in Steps : w[i] # NULL /\ b_ident[w[i]] = k}
<1>1. NR_BUFFERS \in Nat /\ k # NoBlock /\ Hash[k] \in 0..(NR_HASH - 1)
  BY ConstantsAssumption
<1>2. PICK rank \in Rankings : ChainsFollow(rank)
  BY DEF Ordered
<1>3. b \in OnChain(Hash[k]) /\ b # NULL
  BY <1>1 DEF OnChain, Buffers, NULL
<1>4. PICK i \in Steps : w[i] = b
  BY <1>1, <1>2, <1>3, WalkMeets
<1>5. \A j \in Steps : w[j] # NULL => w[j] \in Buffers
  BY <1>1, <1>2, WalkOnChain DEF OnChain
<1>6. FindBuffer(k) = IF holds = {} THEN NULL
                      ELSE w[CHOOSE j \in holds : \A l \in holds : j <= l]
  BY DEF FindBuffer, Steps
<1>7. holds # {} /\ holds \subseteq Nat
  BY <1>1, <1>3, <1>4 DEF Steps
<1>8. \A j \in holds : w[j] \in Buffers /\ b_ident[w[j]] = k
  BY <1>5
<1> HIDE DEF holds, w
<1>9. Min(holds) \in holds /\ \A l \in holds : Min(holds) <= l
  BY <1>7, MinNat
<1>10. (CHOOSE j \in holds : \A l \in holds : j <= l) \in holds
  BY <1>9
<1> QED  BY <1>6, <1>7, <1>8, <1>10

(* If none does, FindBuffer(k) is NULL. *)
LEMMA FindsNone ==
  ASSUME TypeOK, Ordered, NEW k \in Blocks, \A b \in Buffers : b_ident[b] # k
  PROVE  FindBuffer(k) = NULL
<1>1. Hash[k] \in 0..(NR_HASH - 1)
  BY ConstantsAssumption
<1>2. PICK rank \in Rankings : ChainsFollow(rank)
  BY DEF Ordered
<1>3. \A j \in Steps : Walk(Hash[k])[j] # NULL => Walk(Hash[k])[j] \in Buffers
  BY <1>1, <1>2, WalkOnChain DEF OnChain
<1>4. {i \in Steps : Walk(Hash[k])[i] # NULL /\ b_ident[Walk(Hash[k])[i]] = k} = {}
  BY <1>3
<1> QED  BY <1>4 DEF FindBuffer, Steps

(* Lookups through the chains return what a search of all buffers would. *)
LEMMA FindIsFound ==
  TypeOK /\ Ordered /\ Unique => [k \in Blocks |-> FindBuffer(k)] = Lists!Found(b_ident)
<1> SUFFICES ASSUME TypeOK, Ordered, Unique, NEW k \in Blocks
             PROVE  FindBuffer(k) = IF \E b \in Buffers : b_ident[b] = k
                                    THEN CHOOSE b \in Buffers : b_ident[b] = k ELSE NULL
  BY DEF Lists!Found, Lists!NULL, NULL
<1>1. k # NoBlock
  BY ConstantsAssumption
<1>2. CASE \E b \in Buffers : b_ident[b] = k
  <2>1. FindBuffer(k) \in Buffers /\ b_ident[FindBuffer(k)] = k
    BY <1>2, FindsIt
  <2>2. \A b \in Buffers : b_ident[b] = k => b = FindBuffer(k)
    BY <1>1, <2>1 DEF Unique
  <2> QED  BY <1>2, <2>1, <2>2
<1>3. CASE ~ \E b \in Buffers : b_ident[b] = k
  BY <1>3, FindsNone
<1> QED  BY <1>2, <1>3

-----------------------------------------------------------------------------
(* The queues implement the list of BufferLists.                           *)

ListsInv == TypeOK /\ QueuesOK /\ Unique

LEMMA UniqueStep ==
  ASSUME TypeOK, Unique, NEW bh \in Buffers, NEW k \in Blocks, Take(bh, k)
  PROVE  Unique'
BY DEF TypeOK, Unique, Take

LEMMA QueuesStep ==
  ASSUME TypeOK, NEW rank \in Rankings, RingFollows(rank), ChainsFollow(rank),
         NEW bh \in Buffers, NEW k \in Blocks, Take(bh, k)
  PROVE  /\ Moved(rank, bh) \in Rankings
         /\ RingFollows(Moved(rank, bh))' /\ ChainsFollow(Moved(rank, bh))'
BY MovedRanking, RingStep, ChainsStep

(* buffer_init leaves the list of BufferLists. *)
LEMMA ListsInit ==
  ASSUME Init
  PROVE  ListsInv /\ Lists!Init
<1>1. TypeOK /\ QueuesOK
  BY InitOK
<1>2. \A b \in Buffers : b_ident[b] = NoBlock
  BY DEF Init
<1>3. Unique
  BY <1>2 DEF Unique
<1>4. Ordered
  BY <1>1 DEF QueuesOK, Ordered
<1>5. \A k \in Blocks : FindBuffer(k) = NULL
  BY <1>1, <1>2, <1>4, FindsNone, ConstantsAssumption
<1>6. Follows([i \in Buffers |-> i])
  <2>1. NR_BUFFERS \in Nat /\ NR_BUFFERS >= 1
    BY ConstantsAssumption
  <2>2. free_list = 1 /\ b_next_free = [b \in Buffers |-> IF b = NR_BUFFERS THEN 1 ELSE b + 1]
    BY DEF Init
  <2> DEFINE at == [i \in Buffers |-> i]
  <2>3. ASSUME NEW i \in Buffers
        PROVE  at[i] = IF i = 1 THEN free_list ELSE b_next_free[at[i - 1]]
    <3>1. i # 1 => i - 1 \in Buffers /\ i - 1 # NR_BUFFERS
      BY <2>1 DEF Buffers
    <3> QED  BY <2>1, <2>2, <3>1 DEF Buffers
  <2>4. at = [i \in Buffers |-> at[i]]
    OBVIOUS
  <2> HIDE DEF at
  <2>5. Follows(at)
    BY <2>3, <2>4 DEF Follows
  <2> QED  BY <2>5 DEF at
<1>7. FreeOrder = [i \in Buffers |-> i]
  BY <1>6, OrderFollows, FollowsOnce
<1>8. b_ident = [b \in Buffers |-> NoBlock]
  BY DEF Init
<1>9. [k \in Blocks |-> FindBuffer(k)] = [k \in Blocks |-> NULL]
  BY <1>5
<1> QED  BY <1>1, <1>3, <1>7, <1>8, <1>9 DEF ListsInv, Lists!Init, Lists!NULL, NULL

(* Both facts about the operators hold after a step as well. *)
LEMMA OrderNext ==
  (TypeOK => \A rank \in Rankings : RingFollows(rank) => FreeOrder = Place(rank))'
BY OrderIsPlace, PTL

LEMMA FoundNext ==
  (TypeOK /\ Ordered /\ Unique
     => [k \in Blocks |-> FindBuffer(k)] = Lists!Found(b_ident))'
BY FindIsFound, PTL

(* Giving bh to block k is Take of BufferLists, where bh is at its rank. *)
LEMMA TakeIsTake ==
  ASSUME ListsInv, ListsInv', NEW bh \in Buffers, NEW k \in Blocks, Take(bh, k)
  PROVE  Lists!Take(bh, k)
<1> TypeOK /\ Unique /\ QueuesOK
  BY DEF ListsInv
<1>1. PICK rank \in Rankings : RingFollows(rank) /\ ChainsFollow(rank)
  BY DEF QueuesOK
<1> DEFINE new == Moved(rank, bh)
<1>2. new \in Rankings /\ RingFollows(new)' /\ ChainsFollow(new)'
  BY <1>1, QueuesStep
<1>3. FreeOrder = Place(rank)
  BY <1>1, OrderIsPlace
<1>4. FreeOrder' = Place(new)
  <2>1. (TypeOK => \A r \in Rankings : RingFollows(r) => FreeOrder = Place(r))'
    BY OrderNext
  <2>2. TypeOK'
    BY DEF ListsInv
  <2>3. \A r \in Rankings : RingFollows(r)' => FreeOrder' = Place(r)
    BY <2>1, <2>2
  <2> HIDE DEF new
  <2> QED  BY <1>2, <2>3
<1>5. rank[bh] \in Buffers /\ Place(rank)[rank[bh]] = bh
  BY <1>1, PlaceIs
<1>6. FreeOrder' = [i \in Buffers |-> IF i < rank[bh] THEN FreeOrder[i]
                                      ELSE IF i + 1 \in Buffers THEN FreeOrder[i + 1] ELSE bh]
  BY <1>1, <1>3, <1>4, PlaceMoved
<1>7. b_ident' = [b_ident EXCEPT ![bh] = k]
  BY DEF Take
<1>8. [l \in Blocks |-> FindBuffer(l)][k] = NULL
  <2>1. Ordered
    BY <1>1 DEF Ordered
  <2>2. FindBuffer(k) = NULL
    BY <2>1, FindsNone DEF Take
  <2> QED  BY <2>2
<1>9. [l \in Blocks |-> FindBuffer(l)]' = Lists!Found(b_ident')
  <2>1. (TypeOK /\ Ordered /\ Unique
           => [l \in Blocks |-> FindBuffer(l)] = Lists!Found(b_ident))'
    BY FoundNext
  <2>2. TypeOK' /\ Unique' /\ Ordered'
    BY <1>2 DEF ListsInv, Ordered
  <2>3. [l \in Blocks |-> FindBuffer(l)]' = Lists!Found(b_ident)'
    BY <2>1, <2>2
  <2> QED  BY <2>3 DEF Lists!Found
<1> QED  BY <1>3, <1>5, <1>6, <1>7, <1>8, <1>9 DEF Lists!Take, Lists!NULL, NULL

(* What getblk does to the rings and chains is what BufferLists asks: a    *)
(* lookup finds the block's buffer wherever it is chained, and the buffers *)
(* are tried in the order they were taken.                                 *)
THEOREM ListsCorrect == Spec => ImplementsLists
<1>1. Init => ListsInv /\ Lists!Init
  BY ListsInit
<1>2. ListsInv /\ [Next]_vars => ListsInv'
  <2> SUFFICES ASSUME ListsInv, [Next]_vars  PROVE  ListsInv'
    OBVIOUS
  <2>1. PICK rank \in Rankings : RingFollows(rank) /\ ChainsFollow(rank)
    BY DEF ListsInv, QueuesOK
  <2>2. CASE Next
    <3>1. PICK bh \in Buffers, k \in Blocks : Take(bh, k)
      BY <2>2 DEF Next
    <3>2. TypeOK' /\ Unique'
      BY <3>1, TypeStep, UniqueStep DEF ListsInv
    <3>3. /\ Moved(rank, bh) \in Rankings
          /\ RingFollows(Moved(rank, bh))' /\ ChainsFollow(Moved(rank, bh))'
      BY <2>1, <3>1, QueuesStep DEF ListsInv
    <3> QED  BY <3>2, <3>3 DEF ListsInv, QueuesOK
  <2>3. CASE UNCHANGED vars
    <3>1. RingFollows(rank)' /\ ChainsFollow(rank)'
      BY <2>1, <2>3 DEF RingFollows, ChainsFollow, OnChain, ToLast, ToFirst,
                        vars, idVars, chainVars, ringVars
    <3>2. TypeOK' /\ Unique'
      BY <2>3 DEF ListsInv, TypeOK, Unique, vars, idVars, chainVars, ringVars
    <3> QED  BY <3>1, <3>2 DEF ListsInv, QueuesOK
  <2> QED  BY <2>2, <2>3
<1>3. ListsInv /\ ListsInv' /\ [Next]_vars
        => [Lists!Next]_<<b_ident, FreeOrder, [k \in Blocks |-> FindBuffer(k)]>>
  <2> SUFFICES ASSUME ListsInv, ListsInv', [Next]_vars
               PROVE  [Lists!Next]_<<b_ident, FreeOrder, [k \in Blocks |-> FindBuffer(k)]>>
    OBVIOUS
  <2>1. CASE Next
    <3>1. PICK bh \in Buffers, k \in Blocks : Take(bh, k)
      BY <2>1 DEF Next
    <3>2. Lists!Take(bh, k)
      BY <3>1, TakeIsTake
    <3> QED  BY <3>2 DEF Lists!Next
  <2>2. CASE UNCHANGED vars
    <3>1. b_ident' = b_ident /\ FreeOrder' = FreeOrder
      BY <2>2 DEF FreeOrder, vars, idVars, ringVars
    <3>2. [k \in Blocks |-> FindBuffer(k)]' = [k \in Blocks |-> FindBuffer(k)]
      BY <2>2 DEF FindBuffer, Walk, vars, idVars, chainVars
    <3> QED  BY <3>1, <3>2
  <2> QED  BY <2>1, <2>2
<1> QED  BY <1>1, <1>2, <1>3, PTL DEF Spec, ImplementsLists, Lists!Spec
=============================================================================
