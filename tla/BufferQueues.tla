---------------------------- MODULE BufferQueues ----------------------------
(***************************************************************************)
(* The queues of fs/buffer.c as the pointers they are: the ring of all     *)
(* buffers that starts at free_list, and the doubly linked hash chains.    *)
(* Module BufferCache uses them as BufferLists describes them.             *)
(*                                                                         *)
(* The queues change in one place only, at the end of getblk, where no     *)
(* call sleeps.                                                            *)
(***************************************************************************)
EXTENDS Integers, FiniteSets

CONSTANTS NR_BUFFERS,
          NR_HASH,
          Blocks,     \* pairs (dev, block) with dev # 0
          NoBlock,    \* the identity of a buffer with b_dev = 0
          Hash        \* _hashfn: the chain of each block

ASSUME ConstantsAssumption ==
  /\ NR_BUFFERS \in Nat \ {0}
  /\ NR_HASH \in Nat \ {0}
  /\ NoBlock \notin Blocks
  /\ Hash \in [Blocks -> 0..(NR_HASH - 1)]

Buffers == 1..NR_BUFFERS
NULL == 0
Pointers == Buffers \cup {NULL}

VARIABLES
  b_ident,                    \* b_dev and b_blocknr
  b_next, b_prev,             \* the chain; b_prev[NULL] is memory near address 0
  b_next_free, b_prev_free,   \* the ring
  hash_table, free_list

idVars == <<b_ident>>
chainVars == <<b_next, b_prev, hash_table>>
ringVars == <<b_next_free, b_prev_free, free_list>>
vars == <<idVars, chainVars, ringVars>>

(* buffer_init. *)
Init ==
  /\ b_ident = [b \in Buffers |-> NoBlock]
  /\ b_next = [b \in Buffers |-> NULL]
  /\ b_prev = [b \in Pointers |-> NULL]
  /\ b_next_free = [b \in Buffers |-> IF b = NR_BUFFERS THEN 1 ELSE b + 1]
  /\ b_prev_free = [b \in Buffers |-> IF b = 1 THEN NR_BUFFERS ELSE b - 1]
  /\ hash_table = [h \in 0..(NR_HASH - 1) |-> NULL]
  /\ free_list = 1

-----------------------------------------------------------------------------
(* remove_from_queues(bh) and insert_into_queues(bh) as functions from the *)
(* pointers before to the pointers after.                                  *)

(* Is bh the first of the chain it is on? *)
HeadsChain(bh, table) == b_ident[bh] # NoBlock /\ table[Hash[b_ident[bh]]] = bh

(* Faulty variant: a chain whose first buffer goes keeps pointing to it. *)
UnchainKeepsHead(bh, next, prev, table) ==
  [next  |-> IF prev[bh] # NULL THEN [next EXCEPT ![prev[bh]] = next[bh]] ELSE next,
   prev  |-> IF next[bh] # NULL THEN [prev EXCEPT ![next[bh]] = prev[bh]] ELSE prev,
   table |-> table]

(* bh leaves its chain, if it is on one. *)
Unchain(bh, next, prev, table) ==
  [next  |-> IF prev[bh] # NULL THEN [next EXCEPT ![prev[bh]] = next[bh]] ELSE next,
   prev  |-> IF next[bh] # NULL THEN [prev EXCEPT ![next[bh]] = prev[bh]] ELSE prev,
   table |-> IF HeadsChain(bh, table)
             THEN [table EXCEPT ![Hash[b_ident[bh]]] = next[bh]] ELSE table]

(* Faulty variant: the next buffer is not told who comes before it. *)
ChainOneWay(bh, h, next, prev, table) ==
  [next  |-> [next EXCEPT ![bh] = table[h]],
   prev  |-> [prev EXCEPT ![bh] = NULL],
   table |-> [table EXCEPT ![h] = bh]]

(* bh becomes the first of chain h.  On an empty chain the last assignment *)
(* is to NULL->b_prev.                                                     *)
Chain(bh, h, next, prev, table) ==
  [next  |-> [next EXCEPT ![bh] = table[h]],
   prev  |-> [prev EXCEPT ![bh] = NULL, ![table[h]] = bh],
   table |-> [table EXCEPT ![h] = bh]]

(* Faulty variant: free_list keeps pointing to the buffer that goes. *)
UnringKeepsHead(bh, next, prev, list) ==
  [next |-> [next EXCEPT ![prev[bh]] = next[bh]],
   prev |-> [prev EXCEPT ![next[bh]] = prev[bh]],
   list |-> list]

(* bh leaves the ring. *)
Unring(bh, next, prev, list) ==
  [next |-> [next EXCEPT ![prev[bh]] = next[bh]],
   prev |-> [prev EXCEPT ![next[bh]] = prev[bh]],
   list |-> IF list = bh THEN next[bh] ELSE list]

(* bh comes in before free_list, that is, last. *)
Ring(bh, next, prev, list) ==
  [next |-> [next EXCEPT ![bh] = list, ![prev[list]] = bh],
   prev |-> [prev EXCEPT ![bh] = prev[list], ![list] = bh]]

-----------------------------------------------------------------------------
(* find_buffer: the buffers of a chain in the order of b_next, each place  *)
(* past the end NULL.                                                      *)

Walk(h) ==
  LET at[i \in 1..(NR_BUFFERS + 1)] ==
        IF i = 1 THEN hash_table[h]
        ELSE IF at[i - 1] = NULL THEN NULL ELSE b_next[at[i - 1]]
  IN at

(* The first buffer of its chain that holds k. *)
FindBuffer(k) ==
  LET walk  == Walk(Hash[k])
      holds == {i \in 1..(NR_BUFFERS + 1) : walk[i] # NULL /\ b_ident[walk[i]] = k}
  IN IF holds = {} THEN NULL
     ELSE walk[CHOOSE i \in holds : \A j \in holds : i <= j]

-----------------------------------------------------------------------------
(* The end of getblk: bh is taken for block k, which is not in the cache.  *)
Take(bh, k) ==
  LET loose == Unchain(bh, b_next, b_prev, hash_table)
      chain == Chain(bh, Hash[k], loose.next, loose.prev, loose.table)
      gap   == Unring(bh, b_next_free, b_prev_free, free_list)
      ring  == Ring(bh, gap.next, gap.prev, gap.list)
  IN /\ \A b \in Buffers : b_ident[b] # k
     /\ b_ident' = [b_ident EXCEPT ![bh] = k]
     /\ b_next' = chain.next /\ b_prev' = chain.prev /\ hash_table' = chain.table
     /\ b_next_free' = ring.next /\ b_prev_free' = ring.prev
     /\ free_list' = gap.list

Next == \E bh \in Buffers, k \in Blocks : Take(bh, k)

Spec == Init /\ [][Next]_vars

-----------------------------------------------------------------------------
(* Properties.                                                             *)

(* Every pointer points to a buffer or is NULL; those of the ring are      *)
(* never NULL (remove_from_queues would panic).  The runs check QueuesOK,  *)
(* which leaves no pointer of the ring or a chain without its buffer; the  *)
(* proofs need both.                                                       *)
TypeOK ==
  /\ b_ident \in [Buffers -> Blocks \cup {NoBlock}]
  /\ b_next \in [Buffers -> Pointers] /\ b_prev \in [Pointers -> Pointers]
  /\ b_next_free \in [Buffers -> Buffers] /\ b_prev_free \in [Buffers -> Buffers]
  /\ hash_table \in [0..(NR_HASH - 1) -> Pointers]
  /\ free_list \in Buffers

(* A place on the ring for each buffer; free_list is at place 1. *)
Rankings ==
  {rank \in [Buffers -> Buffers] : \A b, c \in Buffers : rank[b] = rank[c] => b = c}

After(i) == IF i = NR_BUFFERS THEN 1 ELSE i + 1
Before(i) == IF i = 1 THEN NR_BUFFERS ELSE i - 1

RingFollows(rank) ==
  /\ rank[free_list] = 1
  /\ \A b \in Buffers : /\ rank[b_next_free[b]] = After(rank[b])
                        /\ rank[b_prev_free[b]] = Before(rank[b])

OnChain(h) == {b \in Buffers : b_ident[b] # NoBlock /\ Hash[b_ident[b]] = h}

(* ptr points to the last, to the first, of the buffers S; to none if S is *)
(* empty.                                                                  *)
ToLast(ptr, S, rank) ==
  IF S = {} THEN ptr = NULL ELSE ptr \in S /\ \A c \in S : rank[c] <= rank[ptr]
ToFirst(ptr, S, rank) ==
  IF S = {} THEN ptr = NULL ELSE ptr \in S /\ \A c \in S : rank[ptr] <= rank[c]

ChainsFollow(rank) ==
  /\ \A h \in 0..(NR_HASH - 1) :
       /\ ToLast(hash_table[h], OnChain(h), rank)
       /\ \A b \in OnChain(h) :
            /\ ToLast(b_next[b], {c \in OnChain(h) : rank[c] < rank[b]}, rank)
            /\ ToFirst(b_prev[b], {c \in OnChain(h) : rank[b] < rank[c]}, rank)
  /\ \A b \in Buffers : b_ident[b] = NoBlock => b_next[b] = NULL /\ b_prev[b] = NULL

(* The ring goes from free_list through every buffer, once, and back, the  *)
(* same way in both directions; and every hash chain holds exactly the     *)
(* buffers whose block hashes to it, once each, linked in both directions, *)
(* the one taken last first: the reverse of their order on the ring.       *)
QueuesOK == \E rank \in Rankings : RingFollows(rank) /\ ChainsFollow(rank)

(* A lookup finds the buffer that holds the block, and the ring is the     *)
(* queue of BufferLists, whatever the hash function.                       *)
FreeOrder ==
  LET at[i \in Buffers] == IF i = 1 THEN free_list ELSE b_next_free[at[i - 1]]
  IN at
Lists == INSTANCE BufferLists WITH order <- FreeOrder,
                                   found <- [k \in Blocks |-> FindBuffer(k)]
ImplementsLists == Lists!Spec
=============================================================================
