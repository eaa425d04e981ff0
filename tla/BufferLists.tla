----------------------------- MODULE BufferLists -----------------------------
(* What getblk needs of the queues of fs/buffer.c: every block of the cache *)
(* is found, in one buffer, and the buffers are tried in the order in which *)
(* they were last given to a block.                                         *)
EXTENDS Integers

CONSTANTS Buffers, Blocks, NoBlock

VARIABLES
  b_ident,   \* the block each buffer holds
  order,     \* the buffers, that given away longest ago first
  found      \* for each block the buffer a lookup returns

NULL == 0

Found(ident) ==
  [k \in Blocks |-> IF \E b \in Buffers : ident[b] = k
                    THEN CHOOSE b \in Buffers : ident[b] = k ELSE NULL]

Init ==
  /\ b_ident = [b \in Buffers |-> NoBlock]
  /\ order = [i \in Buffers |-> i]
  /\ found = [k \in Blocks |-> NULL]

(* Buffer b, wherever it is on the list, is given to block k. *)
Take(b, k) ==
  /\ found[k] = NULL
  /\ b_ident' = [b_ident EXCEPT ![b] = k]
  /\ \E at \in Buffers :
       /\ order[at] = b
       /\ order' = [i \in Buffers |-> IF i < at THEN order[i]
                                      ELSE IF i + 1 \in Buffers THEN order[i + 1] ELSE b]
  /\ found' = Found(b_ident')

Next == \E b \in Buffers, k \in Blocks : Take(b, k)

Spec == Init /\ [][Next]_<<b_ident, order, found>>
=============================================================================
