---------------------------- MODULE MCBufferCache ----------------------------
(* Small instances of the buffer cache for TLC. *)
EXTENDS BufferCache

(* One block on each of two devices. *)
OnePerDevice == {<<1, 1>>, <<2, 1>>}

(* Three blocks of one device. *)
OneDevice == {1} \X (1..3)

(* Every inode is in the first block of device 1. *)
InFirstBlock == [i \in Inodes |-> <<1, 1>>]

(* Two inodes, each on a device of its own. *)
OnOwnDevice == [i \in Inodes |-> <<i, 1>>]

Chosen == CHOOSE p \in Procs : TRUE

(* One process reads ahead and changes blocks, the other changes and writes *)
(* inodes, which reads and changes the blocks these are in.                *)
EvictOps ==
  [p \in Procs |-> IF p = Chosen THEN {"breada", "modify"} ELSE {"chmod", "write_inode"}]

(* One process changes and writes inodes, the other overwrites blocks and   *)
(* syncs; both read and change blocks.                                     *)
ShareOps ==
  [p \in Procs |-> IF p = Chosen THEN {"bread", "modify", "chmod", "write_inode"}
                   ELSE {"bread", "modify", "overwrite", "sync"}]
=============================================================================
