---------------------------- MODULE MCInodeTable ----------------------------
(* Small instances of the inode table for TLC. *)
EXTENDS InodeTable, TLC

CONSTANTS p1, p2, a, b, c, m, r

(* One process creates and unlinks a file that only it names, syncs, and   *)
(* closes the block special file b; the other changes the file c that they *)
(* share, and has pipes.                                                   *)
ShareOps == (p1 :> {"iget", "create", "unlink", "sync"}) @@ (p2 :> {"iget", "modify", "pipe"})
ShareNames == (p1 :> {a, b, c}) @@ (p2 :> {c})
ShareFds == (p1 :> {1}) @@ (p2 :> {1, 2})

(* The same without pipes; both also come to the root r of a mounted file  *)
(* system through its mount point m.                                       *)
MountOps == (p1 :> {"iget", "create", "unlink", "sync"}) @@ (p2 :> {"iget", "modify"})
MountNames == (p1 :> {a, b, c, m}) @@ (p2 :> {c, m})

(* Both look up and unlink the same file. *)
RaceOps == [p \in Procs |-> {"iget", "create", "unlink"}]
RaceNames == [p \in Procs |-> {a}]

OneFd == [p \in Procs |-> {1}]
=============================================================================
