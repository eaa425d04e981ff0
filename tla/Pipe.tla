-------------------------------- MODULE Pipe --------------------------------
(***************************************************************************)
(* A pipe of fs/pipe.c, shared by the processes that hold its ends.        *)
(*                                                                         *)
(* The code runs without interruption from one sleep_on to the next; cpu   *)
(* is the process inside such a stretch, so that the loops of read_pipe    *)
(* and write_pipe can be taken one chunk at a time.                        *)
(***************************************************************************)
EXTENDS Integers, Sequences, FiniteSets

CONSTANTS PAGE_SIZE,    \* size of the buffer, a power of two
          Procs,        \* the processes the pipe was inherited by
          Inherited,    \* the ends each of them has
          Counts,       \* the counts a read or write may ask for
          Stamps,       \* the bytes written are 0, 1 ... modulo this
          UserFaults    \* may get_fs_byte and put_fs_byte sleep?

ASSUME ConstantsAssumption ==
  /\ PAGE_SIZE \in Nat \ {0, 1}
  /\ IsFiniteSet(Procs)
  /\ Inherited \in [Procs -> SUBSET {"r", "w"}]
  /\ \A end \in {"r", "w"} : \E p \in Procs : end \in Inherited[p]
  /\ Counts \subseteq Nat \ {0} /\ IsFiniteSet(Counts)
  /\ Stamps \in Nat \ {0}
  /\ UserFaults \in BOOLEAN
  /\ "none" \notin Procs

Ends == {"r", "w"}
Cells == 0..(PAGE_SIZE - 1)
Byte == 0..(Stamps - 1)
NoProc == "none"

VARIABLES
  head, tail,   \* PIPE_HEAD, PIPE_TAIL
  buf,          \* the page
  i_count,
  ends,         \* the ends each process has open
  cpu,
  pc,
  count,        \* bytes the call has still to move
  start, chars, \* the chunk being copied
  stamp,        \* the next byte to be written
  out           \* the chunk just handed to a reader

pipeVars == <<head, tail, buf, stamp, out>>
callVars == <<count, start, chars>>
vars == <<pipeVars, i_count, ends, cpu, pc, callVars>>

Size == (head - tail) % PAGE_SIZE

(* sys_pipe, then fork and close: some processes have one end, some both. *)
Init ==
  /\ head = 0 /\ tail = 0
  /\ buf = [c \in Cells |-> 0]
  /\ i_count = 2
  /\ ends = Inherited
  /\ cpu = NoProc
  /\ pc = [p \in Procs |-> "idle"]
  /\ count = [p \in Procs |-> 0]
  /\ start = [p \in Procs |-> 0]
  /\ chars = [p \in Procs |-> 0]
  /\ stamp = 0
  /\ out = <<>>

Runs(p) == cpu \in {NoProc, p}

(* p goes to label; wake_up(&i_wait) lets all who sleep there go on. *)
Woken(label) ==
  IF label = "read_sleep" THEN "read" ELSE IF label = "write_sleep" THEN "write" ELSE label

WakeAndGoto(p, label) == pc' = [q \in Procs |-> IF q = p THEN label ELSE Woken(pc[q])]

-----------------------------------------------------------------------------
(* sys_read, sys_write or sys_close on a descriptor of the pipe.           *)

Call(p, label, end) ==
  /\ Runs(p) /\ pc[p] = "idle" /\ end \in ends[p]
  /\ \E n \in Counts : count' = [count EXCEPT ![p] = n]
  /\ pc' = [pc EXCEPT ![p] = label]
  /\ cpu' = p
  /\ UNCHANGED <<pipeVars, i_count, ends, start, chars>>

(* Faulty variant: nobody is woken. *)
CloseNoWakeUp(p, end) ==
  /\ Runs(p) /\ pc[p] = "idle" /\ end \in ends[p]
  /\ ends' = [ends EXCEPT ![p] = @ \ {end}]
  /\ i_count' = IF \E q \in Procs \ {p} : end \in ends[q] THEN i_count ELSE i_count - 1
  /\ UNCHANGED <<pipeVars, cpu, pc, callVars>>

(* sys_close; the last process to close an end puts the inode (iput). *)
Close(p, end) ==
  /\ Runs(p) /\ pc[p] = "idle" /\ end \in ends[p]
  /\ ends' = [ends EXCEPT ![p] = @ \ {end}]
  /\ IF \E q \in Procs \ {p} : end \in ends[q]
     THEN UNCHANGED <<pc, i_count>>
     ELSE WakeAndGoto(p, "idle") /\ i_count' = i_count - 1
  /\ UNCHANGED <<pipeVars, cpu, callVars>>

Smallest(S) == CHOOSE n \in S : \A m \in S : n <= m

-----------------------------------------------------------------------------
(* read_pipe.                                                              *)

ReadReturns(p) ==
  /\ WakeAndGoto(p, "idle")
  /\ cpu' = NoProc
  /\ count' = [count EXCEPT ![p] = 0]

(* Faulty variant: a reader that waits wakes nobody. *)
ReadSleepsNoWakeUp(p) ==
  /\ pc' = [pc EXCEPT ![p] = "read_sleep"]
  /\ cpu' = NoProc
  /\ UNCHANGED count

ReadSleeps(p) ==
  /\ WakeAndGoto(p, "read_sleep")
  /\ cpu' = NoProc
  /\ UNCHANGED count

(* Faulty variant: the chunk may run over the end of the page. *)
ReadChunkOver(p) ==
  LET n == Smallest({PAGE_SIZE - tail + 1, count[p], Size}) IN
  /\ count' = [count EXCEPT ![p] = @ - n]
  /\ start' = [start EXCEPT ![p] = tail]
  /\ chars' = [chars EXCEPT ![p] = n]
  /\ tail' = (tail + n) % PAGE_SIZE
  /\ pc' = [pc EXCEPT ![p] = "copy_out"]
  /\ cpu' = IF UserFaults THEN NoProc ELSE p

(* The tail moves before the bytes are copied. *)
ReadChunk(p) ==
  LET n == Smallest({PAGE_SIZE - tail, count[p], Size}) IN
  /\ count' = [count EXCEPT ![p] = @ - n]
  /\ start' = [start EXCEPT ![p] = tail]
  /\ chars' = [chars EXCEPT ![p] = n]
  /\ tail' = (tail + n) % PAGE_SIZE
  /\ pc' = [pc EXCEPT ![p] = "copy_out"]
  /\ cpu' = IF UserFaults THEN NoProc ELSE p

(* One turn of the loop. *)
ReadPipe(p) ==
  /\ Runs(p) /\ pc[p] = "read"
  /\ IF count[p] = 0 \/ (Size = 0 /\ i_count # 2)
     THEN ReadReturns(p) /\ UNCHANGED <<tail, start, chars>>
     ELSE IF Size = 0
     THEN ReadSleeps(p) /\ UNCHANGED <<tail, start, chars>>
     ELSE ReadChunk(p)
  /\ out' = <<>>
  /\ UNCHANGED <<head, buf, i_count, ends, stamp>>

CopyOut(p) ==
  /\ Runs(p) /\ pc[p] = "copy_out"
  /\ out' = [j \in 1..chars[p] |-> buf[start[p] + j - 1]]
  /\ start' = [start EXCEPT ![p] = 0]
  /\ chars' = [chars EXCEPT ![p] = 0]
  /\ pc' = [pc EXCEPT ![p] = "read"]
  /\ cpu' = p
  /\ UNCHANGED <<head, tail, buf, stamp, i_count, ends, count>>

-----------------------------------------------------------------------------
(* write_pipe.                                                             *)

(* With nobody left to read: SIGPIPE, and what was written or -1. *)
WriteReturns(p) ==
  /\ WakeAndGoto(p, "idle")
  /\ cpu' = NoProc
  /\ count' = [count EXCEPT ![p] = 0]

WriteSleeps(p) ==
  /\ WakeAndGoto(p, "write_sleep")
  /\ cpu' = NoProc
  /\ UNCHANGED count

(* Faulty variant: the page may be filled to its last byte. *)
WriteChunkFull(p) ==
  LET n == Smallest({PAGE_SIZE - head, count[p], PAGE_SIZE - Size}) IN
  /\ count' = [count EXCEPT ![p] = @ - n]
  /\ start' = [start EXCEPT ![p] = head]
  /\ chars' = [chars EXCEPT ![p] = n]
  /\ head' = (head + n) % PAGE_SIZE
  /\ pc' = [pc EXCEPT ![p] = "copy_in"]
  /\ cpu' = IF UserFaults THEN NoProc ELSE p

WriteChunk(p) ==
  LET n == Smallest({PAGE_SIZE - head, count[p], (PAGE_SIZE - 1) - Size}) IN
  /\ count' = [count EXCEPT ![p] = @ - n]
  /\ start' = [start EXCEPT ![p] = head]
  /\ chars' = [chars EXCEPT ![p] = n]
  /\ head' = (head + n) % PAGE_SIZE
  /\ pc' = [pc EXCEPT ![p] = "copy_in"]
  /\ cpu' = IF UserFaults THEN NoProc ELSE p

(* One turn of the loop. *)
WritePipe(p) ==
  /\ Runs(p) /\ pc[p] = "write"
  /\ IF count[p] = 0 \/ (Size = PAGE_SIZE - 1 /\ i_count # 2)
     THEN WriteReturns(p) /\ UNCHANGED <<head, start, chars>>
     ELSE IF Size = PAGE_SIZE - 1
     THEN WriteSleeps(p) /\ UNCHANGED <<head, start, chars>>
     ELSE WriteChunk(p)
  /\ UNCHANGED <<tail, buf, i_count, ends, stamp, out>>

CopyIn(p) ==
  /\ Runs(p) /\ pc[p] = "copy_in"
  /\ buf' = [c \in Cells |-> IF c \in start[p]..(start[p] + chars[p] - 1)
                             THEN (stamp + c - start[p]) % Stamps ELSE buf[c]]
  /\ stamp' = (stamp + chars[p]) % Stamps
  /\ start' = [start EXCEPT ![p] = 0]
  /\ chars' = [chars EXCEPT ![p] = 0]
  /\ pc' = [pc EXCEPT ![p] = "write"]
  /\ cpu' = p
  /\ UNCHANGED <<head, tail, out, i_count, ends, count>>

-----------------------------------------------------------------------------
Continue(p) == ReadPipe(p) \/ CopyOut(p) \/ WritePipe(p) \/ CopyIn(p)

Next ==
  \E p \in Procs :
    \/ Call(p, "read", "r") \/ Call(p, "write", "w")
    \/ \E end \in Ends : Close(p, end)
    \/ Continue(p)

Spec == Init /\ [][Next]_vars

(* The scheduler passes over no process for ever that is ready to run each *)
(* time the processor is given up.                                         *)
FairSpec == Spec /\ \A p \in Procs : SF_vars(Continue(p))

-----------------------------------------------------------------------------
(* Properties.                                                             *)

Labels == {"idle", "read", "write", "copy_out", "copy_in", "read_sleep", "write_sleep"}

(* Every variable holds a value of its type; a chunk lies inside the page; *)
(* i_count is the number of ends some process has open.                    *)
TypeOK ==
  /\ head \in Cells /\ tail \in Cells
  /\ buf \in [Cells -> Byte] /\ stamp \in Byte
  /\ ends \in [Procs -> SUBSET Ends]
  /\ i_count = Cardinality(UNION {ends[p] : p \in Procs})
  /\ cpu \in Procs \cup {NoProc}
  /\ pc \in [Procs -> Labels]
  /\ count \in [Procs -> Nat] /\ \A p \in Procs : count[p] = 0 \/ \E n \in Counts : count[p] <= n
  /\ start \in [Procs -> Cells] /\ chars \in [Procs -> 0..PAGE_SIZE]
  /\ \A p \in Procs : start[p] + chars[p] <= PAGE_SIZE
  /\ out \in Seq(Byte)

(* Nobody sleeps who could go on: a reader sleeps only while the pipe is   *)
(* empty, a writer only while it is full, both only while both ends are    *)
(* open.  The one i_wait serves readers and writers.                       *)
NoLostWakeup ==
  cpu = NoProc =>
    \A p \in Procs :
      /\ pc[p] = "read_sleep" => Size = 0 /\ i_count = 2
      /\ pc[p] = "write_sleep" => Size = PAGE_SIZE - 1 /\ i_count = 2

(* A call on a pipe with an end closed returns, at end of file or with     *)
(* SIGPIPE.                                                                *)
CallsEndWhenClosed ==
  \A p \in Procs : (pc[p] # "idle" /\ i_count # 2) ~> pc[p] = "idle"

(* The bytes in the pipe: those a reader is copying are still in it, those *)
(* a writer is copying are not yet.                                        *)
Leaving == {p \in Procs : pc[p] = "copy_out"}
Arriving == {p \in Procs : pc[p] = "copy_in"}
Contents ==
  LET first  == IF Leaving = {} THEN tail ELSE start[CHOOSE p \in Leaving : TRUE]
      number == (  Size + (IF Leaving = {} THEN 0 ELSE chars[CHOOSE p \in Leaving : TRUE]))
                 - (IF Arriving = {} THEN 0 ELSE chars[CHOOSE p \in Arriving : TRUE])
  IN  [j \in 1..number |-> buf[(first + j - 1) % PAGE_SIZE]]

(* The pipe is a stream: bytes come out once each, in the order they went  *)
(* in, across the wrap of the page and however calls interleave.           *)
Stream == INSTANCE PipeStream WITH stream <- Contents, Capacity <- PAGE_SIZE - 1
IsStream == Stream!Spec
=============================================================================
