------------------------------ MODULE OpenFiles ------------------------------
(***************************************************************************)
(* Open files: the descriptors of each process, the file_table they share  *)
(* and the references it holds on inodes.  sys_open, sys_close             *)
(* (fs/open.c), sys_dup, sys_dup2, sys_fcntl (fs/fcntl.c) and sys_pipe     *)
(* (fs/pipe.c).  A step of a process goes from one sleep to the next; the  *)
(* walk of open_namei is one sleep that ends with an inode or without.     *)
(* Exec.tla adds the program a process runs.                               *)
(***************************************************************************)
EXTENDS Integers, FiniteSets, FiniteSetsExt

CONSTANTS Procs,
          NR_OPEN,    \* descriptors of a process (20)
          NR_FILE,    \* entries of file_table (64)
          PAST,       \* words past its end that sys_pipe may take for entries
          Inodes,     \* of the inode table
          None,       \* no inode
          Scenarios   \* the calls each process makes: a set of functions from
                      \* Procs, one for a behaviour

ASSUME OpenFilesAssumption ==
    /\ IsFiniteSet(Procs)
    /\ NR_OPEN \in Nat \ {0} /\ NR_FILE \in Nat \ {0} /\ PAST \in Nat
    /\ None \notin Inodes
    /\ Scenarios \subseteq
           [Procs -> SUBSET {"open", "close", "dup", "dup2", "fcntl", "pipe", "execve"}]

VARIABLES f_count, f_inode,   \* of each file
          filp,               \* filp[p][fd]: a file, or 0
          close_on_exec,      \* close_on_exec[p]: a set of descriptors
          i_count,            \* of each inode
          calls,              \* the scenario
          pc, loc             \* where a process is, and its local variables:
                              \* fd and arg; f, the descriptors and files it
                              \* is opening; inode; put, the inode in iput,
                              \* and then, where it goes on after that

files == <<f_count, f_inode>>
descriptors == <<filp, close_on_exec>>
openVars == <<files, descriptors, i_count, pc, loc>>

Table == 1 .. NR_FILE
Files == 1 .. NR_FILE + PAST
Fds == 0 .. NR_OPEN - 1
NoLoc == [fd |-> 0, arg |-> 0, f |-> <<>>, inode |-> None, put |-> None,
          then |-> "idle", sh_bang |-> FALSE]

OpenInit ==
    /\ f_count = [f \in Files |-> 0]
    /\ f_inode = [f \in Files |-> None]
    /\ filp = [p \in Procs |-> [fd \in Fds |-> 0]]
    /\ close_on_exec = [p \in Procs |-> {}]
    /\ i_count = [i \in Inodes |-> 0]
    /\ pc = [p \in Procs |-> "idle"]
    /\ loc = [p \in Procs |-> NoLoc]
    /\ calls \in Scenarios

Goto(p, label) == pc' = [pc EXCEPT ![p] = label]
May(p, call) == pc[p] = "idle" /\ call \in calls[p]
Done(p) == Goto(p, "idle") /\ loc' = [loc EXCEPT ![p] = NoLoc]

Open(p) == {fd \in Fds : filp[p][fd] # 0}
FreeFds(p) == Fds \ Open(p)
FreeFiles == {f \in Files : f_count[f] = 0}
Unflag(p, fd) == close_on_exec' = [close_on_exec EXCEPT ![p] = @ \ {fd}]

(***************************************************************************)
(* sys_open takes the first free descriptor and the first free file, and   *)
(* only then looks the name up, asleep.                                    *)
(***************************************************************************)
sys_open(p) ==
    /\ May(p, "open") /\ FreeFds(p) # {}
    /\ LET fd == Min(FreeFds(p))
           f == Min(FreeFiles)
       IN /\ Unflag(p, fd)
          /\ IF FreeFiles \intersect Table = {}
             THEN UNCHANGED <<f_count, filp, pc, loc>>
             ELSE /\ filp' = [filp EXCEPT ![p][fd] = f]
                  /\ f_count' = [f_count EXCEPT ![f] = @ + 1]
                  /\ loc' = [loc EXCEPT ![p].f = <<<<fd, f>>>>]
                  /\ Goto(p, "open_namei")
    /\ UNCHANGED <<f_inode, i_count>>

\* Faulty variant: the descriptor is given back, the file is not.
GiveBackKeepsCount(p) ==
    /\ filp' = [filp EXCEPT ![p] = [fd \in Fds |->
           IF \E k \in DOMAIN loc[p].f : loc[p].f[k][1] = fd THEN 0 ELSE @[fd]]]
    /\ UNCHANGED f_count

\* A call that fails gives back every descriptor and file it had taken.
GiveBack(p) ==
    LET taken == {loc[p].f[k] : k \in DOMAIN loc[p].f} IN
    /\ filp' = [filp EXCEPT ![p] = [fd \in Fds |->
           IF \E t \in taken : t[1] = fd THEN 0 ELSE @[fd]]]
    /\ f_count' = [f \in Files |-> IF \E t \in taken : t[2] = f THEN 0 ELSE f_count[f]]

\* open_namei has failed; or it has an inode, and check_disk_change may sleep
\* before the file gets it.  MAJOR(i_zone[0] == 5) is MAJOR of 0 or of 1: the
\* exit for a process without a terminal that opens /dev/tty is never taken.
OpenFails(p) ==
    /\ pc[p] = "open_namei"
    /\ GiveBack(p)
    /\ Done(p)
    /\ UNCHANGED <<f_inode, close_on_exec, i_count>>

open_namei(p) ==
    /\ pc[p] = "open_namei"
    /\ \E i \in Inodes : /\ i_count' = [i_count EXCEPT ![i] = @ + 1]
                         /\ loc' = [loc EXCEPT ![p].inode = i]
    /\ Goto(p, "opened")
    /\ UNCHANGED <<files, descriptors>>

Opened(p) ==
    LET f == loc[p].f[1][2] IN
    /\ pc[p] = "opened"
    /\ f_count' = [f_count EXCEPT ![f] = 1]
    /\ f_inode' = [f_inode EXCEPT ![f] = loc[p].inode]
    /\ Done(p)
    /\ UNCHANGED <<descriptors, i_count>>

(***************************************************************************)
(* sys_close, also the first half of sys_dup2 and a step of do_execve: the *)
(* last reference to a file goes before iput, which may sleep, is called   *)
(* with its inode.  The process goes on at `then' with the variables l.    *)
(***************************************************************************)
\* Faulty variant: the flag of the descriptor stays.
CloseKeepsFlag(p, fd, then, l) ==
    LET f == filp[p][fd] IN
    /\ UNCHANGED close_on_exec
    /\ filp' = [filp EXCEPT ![p][fd] = 0]
    /\ IF f = 0
       THEN Goto(p, then) /\ loc' = [loc EXCEPT ![p] = l] /\ UNCHANGED f_count
       ELSE /\ f_count' = [f_count EXCEPT ![f] = @ - 1]
            /\ IF f_count[f] > 1
               THEN Goto(p, then) /\ loc' = [loc EXCEPT ![p] = l]
               ELSE /\ loc' = [loc EXCEPT ![p] = [l EXCEPT !.put = f_inode[f], !.then = then]]
                    /\ Goto(p, "iput")

Close(p, fd, then, l) ==
    LET f == filp[p][fd] IN
    /\ Unflag(p, fd)
    /\ filp' = [filp EXCEPT ![p][fd] = 0]
    /\ IF f = 0
       THEN Goto(p, then) /\ loc' = [loc EXCEPT ![p] = l] /\ UNCHANGED f_count
       ELSE /\ f_count' = [f_count EXCEPT ![f] = @ - 1]
            /\ IF f_count[f] > 1
               THEN Goto(p, then) /\ loc' = [loc EXCEPT ![p] = l]
               ELSE /\ loc' = [loc EXCEPT ![p] = [l EXCEPT !.put = f_inode[f], !.then = then]]
                    /\ Goto(p, "iput")

sys_close(p) ==
    /\ May(p, "close")
    /\ \E fd \in Open(p) : Close(p, fd, "idle", NoLoc)
    /\ UNCHANGED <<f_inode, i_count>>

\* iput has slept for the inode's lock.
iput(p) ==
    /\ pc[p] = "iput"
    /\ i_count' = [i_count EXCEPT ![loc[p].put] = @ - 1]
    /\ IF loc[p].then = "idle" THEN Done(p)
       ELSE /\ Goto(p, loc[p].then)
            /\ loc' = [loc EXCEPT ![p].put = None, ![p].then = "idle"]
    /\ UNCHANGED <<files, descriptors>>

(***************************************************************************)
(* dupfd gives a file one more descriptor, at arg or above.  sys_dup2      *)
(* closes newfd first, even when it is oldfd or oldfd is not open.         *)
(***************************************************************************)
dupfd(p, fd, arg) ==
    LET free == {x \in FreeFds(p) : x >= arg} IN
    IF fd \notin Open(p) \/ free = {} THEN UNCHANGED <<filp, close_on_exec, f_count>>
    ELSE /\ Unflag(p, Min(free))
         /\ filp' = [filp EXCEPT ![p][Min(free)] = filp[p][fd]]
         /\ f_count' = [f_count EXCEPT ![filp[p][fd]] = @ + 1]

\* sys_dup (arg = 0) and F_DUPFD.
Dup(p) ==
    /\ May(p, "dup")
    /\ \E fd \in Open(p), arg \in Fds : dupfd(p, fd, arg)
    /\ UNCHANGED <<f_inode, i_count, pc, loc>>

sys_dup2(p) ==
    /\ May(p, "dup2")
    /\ \E oldfd, newfd \in Fds :
          Close(p, newfd, "dupfd", [NoLoc EXCEPT !.fd = oldfd, !.arg = newfd])
    /\ UNCHANGED <<f_inode, i_count>>

Dup2Done(p) ==
    /\ pc[p] = "dupfd"
    /\ dupfd(p, loc[p].fd, loc[p].arg)
    /\ Done(p)
    /\ UNCHANGED <<f_inode, i_count>>

\* F_SETFD of an open descriptor.
sys_fcntl(p) ==
    /\ May(p, "fcntl")
    /\ \E fd \in Open(p) :
          \/ close_on_exec' = [close_on_exec EXCEPT ![p] = @ \union {fd}]
          \/ Unflag(p, fd)
    /\ UNCHANGED <<files, filp, i_count, pc, loc>>

(***************************************************************************)
(* sys_pipe takes the first two free files, past the end of file_table     *)
(* when the table has less, and the first two free descriptors, whose      *)
(* flags it leaves as they are.                                            *)
(***************************************************************************)
Second(S) == Min(S \ {Min(S)})

sys_pipe(p) ==
    /\ May(p, "pipe")
    /\ Cardinality(FreeFiles) >= 2 /\ Cardinality(FreeFds(p)) >= 2
    /\ LET f == <<Min(FreeFiles), Second(FreeFiles)>>
           fd == <<Min(FreeFds(p)), Second(FreeFds(p))>>
       IN /\ f_count' = [f_count EXCEPT ![f[1]] = 1, ![f[2]] = 1]
          /\ filp' = [filp EXCEPT ![p][fd[1]] = f[1], ![p][fd[2]] = f[2]]
          /\ loc' = [loc EXCEPT ![p].f = <<<<fd[1], f[1]>>, <<fd[2], f[2]>>>>]
    /\ Goto(p, "get_pipe_inode")
    /\ UNCHANGED <<f_inode, close_on_exec, i_count>>

PipeFails(p) ==
    /\ pc[p] = "get_pipe_inode"
    /\ GiveBack(p)
    /\ Done(p)
    /\ UNCHANGED <<f_inode, close_on_exec, i_count>>

\* get_pipe_inode returns an inode nobody had, counted for both ends.
PipeMade(p) ==
    /\ pc[p] = "get_pipe_inode"
    /\ \E i \in Inodes :
          /\ i_count[i] = 0
          /\ i_count' = [i_count EXCEPT ![i] = 2]
          /\ f_inode' = [f \in Files |->
                 IF \E k \in 1 .. 2 : loc[p].f[k][2] = f THEN i ELSE f_inode[f]]
    /\ Done(p)
    /\ UNCHANGED <<f_count, descriptors>>

OpenStep(p) ==
    \/ sys_open(p) \/ OpenFails(p) \/ open_namei(p) \/ Opened(p)
    \/ sys_close(p) \/ iput(p)
    \/ Dup(p) \/ sys_dup2(p) \/ Dup2Done(p) \/ sys_fcntl(p)
    \/ sys_pipe(p) \/ PipeFails(p) \/ PipeMade(p)
=============================================================================
