--------------------------------- MODULE Exec ---------------------------------
(***************************************************************************)
(* do_execve (fs/exec.c) and the open files of the processes that call it: *)
(* the program's inode, an interpreter's after "#!", the pages the strings *)
(* of the new program are copied to, and what a call that fails gives      *)
(* back.  put_page and free_page_tables, which the repository does not     *)
(* have, move pages between the address space of a process and the rest.   *)
(***************************************************************************)
EXTENDS OpenFiles

CONSTANTS Pages,     \* the page frames of mm/memory.c
          ARG_PAGES  \* the most the strings of a call take (MAX_ARG_PAGE, 32)

ASSUME ExecAssumption == IsFiniteSet(Pages) /\ ARG_PAGES \in Nat

VARIABLES executable,   \* executable[p]: an inode, or None
          page,         \* page[p]: the pages of do_execve's own array
          space,        \* space[p]: the pages of p's address space
          mem_map       \* how often each page is in use

execVars == <<executable, page, space, mem_map>>
vars == <<openVars, execVars, calls>>

Init ==
    /\ OpenInit
    /\ executable = [p \in Procs |-> None]
    /\ page = [p \in Procs |-> {}]
    /\ space = [p \in Procs |-> {}]
    /\ mem_map = [g \in Pages |-> 0]

free_pages(S) == mem_map' = [g \in Pages |-> IF g \in S THEN mem_map[g] - 1 ELSE mem_map[g]]

\* Faulty variant: a copy that runs out of pages forgets those it got.
CopyForgetsPages(p, Copied, Full) ==
    LET free == {g \in Pages : mem_map[g] = 0} IN
    \E n \in 0 .. ARG_PAGES :
        \E S \in kSubset(Min({n, Cardinality(free)}), free) :
            /\ mem_map' = [g \in Pages |-> IF g \in S THEN 1 ELSE mem_map[g]]
            /\ page' = [page EXCEPT ![p] = IF Cardinality(S) = n THEN @ \union S ELSE @]
            /\ IF Cardinality(S) = n THEN Copied ELSE Full

\* The calls of copy_strings for the strings of one program: they take as many
\* pages as those need, or all there are.
copy_strings(p, Copied, Full) ==
    LET free == {g \in Pages : mem_map[g] = 0} IN
    \E n \in 0 .. ARG_PAGES :
        \E S \in kSubset(Min({n, Cardinality(free)}), free) :
            /\ mem_map' = [g \in Pages |-> IF g \in S THEN 1 ELSE mem_map[g]]
            /\ page' = [page EXCEPT ![p] = @ \union S]
            /\ IF Cardinality(S) = n THEN Copied ELSE Full

\* iput(i), asleep, and then `then'.
Put(p, i, then, l) ==
    /\ loc' = [loc EXCEPT ![p] = [l EXCEPT !.put = i, !.then = then]]
    /\ Goto(p, "iput")

\* exec_error2 puts the program back, exec_error1 frees the pages.
exec_error2(p) ==
    Put(p, loc[p].inode, "exec_error1", [loc[p] EXCEPT !.inode = None])

exec_error1(p) ==
    /\ pc[p] = "exec_error1"
    /\ free_pages(page[p])
    /\ page' = [page EXCEPT ![p] = {}]
    /\ Done(p)
    /\ UNCHANGED <<files, descriptors, i_count, executable, space>>

\* namei has the program's inode; bread of its first block comes next.  A call
\* whose name is not found changes nothing, and is left out.
do_execve(p) ==
    /\ May(p, "execve")
    /\ \E i \in Inodes : /\ i_count' = [i_count EXCEPT ![i] = @ + 1]
                         /\ loc' = [loc EXCEPT ![p].inode = i]
    /\ Goto(p, "bread")
    /\ UNCHANGED <<files, descriptors, execVars>>

\* The inode is no regular file or may not be executed, bread fails, or the
\* header is not one of a program.
NotExecutable(p) ==
    /\ pc[p] = "bread"
    /\ exec_error2(p)
    /\ UNCHANGED <<files, descriptors, i_count, execVars>>

\* A script: its inode goes before its first line is looked at.
Script(p) ==
    /\ pc[p] = "bread" /\ ~loc[p].sh_bang
    /\ Put(p, loc[p].inode, "sh_bang", [loc[p] EXCEPT !.inode = None, !.sh_bang = TRUE])
    /\ UNCHANGED <<files, descriptors, i_count, execVars>>

\* No interpreter is named.
BadScript(p) ==
    /\ pc[p] = "sh_bang"
    /\ Goto(p, "exec_error1")
    /\ UNCHANGED <<files, descriptors, i_count, loc, execVars>>

ScriptStrings(p) ==
    /\ pc[p] = "sh_bang"
    /\ copy_strings(p, Goto(p, "namei"), Goto(p, "exec_error1"))
    /\ UNCHANGED <<files, descriptors, i_count, loc, executable, space>>

\* restart_interp, with the interpreter's inode or without.
Interpreter(p) ==
    /\ pc[p] = "namei"
    /\ \/ /\ \E i \in Inodes : /\ i_count' = [i_count EXCEPT ![i] = @ + 1]
                               /\ loc' = [loc EXCEPT ![p].inode = i]
          /\ Goto(p, "bread")
       \/ Goto(p, "exec_error1") /\ UNCHANGED <<i_count, loc>>
    /\ UNCHANGED <<files, descriptors, execVars>>

\* Faulty variant: the old program's inode is kept.
ReplaceKeepsOld(p) == Goto(p, "replace") /\ UNCHANGED loc

\* From here on the call cannot fail: the old program is put back first.
Replace(p) ==
    IF executable[p] = None THEN Goto(p, "replace") /\ UNCHANGED loc
    ELSE Put(p, executable[p], "replace", loc[p])

\* A program.  Its strings are copied unless the script's have been.
Program(p) ==
    /\ pc[p] = "bread"
    /\ IF loc[p].sh_bang THEN Replace(p) /\ UNCHANGED <<page, mem_map>>
       ELSE copy_strings(p, Replace(p), exec_error2(p))
    /\ UNCHANGED <<files, descriptors, i_count, executable, space>>

Replaced(p) ==
    /\ pc[p] = "replace"
    /\ executable' = [executable EXCEPT ![p] = loc[p].inode]
    /\ loc' = [loc EXCEPT ![p].inode = None]
    /\ Goto(p, "closing")
    /\ UNCHANGED <<files, descriptors, i_count, page, space, mem_map>>

\* The flagged descriptors are closed in order; each sys_close may sleep.
CloseOnExec(p) ==
    /\ pc[p] = "closing" /\ close_on_exec[p] # {}
    /\ Close(p, Min(close_on_exec[p]), "closing", loc[p])
    /\ UNCHANGED <<f_inode, i_count, execVars>>

\* The address space is replaced: free_page_tables, change_ldt.
Start(p) ==
    /\ pc[p] = "closing" /\ close_on_exec[p] = {}
    /\ free_pages(space[p])
    /\ space' = [space EXCEPT ![p] = page[p]]
    /\ page' = [page EXCEPT ![p] = {}]
    /\ Done(p)
    /\ UNCHANGED <<files, descriptors, i_count, executable>>

ExecStep(p) ==
    \/ do_execve(p) \/ NotExecutable(p) \/ Script(p) \/ BadScript(p)
    \/ ScriptStrings(p) \/ Interpreter(p) \/ Program(p) \/ Replaced(p)
    \/ CloseOnExec(p) \/ Start(p) \/ exec_error1(p)

Next ==
    /\ UNCHANGED calls
    /\ \E p \in Procs : (OpenStep(p) /\ UNCHANGED execVars) \/ ExecStep(p)

Spec == Init /\ [][Next]_vars

(***************************************************************************)
(* What must hold.                                                         *)
(***************************************************************************)
\* A file counts the descriptors that refer to it, those of calls asleep in
\* open_namei or get_pipe_inode included: none is reused under a descriptor or
\* lost, and sys_close never meets a count of 0, on which it panics.
\* (sys_open's and sys_pipe's exits, dupfd, sys_close)
FilesMatch ==
    \A f \in Files :
        f_count[f] = Cardinality({d \in Procs \X Fds : filp[d[1]][d[2]] = f})

\* Files whose descriptors have been handed out, and have their inode.
Pending == UNION {{loc[p].f[k][2] : k \in DOMAIN loc[p].f} : p \in Procs}
Established == {f \in Files : f_count[f] > 0} \ Pending

\* The old program of a call past the point of no return is in iput or gone.
Replacing(p) == pc[p] = "replace" \/ loc[p].then = "replace"

\* An inode counts the files, the programs and the calls that have it: every
\* way out of sys_open, sys_close, sys_pipe and do_execve puts back what that
\* call took, once, while others reuse the same files and inodes.
InodesMatch ==
    \A i \in Inodes :
        i_count[i] = Cardinality({f \in Established : f_inode[f] = i})
                     + Cardinality({p \in Procs : loc[p].inode = i})
                     + Cardinality({p \in Procs : loc[p].put = i})
                     + Cardinality({p \in Procs : executable[p] = i /\ ~Replacing(p)})

\* Only an open descriptor has its close_on_exec flag: sys_pipe does not clear
\* the flags of those it takes, and do_execve would close a pipe's end.
CloexecOpen == \A p \in Procs : close_on_exec[p] \subseteq Open(p)

\* A page is in use once for each array or address space it is in: a call of
\* do_execve that fails, at any point, keeps none, one that succeeds gives back
\* those of the old program.  (exec_error1, copy_strings, free_page_tables)
PagesMatch ==
    \A g \in Pages :
        mem_map[g] = Cardinality({p \in Procs : g \in page[p]})
                     + Cardinality({p \in Procs : g \in space[p]})
=============================================================================
