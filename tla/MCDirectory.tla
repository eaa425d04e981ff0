---------------------------- MODULE MCDirectory ----------------------------
(* The root holds ".", "..", the directory "ss" and the file "ff", which    *)
(* fill its block; "ss" holds only "." and "..".                            *)
EXTENDS Directory, TLC

CONSTANTS maker, remover

Names == {"", ".", "..", "ss", "ff", "nn", "dd", "ab"}

\* add_entry copies the second letter of a name all along it.
StoredNames == [n \in Names |-> IF n = "ab" THEN "bb" ELSE n]

Cells == 0 .. Max({ENTRIES, POINTERS}) - 1

SmallTree ==
    [inode |-> <<[Blank EXCEPT !.count = Pins, !.nlinks = 3, !.mode = "dir",
                               !.size = 4, !.zone[0] = 1],
                 [Blank EXCEPT !.nlinks = 2, !.mode = "dir", !.size = 2, !.zone[0] = 2],
                 [Blank EXCEPT !.nlinks = 1, !.mode = "reg", !.zone[IND] = 3]>>
               @@ [i \in Inodes |-> Blank],
     word  |-> (1 :> (0 :> 1 @@ 1 :> 1 @@ 2 :> 2 @@ 3 :> 3 @@ [k \in Cells |-> 0]))
               @@ (2 :> (0 :> 2 @@ 1 :> 1 @@ [k \in Cells |-> 0]))
               @@ (3 :> (0 :> 4 @@ [k \in Cells |-> 0]))
               @@ [b \in Zones |-> [k \in Cells |-> Junk]],
     name  |-> (1 :> (0 :> "." @@ 1 :> ".." @@ 2 :> "ss" @@ 3 :> "ff" @@ [k \in Cells |-> ""]))
               @@ (2 :> (0 :> "." @@ 1 :> ".." @@ [k \in Cells |-> ""]))
               @@ [b \in Zones |-> [k \in Cells |-> ""]],
     zmap  |-> 1 .. 4,
     imap  |-> 1 .. 3]

call(op, path) == [op |-> op, path |-> path, new |-> <<>>]
link(path, new) == [op |-> "link", path |-> path, new |-> new]
write(n) == [op |-> "write", n |-> n]
close == [op |-> "close"]

create == call("create", <<"nn">>)
mknod == call("mknod", <<"nn">>)
unlink == call("unlink", <<"nn">>)
mkdir == call("mkdir", <<"ss", "dd">>)
rmdir == call("rmdir", <<"ss", "dd">>)
trunc == call("trunc", <<"..", "ff">>)

\* One process makes names in the root, the other removes them, and has "ss"
\* to itself.
MakeAndRemove ==
    maker :> {create, mknod, link(<<"ff">>, <<"nn">>), write(0), close}
    @@ remover :> {unlink, mkdir, rmdir}

\* The other empties "ff", and makes a directory of what that frees.
MakeAndEmpty ==
    maker :> {create, link(<<"ff">>, <<"nn">>), write(0), close}
    @@ remover :> {unlink, mkdir, trunc, close}

Shared == {MakeAndRemove, MakeAndEmpty}

\* One process alone.
Alone == {maker :> {call("mkdir", <<"dd">>), mknod, call("rmdir", <<"dd">>), unlink}}
=============================================================================
