------------------------------- MODULE MCExec -------------------------------
EXTENDS Exec, TLC

CONSTANTS user, other, i1, i2, g1, g2

others == {"open", "close", "dup", "dup2", "execve"}
make(mine, its) == user :> mine @@ other :> its

\* One process makes nearly every call while the other takes files, inodes and
\* nothing else; or every call, alone.
UserAndOther ==
    {make(others \union {"pipe"}, {"open", "close"}),
     make(others \union {"fcntl"}, {"open", "close"}),
     make(others \union {"pipe", "fcntl"}, {})}

\* Only files and descriptors have an order the code looks at.
Symmetry == Permutations(Inodes) \union Permutations(Pages)
=============================================================================
