------------------------------ MODULE MCMount ------------------------------
EXTENDS Mount

CONSTANTS p1, p2, p3, A, B, C, root, d1, d2, d3

mount(d, dir_name) == [op |-> "mount", dev |-> d, dir |-> dir_name]
umount(d) == [op |-> "umount", dev |-> d]
enter(dir_name) == [op |-> "enter", dir |-> dir_name]
own(d, dir_name) == {mount(d, dir_name), umount(d), enter(dir_name)}

\* Each process mounts, enters and unmounts a device of its own; there are two
\* entries for the three.
Own == [p \in Procs |->
           CASE p = p1 -> own(A, d1)
             [] p = p2 -> own(B, d2) \union {umount(root)}
             [] p = p3 -> own(C, d3)]

\* All mount the same devices on the same directories, for good.
Shared == [p \in Procs |->
              {mount(d, dir_name) : d \in {A, B, root}, dir_name \in {d1, d2}}
              \union {enter(d1), enter(d2)}]

OwnOrShared == {Own, Shared}

ASSUME ScenariosApart == \A s \in OwnOrShared : Apart(s)
=============================================================================
