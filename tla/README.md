# NEANTIS: a TLA+ model of the kernel

NEANTIS is a small Unix-like kernel for the i386: a file system, its buffer
cache, a memory allocator, serial lines and the boot code. The sources are
incomplete: there is no scheduler, no `init`, no block driver, no page fault
handler. This directory models the parts whose correctness depends on order,
sharing and failure, checks the models with TLC on small instances and proves
the central properties with TLAPS for all instances.

Two facts about the machine shape every model:

* **One processor, no preemption in kernel mode.** A process runs alone from
  one place where it may sleep to the next. The places are `sleep_on`
  (through `wait_on_buffer`, `wait_on_inode`, ...) and what calls it. Races are
  therefore races across a sleep: something was looked at before it, and is
  used after it.
* **`sleep_on` and `wake_up` are not in the repository.** They are modelled as
  their callers use them: `wake_up` makes every process asleep on that queue
  runnable, and a process that is woken looks at its condition again. The
  block driver, also absent, is modelled by what `buffer.c` expects of
  `ll_rw_block`: it locks the buffer, clears `b_dirt` on a WRITE, and unlocks
  it later; a READ may fail.

## The system

| Part | State | Operations | Interacts with |
|---|---|---|---|
| buffer cache (`fs/buffer.c`) | buffer heads: identity, count, dirt, up to date, lock | `getblk`, `bread`, `breada`, `brelse`, `sync_dev`, `sys_sync` | everything in `fs/`; the block driver through `b_lock` |
| buffer queues (`fs/buffer.c`) | hash chains, free list ring | `remove_from_queues`, `insert_into_queues`, `find_buffer`, `buffer_init` | used by `getblk` only |
| inode table (`fs/inode.c`, half of `fs/bitmap.c`) | `inode_table`, `last_inode`, inode bitmap | `iget`, `iput`, `get_empty_inode`, `new_inode`, `free_inode`, `sync_inodes` | the cache (`bread` of an inode's block), the superblocks (mounts), `namei` |
| pipes (`fs/pipe.c`) | a page, head, tail, `i_count` | `read_pipe`, `write_pipe`, `sys_pipe`, close | inode table, file table |
| block allocation (`fs/bitmap.c`, `fs/truncate.c`, `_bmap`) | zone bitmap, `i_zone`, indirect blocks | `new_block`, `free_block`, `_bmap`, `truncate` | cache, superblocks |
| superblocks (`fs/super.c`) | `super_block[]`, `s_lock` | `read_super`, `put_super`, `sys_mount`, `sys_umount`, `mount_root` | cache, inode table |
| open files (`fs/open.c`, `fs/fcntl.c`, `fs/read_write.c`) | `file_table`, `filp` | `sys_open`, `sys_close`, `sys_dup`, `sys_lseek`, dispatch of read and write | inode table, `namei` |
| directories (`fs/namei.c`) | directory blocks, `i_nlinks` | `get_dir`, `find_entry`, `add_entry`, `open_namei`, `mkdir`, `rmdir`, `link`, `unlink` | inode table, allocation, cache |
| file contents (`fs/file_dev.c`, `fs/block_dev.c`, `fs/char_dev.c`) | `f_pos`, `i_size` | the copy loops | cache, allocation |
| program loading (`fs/exec.c`) | argument pages | `do_execve`, `copy_strings` | `namei`, cache |
| kernel allocator (`lib/malloc.c`) | buckets, descriptors, free lists in pages | `malloc`, `free_s` | page allocator, interrupts |
| page allocator (`mm/memory.c`) | `mem_map` | `get_free_page`, `free_page`, `mem_init` | allocator, pipes |
| serial lines (`kernel/chr_drv/`) | ring queues | interrupt routines, `rs_write` | the tty code, mostly absent |
| calendar (`kernel/mktime.c`) | none | `kernel_mktime` | start-up |
| boot (`boot/`) | sector, head, track | `read_it` | none |

What is hard here: every operation of the cache and the inode table sleeps
in the middle; retries (`goto repeat`) rely on everything being looked at
again; counts have to be given back on every error exit; one wait queue serves
several kinds of sleepers; and a panic stops the machine.

What makes each part correct:

* cache: a block is in one buffer; the count of a buffer is the number of its
  holders; a held buffer keeps its block; nothing written is lost when a buffer
  is reused; readers see the last write; sleepers are woken;
* queues: one ring through all buffers, complete chains, lookups that find;
* inode table: an inode is in one place; counts are exact; no change is lost;
  an unused place is clean; no panic;
* pipes: a stream; nobody sleeps in vain; closing an end ends the calls;
* allocation: a block or inode has one owner, a set bit has an owner, no block
  is freed twice; superblocks: a device is mounted once, pinned inodes are
  counted; open files: `f_count` is the number of descriptors; directories: link
  counts match entries; allocator: a chunk has one owner, descriptors match
  pages; rings: bytes in order, none between head and tail overwritten.

## Modules

| Module | What it is |
|---|---|
| `BufferCache` | the cache seen by several processes and the disk |
| `MCBufferCache` | its instances |
| `BufferCacheProofs` | its theorems |
| `BufferLists` | what `getblk` needs of the queues: complete lookup and a queue |
| `BufferQueues` | the queues as pointers; refines `BufferLists` |
| `MCBufferQueues`, `BufferQueuesProofs` | its instance, its theorems |
| `InodeTable`, `MCInodeTable` | the inode table and inode bitmap; its instances |
| `InodeTableProofs` | its theorems |
| `PipeStream` | what a pipe promises |
| `Pipe` | `read_pipe`, `write_pipe` and closing; refines `PipeStream` |
| `MCPipe`, `PipeProofs` | its instance, its theorems |
| `FsAlloc` | blocks and inodes taken and given back: bitmaps, zones, `truncate`, the last `iput` |
| `Directory`, `MCDirectory`, `DirectoryProofs` | the calls on names, over `FsAlloc`; its instances, the theorems about both |
| `Mount`, `MCMount`, `MountProofs` | the table of superblocks; its instance, its theorems |
| `OpenFiles` | descriptors, `file_table`, `sys_open` to `sys_pipe` |
| `Exec`, `MCExec`, `ExecProofs` | `do_execve`, over `OpenFiles`; the instance of both, their theorems |
| `KMalloc`, `MCKMalloc`, `KMallocProofs` | `get_free_page`, `malloc`, `free_s`; its instance, its theorems |

`Directory` EXTENDS `FsAlloc` and `Exec` EXTENDS `OpenFiles`: each pair shares its
variables and its `Next`. The other modules stand alone and see each other
through what the callers rely on: `FsAlloc` takes one copy of each inode and of
each block for granted, which is `InodeTable`'s `UniqueInode` and
`BufferCache`'s `Coherent`; `OpenFiles` sees the walk of `open_namei` as one
sleep that ends with an inode or without, and `Directory` looks inside it.

### BufferCache

A step is a stretch of code between two possible sleeps, so each `pc` label is
a place where the code waits or has just been woken: `repeat` (the top of
`getblk`), `hash_wait` (in `get_hash_table`), `sleep` (on `buffer_wait`),
`victim_wait` (after the walk of the free list), `sync` (in `sync_dev` or
`sys_sync`), `got` (`getblk` returned), `read_wait`, `use`, `ahead` (in
`breada`), `rel_wait` (in `brelse`). Contents are abstracted to three facts:
`fresh` (the buffer holds what was last written to its block), `xfer` (the
WRITE under way carries it) and `disk` (the disk has it). The free list is the
order in which `getblk` tries buffers.

`sync_dev` and `sys_sync` call `sync_inodes`, which calls `write_inode`, which
calls `bread` and so `getblk` and `sync_dev` again (`buffer.c:54`,
`inode.c:55`, `inode.c:297`). The control state is therefore one per frame: a
process and a depth, depth 0 for its own call, one more for each `write_inode`
under way within it (`inodes` is the label of `sync_inodes`, `lock_inode` that
of `write_inode`). Each of these holds the lock of an inode of its own, so a
process has `NR_INODE` frames above the first at most. Of an inode the module
has what `write_inode` looks at, `i_dirt` and `i_lock`; what is in it is in
`InodeTable`. `chmod` stands for all that makes inodes dirty; the operation
`write_inode` is the one an `iput` makes.

This recursion can end in a hang, which no text of the repository mentions:
if `write_inode` has locked its inode and `getblk` finds only dirty buffers,
`sync_dev`'s `sync_inodes` reaches that inode and waits for the lock its own
process holds. `Hangs` says this, and `CallsEndOrHang` that nothing else keeps
a call from ending. `read_inode` holds an inode's lock in the same way and can hang
so too; it is not modelled here.

Taken as the code has it: `breada` asks for `bh` again instead of `tmp` (281)
and gives `tmp` back without a `wake_up` (283); `block_write` of a whole block
leaves `b_uptodate` clear, so that a later `bread` reads over it. The blocks
hit by the latter are collected in `lost`; `Durable` and `UptodateFresh` except
them and only them.

### BufferQueues

The queues change only at the end of `getblk`, without a sleep, so `Take` is
one action: unchain, unring, new identity, ring, chain. `b_prev[NULL]` is the
memory near address 0 that line 137 writes when the chain was empty; nothing
in the queues reads it. `BufferLists` is the interface `BufferCache` is built
on: its `order` is `BufferCache`'s `free_list`, its lookup `FindBuffer`.

### InodeTable

The places of `inode_table` are `1..NR_INODE`; the pair (`i_dev`, `i_num`) is
one value, of `Inos`. An inode's contents are abstracted to `fresh` (the place
holds what was last written) and its link count; `saved` says whether the block
in the cache holds it (durability from there on is the cache's). A process
holds inodes in `file`; `empty`, `got` and `put` are the references of calls
under way. One file system may be mounted, `MountPoint` to `MountRoot`, for the
whole behaviour.

`get_empty_inode` never sleeps: `UnusedIsClean` says why, and so `iget`'s search
of the table follows its choice of an empty place at once, on which
`UniqueInode` rests. A panic is the label `panic`, after which nothing moves.

`sync_inodes` is entered from `sys_sync` and from the `sync_dev` that `iput` calls
for a block special file (`inode.c:145`): its loop over the table, with the waits
for locked inodes and the writes of dirty ones, is the same `SyncInodes` for
both, and `Special` are the inodes of such files.

Assumed: `bread` of an inode's block succeeds (the code panics otherwise), and
the `getblk` of every `bread` finds a clean buffer. Otherwise it calls `sync_dev`
and so `sync_inodes`, whoever the caller is: what becomes of its caller is in
`BufferCache`, and what becomes of an inode that is being freed meanwhile is told under
"What the violations show" for the `sync_dev` of `iput`.

### Pipe

`cpu` names the process inside a stretch without sleep, so that the loops can
be taken one chunk at a time without letting others in between. The bytes are
stamps 0, 1, ... modulo `Stamps`, which lets the refinement of `PipeStream` see
bytes lost, repeated or reordered. `UserFaults` says whether `get_fs_byte` and
`put_fs_byte` may sleep in a page fault. The handler is not in the repository;
the run has `FALSE`. With `TRUE`, TLC shows `IsStream` violated: head and tail
move before the bytes are copied (`pipe.c:26`, `pipe.c:56`).

### FsAlloc and Directory

Calls call each other and sleep at many depths, so `loc[p]` has a label, its
locals, and for each routine with several callers the label it returns to (`back`;
none of them is called while it is under way). `put` and `then` are what `iput` is
to give back, now and after. Labels where the code may have slept (a `bread`, a
`getblk`, a `brelse`, an `iput`, `get_super`) are points where others move; those of
`Instant` only cut a long stretch into readable actions, and while a process is
at one of them no other moves. Inodes and blocks are `inode[i]` and `word[b]`,
the one copy in the caches; a block freed becomes `Junk`, so that a use of it
shows. A `brelse` sleeps only if its buffer was got before an earlier sleep: so in
`unlink` and `rmdir`, between the clearing of the entry and the decrement of the
link count (labels `unlinked` and `removed`; `LinksMatch` allows for the link
too many), but not after a `bread` in the same stretch. `stuck` are the blocks that `free_block` found held and left, buffer
counted and bit set (`bitmap.c:50`).

Every process is the superuser, so the mode bits decide nothing, and
`permission` is what is left of it: a directory without links is refused. Left
out: reads that fail, holes in a directory (the calls make none), the double indirect block, names longer than `NAME_LEN`, the
walk up from a mounted root. `Stored` is what `add_entry` leaves of a name
(`namei.c:150` copies `name+1` for every letter).

`Scenarios` keeps out of the run what the code does not survive and no text of the
repository promises: two processes that unlink one name, make entries in one
directory or fill one hole, one that reads a file another truncates, one that
creates in a directory another removes. Each is a hazard in `PROJECT.json`.

### Mount

A process in `get_super` waits for an entry and looks at it again (`Searching`, shared
by the calls that contain it). `s_lock` is its holder; `held` counts the buffers
of a device's maps; a directory's `i_count` is the mount's reference and those of
calls under way. `inside` is a process that has the root of a device open,
for which `sys_umount` refuses, the same process's own included. In one scenario each process mounts, enters and
unmounts a device of its own, with too few entries; in the other all mount the
same devices on the same directories and nobody unmounts. `Apart` is what they
have in common: if anybody unmounts, no two processes name one device (other than
the root's) and none enters a directory another mounts on. Kept out: an umount
of a device that others mount or enter. `wake_up` may then run the process in
`get_super` before the one in `lock_super`, which gets an entry that is not read
yet (`super.c:48`, `super.c:106`); two umounts put the directory twice (174).

### OpenFiles and Exec

The processes share `file_table` and the inodes; there is no `fork`, so a file
has two descriptors only by `dup`. A call that sleeps keeps in `loc` what it has
taken. `sys_close` reads `f_inode` before `iput` sleeps, and `file_table` may give
the file to another process meanwhile. `sys_pipe` walks past the end of
`file_table` (`pipe.c:71` tests `NR_FILE`, not `i < NR_FILE`): `PAST` words after
it are modelled, taken to be 0 at first. Its test `f==1` compares an array with 1 and is
never true. `MAJOR(inode->i_zone[0]==5)` (`open.c:144`) is 0 whatever the device,
so that exit of `sys_open` is never taken.

In `Exec` strings are the pages they need: `copy_strings` takes any number up to
`ARG_PAGES`, or all there are and fails. `space` is the address space, which the
external `free_page_tables` and `put_page` empty and fill.

### KMalloc

The lists of descriptors and of free chunks are sequences. A descriptor is named
by the page it lies in and its place there, a chunk by its page, size and place. `malloc` is one step. `free_s` walks the chains a
descriptor a step, and `Malloc` may come between: from a handler, or, while
`free_s` is idle, from the process. A handler that frees is left out: it may
take away the descriptor the search stands on, and `free_s` panics with "Adresse
donnée incorrecte". A call that finds no page panics and is left out too.
Nothing in the repository calls `malloc` yet.

## Reading the source

Some lines do not compile. They are read as what they evidently mean:
a missing `;` (`pipe.c:27`, `inode.c:48`, `namei.c:59`, `namei.c:287`) or body
(`namei.c:190`, whose `for` stands before an `if`), `=` for `==` (`namei.c:175`), a misnamed
variable (`br` in `namei.c:453`, `fd[h]` in `pipe.c:85`, `fp` in `fcntl.c:12`,
`s->isup` in `super.c:176`), a letter for `<` (`super.c:139`, `exec.c:289`), a
parenthesis too many (`malloc.c:147`), and `inode_table = inode_table`
(`inode.c:247`), an assignment to an array, read as `inode = inode_table`, which
restarts `iget`'s search. Code that compiles is modelled as it is.

## Runs

| Run | Instance | What it shows |
|---|---|---|
| `cache_evict` | 2 buffers, 3 blocks of one device, 1 inode, 2 processes: one reads ahead and modifies, one changes and writes the inode | types; `Coherent`, `RefCount`, `HolderKeepsBlock`; a process asleep on `buffer_wait` has one that will wake it; `CallsEndOrHang`, with a fair scheduler and disk |
| `cache_share` | 1 buffer, 2 devices with an inode each, 2 processes: one reads, modifies, changes and writes inodes, the other reads, modifies, overwrites and syncs | `Durable`, `UptodateFresh`; `CallsEndOrHang` where `write_inode` nests in `write_inode` |
| `queues` | 4 buffers, 5 blocks, 2 chains | `QueuesOK`; refinement of `BufferLists` |
| `inode_share` | 4 places, 3 inodes, 2 processes with 1 and 2 descriptors: one creates, unlinks, syncs and closes a block special file, the other modifies the shared inode and has pipes | types; `UniqueInode`, `RefCount`, `NoUpdateLost`, `HolderSeesLast`, `UnusedIsClean`, `FreedAlone`, `NeverPanics` |
| `inode_live` | 5 places, 5 inodes, one a block special file and two a mount point and the root mounted on it, 2 processes with a descriptor each, fair | every call ends, the walk across the mount point and the sync of a block special file's `iput` included |
| `inode_unlink_race` | both processes look up and unlink one file | expected violation of `NeverPanics`: see below |
| `pipe` | page of 4 bytes, 3 processes (one with both ends, a reader, a writer), counts 2 and 4 | `NoLostWakeup`; refinement of `PipeStream`; calls end once an end is closed |
| `fs` | 6 blocks of which 5 are data, 5 inodes, directories of 4 entries a block, 1 direct zone; one process makes, links and writes; the other unlinks and makes and removes a directory, or unlinks, makes a directory and truncates | `LinksMatch`, `CountsMatch`, `OneOwner`, `BitmapsMatch`, `NeverPanics` |
| `mkdir_full` | one process, mkdir, rmdir, mknod, unlink | expected violation of `NeverPanics`: see below |
| `mount` | 3 processes, 4 devices, 3 entries, maps of 2 blocks | `DeviceOnce`, `MountedReady`, `DirsMatch`, `MapsBalance`; every lock is released |
| `open_files` | 2 processes, 3 descriptors, 2 files and one word past them, 2 inodes, 2 pages; one process makes all calls but `pipe` or `fcntl` while the other opens and closes, or all calls alone; symmetric in inodes and pages | `FilesMatch`, `InodesMatch`, `CloexecOpen`, `PagesMatch` |
| `kmalloc` | 5 pages, buckets of 1 and of 3 chunks, 3 descriptors a page | `NeverPanics`, `MemoryMatches` |

Why the bounds are enough to be of interest. Two buffers and three blocks force
eviction while a holder waits; one buffer makes every process wait for another.
The two devices of `cache_share` make `getblk` clean a victim of a device that
is not the caller's. There each inode is written to a device of its own, so a `write_inode` has to clean it of the other device's block, and
the calls nest as deep as there are inodes. Four buffers are the least with a first, a last and two
inner places on the ring, and three blocks of one chain let the middle of a
chain go. Four inode places are what the two processes of `inode_share` can need
at once, so that places are reused; in `inode_live` there are five, for the mount
pins two. A page of four bytes holds three; counts of 2 and 4
produce chunks cut by the count, by the contents, by the end of the page, and a
call larger than the pipe. In `fs` the root's block is full, so that an entry needs a
block of its own through the indirect zone, and the blocks and inodes run out,
so that each exit for want of one is taken; the bitmap has a bit past the device
for `new_block` to find. In `mount` three devices want two entries. In
`open_files` both the table and the pages run out, and a program that replaces
another has to give pages back for the next to find any. In `kmalloc` three
buckets of one size make chains long enough for a descriptor with one before it
and one behind, and the descriptors need a second page.

Fairness: a process inside a call that can run is run eventually, and the disk
ends every transfer. Nothing obliges a process to make a call; the `CallsEnd`
properties therefore speak of behaviours in which no new calls are made, as an
endless stream of callers may keep one of them waiting. In `Mount` a process inside a
call is fair, and only the release of locks is claimed: one that waits in
`get_super` may be overtaken by others that lock the entry again. In `Pipe` the fairness
is strong, since each process is only enabled while the processor is free. A
process that holds both ends of a pipe may wait for itself for ever, so `Pipe`
has no deadlock check and its liveness property begins when an end is closed. The
runs of the cache have none either, for a process may hang on its own inode.

### What the violations show

`iput` finds the last reference to an inode without links, calls `truncate`,
which sleeps, and then `free_inode`, without looking at `i_count` again.
`namei` reads an inode's number from a directory and may sleep (`brelse`, `iput`,
240 and 241) before it calls `iget` with it. If the name is unlinked meanwhile,
`iget` finds the inode in the table during `truncate` and counts it, and
`free_inode` panics (`bitmap.c:112`). In the passing runs a removable file is
looked up by the process that unlinks it only.

There is a second race at the same place, which has no run of its own. `free_inode`
clears the place, its lock included (`bitmap.c:132`), while a `sync_inodes` of
another process, which locked it during `truncate`, is writing it. That process
computes the place in the block from `i_num`, by now 0 (`inode.c:300`), and writes
zeroes over the last inode of the block (`LastIno`). It need not call `sync`: the
`iput` of a block special file calls `sync_dev` (`inode.c:145`), and that
`sync_inodes` (`buffer.c:54`). The model has all of it; in the passing runs only the
process that unlinks syncs and closes block special files. Where one process
creates and unlinks `a` and another opens and closes `b`, with `b` for `LastIno`, TLC
finds the loss, and then a second `free_inode` of the inode overwritten, which panics
("free_inode: bit deja corrige", `bitmap.c:128`).

`FreedAlone` names what both races break: while `iput` truncates and frees an inode,
no `iget` is looking for it and nobody has it locked. Nothing in the code sees to
it. It holds in the passing runs; the proofs below assume it, and show when it holds.

`mkdir_full`: `sys_mkdir` gets its own block, then `add_entry` needs one more for the
entry and finds none. The exit frees `i_zone[0]` (`namei.c:432`) and leaves it in
the inode; the `iput` that follows truncates the inode and frees the block again,
and `free_block` panics: "free_block: bit deja corrige" (`bitmap.c:62`). In `fs` the
directory that `mkdir` is called in has room.

## Proofs

TLAPS checks these for every value of the constants that satisfies the
assumption of the module (`ConstantsAssumption`, `OpenFilesAssumption` with
`ExecAssumption`, `MountAssumption`, `KMallocAssumption`, `FsAssumption`: that
numbers are numbers and sets that are counted finite; `ImageAssumption`: what
is mounted); TLC evaluates the assumption on each run.
Each module has an invariant `IInv`, proved inductive, which TLC checked first.

**BufferCacheProofs.** `Spec => []X` for `TypeOK`, `Coherent`, `RefCount`,
`HolderKeepsBlock`, `Durable` and `UptodateFresh`, for any depth of nested
`write_inode`s. None of the invariants is inductive.
`IInv` adds what the locals of a process hold at each label (`ControlInv`), that
only a buffer with a block is locked or dirty (`HeadInv`) and that a process in
`get_hash_table`'s wait also keeps its buffer's identity in sight
(`HolderInv`). The argument: a counted buffer is never given away, because
`getblk` looks at `b_count` after each wait; so a holder's block stays; so the
second lookup before `TakeVictim` keeps blocks unique. Counting is the hard
part: each step moves one process in or out of one set, and the lemmas on
cardinality say what that does. `DataInv` is then proved over `IInv`: for each
buffer, dirty, up to date and being written all imply fresh, unless the block
is in `lost`.

`Spec => []NoLostWakeup` holds if fewer processes read ahead than there are
buffers (the kernel has 64 tasks and a buffer for each KiB or so of its buffer
memory). With as many readers ahead as buffers, each holding one and waiting for
another (`buffer.c:278`), all wait for ever. A process sleeps
when every buffer is counted; were all of them counted by readers ahead only, there
would be as many of those as buffers (`SomeoneHolds`, by the pigeonhole principle);
so somebody holds one at a label at which he is awake. Every other step leaves such a
process one (`Calm`), or wakes all sleepers. All frames of a process but
the topmost are in `sync_inodes` (`StackInv`), where nothing is held but the block
`breada` will return, and only a process's own call is a `breada` (`OpsInv`): so
a process asleep in one frame is not the one counted on in another.

**BufferQueuesProofs.** `Spec => []TypeOK` and `Spec => []QueuesOK`. The witness is a ranking of the
buffers, their places on the ring. `Take` gives the moved buffer the last place
and moves up those behind it (`Moved`); `RingStep` follows the four pointers that
change. The chains depend only on the order of any two buffers, which `Moved`
keeps for all but the one that moves (`MovedRanking`); `Unchained` shows that
the chains without it are in order, `ChainsStep` that they are with it in front.
Acyclicity and completeness need no induction along the pointers this way.

`Spec => ImplementsLists`. `FreeOrder` and `Walk` are recursive functions; what
they return is shown by looking at the first place where it would be otherwise. So the ring
read from `free_list` is the inverse of the ranking (`OrderIsPlace`), which
`Take` changes as `BufferLists` says (`PlaceMoved`). A walk of a chain goes down the
ranking by one place at least, so that it reaches `NULL` within
`NR_BUFFERS + 1` places, and it cannot pass a buffer of the chain without meeting
it (`WalkMeets`): `find_buffer` returns what a search of all buffers would
(`FindIsFound`).

**PipeProofs.** `Spec => []TypeOK`, whatever sleeps, and, if `UserFaults = FALSE`,
`Spec => []NoLostWakeup` and `Spec => IsStream`. The condition is that a copy to or
from user memory does not sleep: `pipe.c` counts on it between reading `head` or
`tail` and moving it. For the wake-ups the invariant adds that whoever has the
processor is inside a call, and each way out of a call wakes the sleepers. For
the refinement it adds that whoever copies has the processor, and that its chunk fits
in front of the end of the page and within the bytes (`copy_out`) or the room (`copy_in`)
there are (`CopyOK`). Then `CopyOut` is `Get`, `CopyIn` is `Put`, a step after which a reader
no longer shows what it read is `Taken`, and the rest stutter. The bytes between
`tail` and `head` are counted modulo the page size (`AheadIs`); a chunk copied moves
one end of them (`TailMoves`, `HeadMoves`) and leaves the others where they are.

**InodeTableProofs.** `Spec => []X` for `TypeOK`, `RefCount` and `UnusedIsClean`,
whatever the calls race for. `CountInv` says that `i_count` is the number of
references, plus one for a mount. A reference is one component of the state: a
descriptor of a process, or its `empty`, `got` or `put`. Each step moves, sets or
clears one, and one lemma for each of these says what that does to the counts.
`LocalInv` says which of the three a process has at each label, `RefOK` what the
places they point to are: an `empty` place has no identity and one reference, an
inode got or to be put has an identity. Then a place without references was given up by
`iput`, which writes it first, or cleared by `free_inode`; so `UnusedIsClean` is
kept, and because of it `get_empty_inode` does not sleep, which keeps `LocalInv`
(nobody is at `empty_wait`). The three are proved together for that reason.
`PinInv` keeps both inodes of a mount in the table, since their count never
reaches 0.

`Spec /\ []FreedAlone => []X` for `UniqueInode`, `NoUpdateLost` and `HolderSeesLast`;
for `NeverPanics` also with `[]RoomLeft`: `get_empty_inode` finds the table full for
nobody. The condition is needed, as `inode_unlink_race` shows, and says nothing of who
may call what: any process may create, name, link or unlink any inode. The
invariant `UInv` is proved over `IInv`. It says what the lock, the read, the
creation and the release of an inode rely on across a sleep (`LockInv`, `ReadInv`,
`CreateInv`, `FreeInv`); that no two processes have locked one place
(`LocksApart`); that a place not being read has what was last written
(`PlaceInv`); and that what is not in the block is in a dirty place (`DiskInv`).
The argument: a place that is being read, created or freed is referred to by one
process only (`OnlyHis`); another process could come to it by `iget` alone, which
looks for another inode or waits for the lock (`Untouched`). So a step of one process
leaves what the others rely on (`OthersKeep`), and the proof of a step has to look
at the process that takes it and the place it changes.

`FreedAlone` is about behaviours; `LoneRemover(u)` is about calls, and gives it: one
process `u` does all creating, unlinking and syncing, and alone looks up the names
that may go and the block special files, whose `iput` syncs, as in the passing runs. The others look up, share, change and put
inodes and make pipes (`FreedAloneCorrect`). `SInv` says that they refer only to
places whose inode stays, and that a locked place has somebody who locked it; the
process that frees an inode meets neither. Hence the three properties from `Spec`
alone (`LoneRemoverSafe`), and `NeverPanics` too (`LoneRemoverNeverPanics`) where the
table has more places than all processes can refer to (`Roomy`, as the kernel's need not).

**MountProofs.** `Spec => []DeviceOnce` with no condition: `read_super` looks for
the device again after each sleep and takes an entry in the same stretch
(`AnyInv`). `Spec => [](Apart(calls) => X)` for `MountedReady`, `DirsMatch` and
`MapsBalance`; the calls that `Apart` leaves out break them, as said above. The
invariant
has one part for each thing a call relies on across a sleep: a locked entry
is locked by the process that reads or gives up what is in it (`LockInv`); a reader has its
entry and its directory to itself (`ReadInv`, `MountInv`); an `umount` or a
walk still has the entry it found (`UnmountInv`); a directory is mounted on once
(`PointInv`); the maps of a device are all there or as many as its reader has read
(`HeldInv`).

**ExecProofs.** `Spec => []X` for `FilesMatch`, `InodesMatch`, `CloexecOpen` and
`PagesMatch`, on every exit of every call, `do_execve` included. What a sleeping
call has taken is its own: the file counts that descriptor only (`TakenInv`), and
the descriptor is not flagged (`UnflaggedInv`), so that the exit that gives it
back finds what it left; `ControlInv` says which inode, files and pages a call has
at each label. The sums in the properties are cardinalities of sets of references,
and again each step adds or removes one.

**DirectoryProofs.** `Spec /\ []FollowsLive => []CountsMatch`, for any calls: the
races on names that the run leaves apart make links and entries differ, never
references. `ImageAssumption` says that at mount nothing is open but the root. The
condition `FollowsLive` is that an inode about to be fetched is allocated. It is a
part of `BitmapsMatch`, so the run checks it; nothing in `namei.c` sees to it when
a name is removed in the middle of a walk, and then `new_inode` may hand out an inode
that somebody has just counted. `BackInv` says which routines are under way at
each label, `HoldsInv` what a call holds there: no directory while one is to be
fetched, no inode where `new_inode` is to get one, no open file where `open` is
to have one. A step changes the references of one process, by one at most unless it
moves them (`Balanced`), and the counts follow (`CountsKept`). A free inode has no
references (the last part of `IInv`), hence the one `new_inode` takes had none, and the
one `free_inode` clears had the one that `iput` put. `PutsCounted` draws the same
conclusion for `iput`: it never meets a count of 0 ("tentative de liberer un inode
deja libre", `inode.c:129`), nor takes away the references that keep the root.

**KMallocProofs.** `Spec => []NeverPanics` and `Spec => []MemoryMatches`, for
any number of handlers' calls during one `free_s`. Descriptors are in one place
of one list (`ListInv`), pages have one use (`PageInv`), chunks are out or on the
list of their bucket (`ChunkInv`). The heart is `FreeInv`: while the search has
reached the object's size, its bucket is at or behind the descriptor the search
stands on (`Ahead`). `malloc` puts new buckets in front only and takes none away, so it
holds when a handler returns; `Found` is then reached before the end of the last
chain, and `Prev` finds what precedes the bucket.

Only model-checked, and why:

* liveness, which the prover does not do;
* `LinksMatch`, `OneOwner`, `BitmapsMatch` and `NeverPanics` of `Directory`: they
  hold only for calls that leave each other's names and files alone (`Scenarios`),
  and what a call relies on across its sleeps is then a statement about the
  entries, leaves and blocks of every file at once.

## Not modelled

`bread_page`, `invalidate_buffers`, `check_disk_change` (it depends on the
floppy driver, not in the repository). Of the file system: reads that fail and the
double indirect block in `FsAlloc` and `Directory`; `f_pos`, `lseek`, `f_flags`, the
dispatch of `sys_read` and `sys_write`, `chdir`, `chroot`, `chmod`, `chown`,
`utime`, `access`: each sets a field and shares nothing with another. The copy
loops of `file_dev.c`, `block_dev.c` (beyond the buffers they take) and
`char_dev.c`: what can go wrong in them, a page fault in the middle, needs the
handler that the repository does not have. Of `do_execve`: the layout of the
new address space; `argc` of a script called without arguments (`exec.c:202`) and
strings larger than the 32 pages (`exec.c:76` tests an unsigned number for
less than 0) concern the strings themselves.

The ring queues of the serial lines (`kernel/chr_drv/`): their interrupt
routines are there, the tty code that reads and writes the rings mostly is
not. `mktime.c` is a closed formula. Traps and system call stubs
(`kernel/asm.s`, `kernel/traps.c`), the boot code and the inline assembler of the
headers: straight-line code without shared state. `stat.c` and `ioctl.c`:
copies of fields.

## Plan

What is left, in this order:

1. `Directory`: `OneOwner` and `BitmapsMatch`, with the condition on calls named.
2. The cache and the inode table composed, with `read_inode` as well as
   `write_inode` within `getblk`: what a `sync_inodes` entered from any `bread` does
   to an inode that is being freed.
