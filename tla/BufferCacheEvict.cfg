SPECIFICATION FairSpec
CONSTANTS
  NR_BUFFERS = 2
  NR_INODE = 1
  Procs = {p1, p2}
  Blocks <- OneDevice
  NoBlock = NoBlock
  InodeBlock <- InFirstBlock
  Ops <- EvictOps
INVARIANTS TypeOK Coherent RefCount HolderKeepsBlock NoLostWakeup
PROPERTIES CallsEndOrHang
\* A process may hang in sync_inodes on an inode it has locked itself.
CHECK_DEADLOCK FALSE
