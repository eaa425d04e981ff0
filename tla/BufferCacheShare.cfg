SPECIFICATION FairSpec
CONSTANTS
  NR_BUFFERS = 1
  NR_INODE = 2
  Procs = {p1, p2}
  Blocks <- OnePerDevice
  NoBlock = NoBlock
  InodeBlock <- OnOwnDevice
  Ops <- ShareOps
INVARIANTS Durable UptodateFresh
PROPERTIES CallsEndOrHang
\* A process may hang in sync_inodes on an inode it has locked itself.
CHECK_DEADLOCK FALSE
