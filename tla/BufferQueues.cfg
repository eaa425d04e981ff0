SPECIFICATION Spec
CONSTANTS
  k1 = k1
  k2 = k2
  k3 = k3
  k4 = k4
  k5 = k5
  NR_BUFFERS = 4
  NR_HASH = 2
  Blocks = {k1, k2, k3, k4, k5}
  NoBlock = NoBlock
  Hash <- HashOf
INVARIANT QueuesOK
PROPERTIES ImplementsLists
