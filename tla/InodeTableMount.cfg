SPECIFICATION FairSpec
CONSTANTS
  p1 = p1
  p2 = p2
  a = a
  b = b
  c = c
  m = m
  r = r
  NoIno = NoIno
  NR_INODE = 5
  Procs = {p1, p2}
  Inos = {a, b, c, m, r}
  Fds <- OneFd
  Ops <- MountOps
  Names <- MountNames
  Removable = {a}
  Special = {b}
  MountPoint = m
  MountRoot = r
  LastIno = c
PROPERTY CallsEnd
