SPECIFICATION Spec
CONSTANTS
  p1 = p1
  p2 = p2
  a = a
  b = b
  c = c
  m = m
  r = r
  NoIno = NoIno
  NR_INODE = 3
  Procs = {p1, p2}
  Inos = {a, b}
  Fds <- OneFd
  Ops <- RaceOps
  Names <- RaceNames
  Removable = {a}
  Special = {}
  MountPoint = NoIno
  MountRoot = NoIno
  LastIno = b
INVARIANT NeverPanics
