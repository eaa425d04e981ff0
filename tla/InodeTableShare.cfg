SPECIFICATION Spec
CONSTANTS
  p1 = p1
  p2 = p2
  a = a
  b = b
  c = c
  m = m
  r = r
  NoIno = NoIno
  NR_INODE = 4
  Procs = {p1, p2}
  Inos = {a, b, c}
  Fds <- ShareFds
  Ops <- ShareOps
  Names <- ShareNames
  Removable = {a}
  Special = {b}
  MountPoint = NoIno
  MountRoot = NoIno
  LastIno = c
INVARIANTS TypeOK UniqueInode RefCount NoUpdateLost HolderSeesLast
INVARIANTS UnusedIsClean NeverPanics FreedAlone
