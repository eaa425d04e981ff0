SPECIFICATION FairSpec
CONSTANTS
  both = both
  reader = reader
  writer = writer
  PAGE_SIZE = 4
  Procs = {both, reader, writer}
  Inherited <- Inherit
  Counts = {2, 4}
  Stamps = 5
  UserFaults = FALSE
INVARIANTS TypeOK NoLostWakeup
PROPERTIES IsStream CallsEndWhenClosed
CHECK_DEADLOCK FALSE
