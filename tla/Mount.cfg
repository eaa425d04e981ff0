SPECIFICATION FairSpec
CONSTANTS
    p1 = p1
    p2 = p2
    p3 = p3
    A = A
    B = B
    C = C
    root = root
    d1 = d1
    d2 = d2
    d3 = d3
    None = None
    RootDir = RootDir
    Procs = {p1, p2, p3}
    Devs = {A, B, C, root}
    ROOT_DEV = root
    Dirs = {d1, d2, d3}
    NR_SUPER = 3
    MAPS = 2
    Scenarios <- OwnOrShared
INVARIANTS DeviceOnce MountedReady DirsMatch MapsBalance
PROPERTY LocksEnd
