SPECIFICATION Spec
CONSTANTS
    maker = maker
    remover = remover
    Procs = {maker}
    NINODES = 5
    NZONES = 6
    NBITS = 6
    NDIRECT = 1
    POINTERS = 2
    ENTRIES = 4
    Scenarios <- Alone
    Stored <- StoredNames
    Image <- SmallTree
INVARIANT NeverPanics
