SPECIFICATION Spec
CONSTANTS
    maker = maker
    remover = remover
    Procs = {maker, remover}
    NINODES = 5
    NZONES = 6
    NBITS = 6
    NDIRECT = 1
    POINTERS = 2
    ENTRIES = 4
    Scenarios <- Shared
    Stored <- StoredNames
    Image <- SmallTree
INVARIANTS LinksMatch CountsMatch OneOwner BitmapsMatch NeverPanics
