SPECIFICATION Spec
CONSTANTS
    user = user
    other = other
    i1 = i1
    i2 = i2
    g1 = g1
    g2 = g2
    None = None
    Procs = {user, other}
    Inodes = {i1, i2}
    Pages = {g1, g2}
    NR_OPEN = 3
    NR_FILE = 2
    PAST = 1
    Scenarios <- UserAndOther
    ARG_PAGES = 2
SYMMETRY Symmetry
INVARIANTS FilesMatch InodesMatch CloexecOpen PagesMatch
