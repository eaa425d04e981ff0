SPECIFICATION Spec
CONSTANTS
    NPAGES = 5
    CHUNKS <- Thirds
    DESCS = 3
INVARIANTS NeverPanics MemoryMatches
