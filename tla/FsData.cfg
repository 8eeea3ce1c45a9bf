SPECIFICATION Spec
CONSTANTS
    SECTOR_SIZE = 2
    i_nr_sects = 3
    FsbufSects = 2
    Texts <- MCTexts
    Blank = 0
    Foreign = 9
    Descs = {d1, d2}
    None = None
    WithinFile = TRUE
INVARIANTS
    TypeOK
    NeighbourKept
PROPERTIES
    ImplementsFile
