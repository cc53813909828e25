\* A subdirectory of four-slot clusters that may grow to four clusters;
\* rw_clus's write as its contract says (see WriteReachesDisk).
CONSTANTS
    a = a
    b = b
    c = c
    Names <- MCNames
    Lfn <- MCLfn
    ShortOrd <- MCShortOrd
    SPC = 4
    DirClusMax = 4
    IsRoot = FALSE
    Metas = {0, 1}
    Torn = Torn
    WriteReachesDisk = TRUE
SPECIFICATION Spec
INVARIANTS
    TypeOK
    DirWellFormed
    NameRoundTrip
    NoWildWrite
    MetaRoundTrip
    LookupFindsCreated
    ShortNameBasis
    PathSplit
    MemmoveRef
CHECK_DEADLOCK FALSE
VIEW LiveView
