\* A subdirectory with rw_clus as the code is: either_copy copies the
\* sector into the caller's buffer.
CONSTANTS
    a = a
    b = b
    c = c
    Names <- MCNames
    Lfn <- MCLfn
    ShortOrd <- MCShortOrd
    SPC = 4
    DirClusMax = 4
    IsRoot = FALSE
    Metas = {0, 1}
    Torn = Torn
    WriteReachesDisk = FALSE
SPECIFICATION Spec
INVARIANT
    NameRoundTrip
CHECK_DEADLOCK FALSE
