\* A subdirectory where a removed file left a free run: ealloc should put
\* the next file there.
CONSTANTS
    a = a
    b = b
    c = c
    Names <- MCNames
    Lfn <- MCLfn
    ShortOrd <- MCShortOrd
    SPC = 4
    DirClusMax = 4
    IsRoot = FALSE
    Metas = {0, 1}
    Torn = Torn
    WriteReachesDisk = TRUE
SPECIFICATION Spec
PROPERTY
    FreeRunReused
CHECK_DEADLOCK FALSE
