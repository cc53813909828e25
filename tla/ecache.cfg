\* One task walks /a, /a/b and /b, writes or removes the files, and misses
\* on /a/a; two cache slots, so misses recycle cached entries in LRU order.
CONSTANTS
    t1 = t1
    t2 = t2
    r = r
    d = d
    f = f
    g = g
    Tasks <- MCTask1
    NENT = 2
    Root = Root
    NoEnt = NoEnt
    Files <- MCFiles
    RootFile = r
    NoFile = NoFile
    IsDir <- MCIsDir
    Names <- MCNames
    NoName = NoName
    Tree <- MCTree
    NoTask = NoTask
SPECIFICATION Spec
INVARIANT RefCovers
INVARIANT ParentConsistent
INVARIANT CachedClean
INVARIANT QuiescentRefsExact
INVARIANT LocksHeld
INVARIANT TypeOK
PROPERTY WalkReturns
