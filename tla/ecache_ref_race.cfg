\* Two tasks race in eput; eget may panic when both hold slots (the kernel stops).
CONSTANTS
    t1 = t1
    t2 = t2
    r = r
    d = d
    f = f
    g = g
    Tasks <- MCTasks
    NENT = 3
    Root = Root
    NoEnt = NoEnt
    Files <- MCFiles
    RootFile = r
    NoFile = NoFile
    IsDir <- MCIsDir
    Names <- MCNames
    NoName = NoName
    Tree <- MCTree
    NoTask = NoTask
SPECIFICATION Spec
CONSTRAINT RefBound
CHECK_DEADLOCK FALSE
INVARIANT QuiescentRefsExact
