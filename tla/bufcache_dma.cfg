\* The code: virtioRw gives the device the bytes at (uint64)buf, so a
\* disk_read lands on the struct buf's header.  Two tasks, two buffers.
CONSTANTS
    t1 = t1
    t2 = t2
    t3 = t3
    Tasks <- MCTasks2
    NBUF = 2
    Sectors <- MCSectors
    Vals <- MCVals
    ZeroVal = 0
    Contents <- MCContents
    NoSector = NoSector
    NoTask = NoTask
    OtherPid = OtherPid
    XferAtData = FALSE
SPECIFICATION Spec
INVARIANT HolderSeesOwnSector
CHECK_DEADLOCK FALSE
