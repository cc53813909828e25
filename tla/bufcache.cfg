\* The contract of spec.md 4.1 (the transfer reaches b->data): three tasks,
\* two buffers, three sectors.  Three sectors over two buffers force
\* recycling of cached buffers, and with every buffer held bget finds none
\* free and panics, which halts the kernel; so deadlock is not checked.
CONSTANTS
    t1 = t1
    t2 = t2
    t3 = t3
    Tasks <- MCTasks3
    NBUF = 2
    Sectors <- MCSectors
    Vals <- MCVals
    ZeroVal = 0
    Contents <- MCContents
    NoSector = NoSector
    NoTask = NoTask
    OtherPid = OtherPid
    XferAtData = TRUE
SPECIFICATION Spec
INVARIANT TypeOK
INVARIANT BufIdentUnique
 
INVARIANT BufCoherent
PROPERTY LruVictimOldest
VIEW ContractView
CHECK_DEADLOCK FALSE
