\* Six descriptors hold two chains: both tasks' requests are in flight at
\* once and the device may complete them in either order.  The counters
\* wrap at 6, so every ring slot and every counter value is reused.  Two
\* sectors, so a request reaching the wrong sector is seen.
CONSTANTS
    t1 = t1
    t2 = t2
    t3 = t3
    Tasks <- MCTasks2
    NUM = 6
    IdxMod = 6
    Sectors <- MCSectors2
    Vals <- MCVals
    ZeroVal = 0
    NoTask = NoTask
SPECIFICATION Spec
INVARIANT TypeOK
INVARIANT DescExclusive
INVARIANT UsedEntriesFresh
PROPERTY ImplementsSyncDisk
VIEW LiveView
