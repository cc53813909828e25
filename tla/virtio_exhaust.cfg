\* Four descriptors hold one chain: a second request finds one free
\* descriptor, frees what alloc_desc took, wakes &disk.free[0] and sleeps
\* there until the first chain is freed.  Counters wrap at 8.
CONSTANTS
    t1 = t1
    t2 = t2
    t3 = t3
    Tasks <- MCTasks2
    NUM = 4
    IdxMod = 8
    Sectors <- MCSectors1
    Vals <- MCVals
    ZeroVal = 0
    NoTask = NoTask
SPECIFICATION Spec
INVARIANT DescExclusive
INVARIANT UsedEntriesFresh
PROPERTY ImplementsSyncDisk
PROPERTY PublishedReturns
PROPERTY FreeWaiterWoken
VIEW LiveView
