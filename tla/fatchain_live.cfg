\* One file on a volume of four data clusters, written until alloc_clus
\* runs out; the kernel stops at the panic.
CONSTANTS
    t1 = t1
    t2 = t2
    Tasks <- MCTask1
    EntPerSec = 2
    FatSz = 3
    DataMax = 5
    EOC = 100
    BPC = 2
    MaxSize = 9
SPECIFICATION Spec
INVARIANT
    RelocInChain
    ClusterAddressing
PROPERTY
    OpReturns
CHECK_DEADLOCK FALSE
