\* Two files on a volume whose last FAT sector has an entry past the data
\* area (data_clus_cnt + 1 = 4 of entries 0 .. 5), as FAT sectors usually do.
CONSTANTS
    t1 = t1
    t2 = t2
    Tasks <- MCTasks
    EntPerSec = 2
    FatSz = 3
    DataMax = 4
    EOC = 100
    BPC = 2
    MaxSize = 3
SPECIFICATION Spec
INVARIANT
    ClusInRange
