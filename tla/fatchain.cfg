\* Two files on a volume whose FAT names exactly its data clusters, with
\* room for both files at their largest.
CONSTANTS
    t1 = t1
    t2 = t2
    Tasks <- MCTasks
    EntPerSec = 2
    FatSz = 3
    DataMax = 5
    EOC = 100
    BPC = 2
    MaxSize = 3
SPECIFICATION Spec
INVARIANTS
    TypeOK
    FatAccounted
    
    CursorConsistent
