\* inode.c: three tasks allocate batches of two until the next batch would end exactly at 2^3, and every allocation returns.
CONSTANTS
    t1 = t1
    t2 = t2
    t3 = t3
    Tasks <- MCTasks
    Width = 3
    InoBatch = 2
    InitNextIno = 2
    WrlockErrors = TRUE
SPECIFICATION Spec
INVARIANT TypeOK
INVARIANT InoNeverReissued
INVARIANT NoInoLeaked
PROPERTY AllocReturns
