\* dir.c: mknod, unlink, lookup and readdir streams with overlapping probe windows
CONSTANTS
    a = a
    b = b
    c = c
    s1 = s1
    Names <- MCNames
    NameLen <- MCNameLen
    Salts <- MCSalts
    Crc <- MCCrc
    OffMask = 7
    LastPos = 4
    CollNr = 2
    RootIno = 1
    RootSalt = s1
    MaxIno = 4
    BtreeErrors = TRUE
    ReaddirBudget = 2
SPECIFICATION Spec
INVARIANT TypeOK
INVARIANT LookupFindsEveryEntry
INVARIANT NoDanglingEntry
INVARIANT LinkCountsMatch
INVARIANT ReaddirNoRepeat
INVARIANT ReaddirComplete
