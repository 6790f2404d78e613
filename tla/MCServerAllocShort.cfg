\* Two mounts' log trees with failing commits, failing reclaim splices and a failover.
CONSTANTS
  r1 = r1
  r2 = r2
  Rids <- MCRids
  Blks <- MCBlks
  InitRoot = 1
  InitBank <- MCInitBank
  FillLo = 1
  FillTarget = 1
  AllocMin = 1
  MaxRestarts = 1
  IoErrors = TRUE
  ShortFills = TRUE
  NoBlk = NoBlk
SPECIFICATION Spec
INVARIANT BlocksOwnedOnce
