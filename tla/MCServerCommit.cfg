\* Every request type through failing commits, btree errors and a failover: answers are durable, inode ranges disjoint, waiters woken.
CONSTANTS
  Handlers = {h1, h2}
  Rids = {r1}
  NoHandler = NoHandler
  InoMax <- MCInoMax
  InoCounts <- MCSmallInoCounts
  SeqMax <- MCSmallSeqMax
  ZoneInputs <- MCSmallZoneInputs
  DataFillTarget = 2
  TotalDataBlocks = 16
  MaxZones = 2
  MaxRestarts = 1
  BtreeErrors = TRUE
  Requested <- MCAll
SPECIFICATION Spec
INVARIANT TypeOK
INVARIANT AckedDurable
PROPERTY WaiterCompletesOfOne
