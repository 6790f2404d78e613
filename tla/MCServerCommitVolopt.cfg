\* SET/CLEAR_VOLOPT beside ALLOC_INODES commits, with failing commits and a failover.
CONSTANTS
  Handlers = {h1, h2}
  Rids = {r1}
  NoHandler = NoHandler
  InoMax <- MCInoMax
  InoCounts <- MCInoCounts
  SeqMax <- MCSeqMax
  ZoneInputs <- MCZoneInputs
  DataFillTarget = 2
  TotalDataBlocks = 16
  MaxZones = 2
  MaxRestarts = 1
  BtreeErrors = FALSE
  Requested <- MCVoloptIno
SPECIFICATION Spec
SYMMETRY MCHandlerSymmetry
INVARIANT PublishedVoloptNotRejected
