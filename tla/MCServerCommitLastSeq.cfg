\* GET_LAST_SEQ reads the dirty trans_seqs; ADVANCE_SEQ after a failover.
CONSTANTS
  Handlers = {h1, h2}
  Rids = {r1, r2}
  NoHandler = NoHandler
  InoMax <- MCInoMax
  InoCounts <- MCInoCounts
  SeqMax <- MCSeqMax
  ZoneInputs <- MCZoneInputs
  DataFillTarget = 2
  TotalDataBlocks = 16
  MaxZones = 2
  MaxRestarts = 1
  BtreeErrors = TRUE
  Requested <- MCSeqIno
SPECIFICATION Spec
SYMMETRY MCHandlerSymmetry
PROPERTY SeqIssuedAboveLastSeq
