CONSTANTS
  Objs = {o1, o2}
  NoObj = NoObj
  Blknos <- MCBlknos
  InitBlk <- MCInitBlk
  SeqMax = 3
  VerMax = 2
  MaxCrashes = 1
  BlockWriteErrors = FALSE
  SuperWriteErrors = TRUE
SPECIFICATION Spec
\* behaviours end when the transaction seq reaches its bound
CHECK_DEADLOCK FALSE
INVARIANT NoLostUpdate
