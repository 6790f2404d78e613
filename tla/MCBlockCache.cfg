\* COW, dirty tracking and write_dirty with crashes and no IO errors implement atomic commits.
CONSTANTS
  Objs = {o1, o2}
  NoObj = NoObj
  Blknos <- MCBlknos
  InitBlk <- MCInitBlk
  SeqMax = 3
  VerMax = 2
  MaxCrashes = 1
  BlockWriteErrors = FALSE
  SuperWriteErrors = FALSE
SPECIFICATION Spec
INVARIANT TypeOK
PROPERTY ImplementsAtomicCommit
\* behaviours end when the transaction seq reaches its bound
CHECK_DEADLOCK FALSE
