--------------------------- MODULE MCInodeAlloc ----------------------------
(* InodeAlloc with 3-bit inode numbers, so that the wrap is reached.     *)
EXTENDS InodeAlloc, TLC

CONSTANTS t1, t2, t3

MCTasks == {t1, t2, t3}
MCTaskSymmetry == Permutations(MCTasks)
=============================================================================
