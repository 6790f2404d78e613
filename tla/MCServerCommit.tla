--------------------------- MODULE MCServerCommit ---------------------------
(* Instance of ServerCommit for TLC: two concurrent handlers, two mounts,  *)
(* 2-bit inode numbers so next_ino saturates, one failover.               *)
EXTENDS ServerCommit, TLC

MCInoMax == 3            \* U64_MAX with 2-bit inode numbers
MCInoCounts == {1, 3}    \* 3 reaches the U64_MAX clamp from next_ino 1
MCSeqMax == 4
\* 1 < fill target; 4 < total / max zones; 8 valid; 17 > total blocks
MCZoneInputs == {1, 4, 8, 17}
MCSeqIno == {"ALLOC_INODES", "ADVANCE_SEQ", "GET_LAST_SEQ"}
MCVolopt == {"SET_VOLOPT", "CLEAR_VOLOPT"}
MCVoloptIno == MCVolopt \cup {"ALLOC_INODES"}
MCAll == MCSeqIno \cup MCVolopt
\* smaller inputs for the liveness run over every request type
MCSmallInoCounts == {3}
MCSmallSeqMax == 2
MCSmallZoneInputs == {1, 8}
\* handlers are interchangeable receive workers
MCHandlerSymmetry == Permutations(Handlers)
(***************************************************************************)
(* WaiterCompletes for one handler.  The receive workers are              *)
(* interchangeable (the safety run checks under their permutations), so   *)
(* the one CHOOSE picks stands for every handler sleeping in              *)
(* scoutfs_server_apply_commit; it keeps the liveness check to a single   *)
(* branch.                                                                *)
(***************************************************************************)
WaiterCompletesOfOne ==
  LET h == CHOOSE x \in Handlers : TRUE
  IN hs[h].pc = "wait" ~> hs[h].pc # "wait"
=============================================================================
