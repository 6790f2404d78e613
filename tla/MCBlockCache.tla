---------------------------- MODULE MCBlockCache ----------------------------
(* Instance of BlockCache for TLC: two objects on three blocks, so a COW    *)
(* copy can land on a block a stable reference still names.              *)
EXTENDS BlockCache

MCBlknos == 1..3
MCInitBlk == [o \in Objs |-> IF o = CHOOSE p \in Objs : TRUE THEN 1 ELSE 2]
=============================================================================
