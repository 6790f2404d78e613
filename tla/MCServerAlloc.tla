--------------------------- MODULE MCServerAlloc ---------------------------
(* Instance of ServerAlloc for TLC: two mounts, a handful of blocks, one  *)
(* failover, fill target and allocator minimum of one block.              *)
EXTENDS ServerAlloc

CONSTANTS r1, r2

MCRids == {r1, r2}
MCBlks == 1..7
\* mkfs: the server's roots in block 1, one block in each bank
MCInitBank == [i \in 0..1 |-> {i + 2}]
=============================================================================
