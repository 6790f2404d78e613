--------------------------- MODULE MCDirEntries ----------------------------
(* DirEntries with three names, one salt and a hash space of offsets      *)
(* 2..4 with windows of two.  a's window is [3,4]; b's crc 7 is clamped   *)
(* down to 4 and its window cut at LastPos to [4,4]; c's crc 0 is clamped *)
(* up to 2, so its window [2,3] overlaps a's.                             *)
EXTENDS DirEntries, TLC

CONSTANTS a, b, c, s1

MCNames == {a, b, c}
MCNameLen == (a :> 1) @@ (b :> 2) @@ (c :> 1)
MCSalts == {s1}
MCCrc == s1 :> ((a :> 3) @@ (b :> 7) @@ (c :> 0))
=============================================================================
