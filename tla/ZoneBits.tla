------------------------------ MODULE ZoneBits ------------------------------
(***************************************************************************)
(* The data allocation zone bitmaps of server.c.  Each log_trees item      *)
(* records the zones its mount's data_avail extents lie in, at the zone    *)
(* size (data_alloc_zone_blocks) in force when it was stamped.  At each    *)
(* GET_LOG_TREES the server walks every item in key order and computes     *)
(* the zones only the caller uses (exclusive) and the zones nobody uses    *)
(* (vacant) at the current size, translating each item's bits through the  *)
(* block extents they stand for.  SET/CLEAR_VOLOPT change the zone size,   *)
(* and reclaim_log_trees zeroes a departed mount's bitmap.                 *)
(*                                                                         *)
(* A bitmap is the set of its bit numbers.  Nothing bounds the numbers a   *)
(* set_bit_le may be given, so a bit at or above MaxZones stands for a     *)
(* write past SCOUTFS_DATA_ALLOC_MAX_ZONES bits.  One log_trees item per   *)
(* rid (nr 1), as server_get_log_trees creates it.  Handlers run whole     *)
(* under logs_mutex; their btree errors change no zone state, since each   *)
(* skips the item update, and are left out.                               *)
(***************************************************************************)
EXTENDS Naturals, FiniteSets, SequencesExt

CONSTANTS
    Rids,            \* mount rids; the log_trees key orders items by rid
    TotalDataBlocks, \* super->total_data_blocks
    MaxZones,        \* SCOUTFS_DATA_ALLOC_MAX_ZONES
    DataFillTarget,  \* SCOUTFS_SERVER_DATA_FILL_TARGET
    ZoneInputs,      \* data_alloc_zone_blocks values SET_VOLOPT is sent
    ExtentLens       \* lengths of the data_avail extents a refill hands out

ASSUME Rids \subseteq Nat /\ TotalDataBlocks \in Nat \ {0}
ASSUME MaxZones \in Nat \ {0} /\ DataFillTarget \in Nat
ASSUME ZoneInputs \subseteq Nat /\ ExtentLens \subseteq Nat \ {0}

VARIABLES
    zoneBlocks,  \* server->volopt data_alloc_zone_blocks, 0 when unset
    items,       \* rid -> [zones, blocks]: data_alloc_zones, data_alloc_zone_blocks
    last         \* the latest get_data_alloc_zone_bits call and its result

vars == <<zoneBlocks, items, last>>

DataBlocks == 0..(TotalDataBlocks - 1)

NoCall == [rid |-> 0, zb |-> 0, items |-> <<>>, exclusive |-> {}, vacant |-> {}]

(* mod_extent_bits: set or clear the bits of every zone the extent         *)
(* overlaps; a zero length warns and changes nothing.                      *)
ModExtentBits(bits, zb, blkno, len, set) ==
    IF len = 0 THEN bits
    ELSE LET r == (blkno \div zb)..((blkno + len - 1) \div zb)
         IN  IF set THEN bits \cup r ELSE bits \ r

(* mod_bitmap_bits: each source bit below MaxZones is the extent of its    *)
(* zone at the source size, applied to the destination at its own size.    *)
ModBitmapBits(dst, dzb, src, szb, set) ==
    LET r == UNION {ModExtentBits({}, dzb, nr * szb, szb, TRUE) :
                        nr \in {n \in src : n < MaxZones}}
    IN  IF set THEN dst \cup r ELSE dst \ r

(* zero_data_alloc_zone_bits                                               *)
ZeroDataAllocZoneBits == [zones |-> {}, blocks |-> 0]

(* set_extent_zone_bits, called for the extent of data_avail.             *)
SetExtentZoneBits(zb, start, len) == [zones |-> ModExtentBits({}, zb, start, len, TRUE), blocks |-> zb]

(* The loop body of get_data_alloc_zone_bits for the item of rid `r`.     *)
ZoneStep(caller, zb, its, acc, r) ==
    [exclusive |-> ModBitmapBits(acc.exclusive, zb, its[r].zones, its[r].blocks, r = caller),
     vacant    |-> ModBitmapBits(acc.vacant, zb, its[r].zones, its[r].blocks, FALSE)]

(* get_data_alloc_zone_bits: every zone of the device starts vacant, and   *)
(* the items are visited in key order.                                     *)
GetDataAllocZoneBits(caller, zb, its) ==
    FoldLeft(LAMBDA acc, r : ZoneStep(caller, zb, its, acc, r),
             [exclusive |-> {}, vacant |-> ModExtentBits({}, zb, 0, TotalDataBlocks, TRUE)],
             SetToSortSeq(DOMAIN its, <))

(* server_set_volopt's checks of data_alloc_zone_blocks.                  *)
ZoneBlocksValid(opt) ==
    /\ opt >= DataFillTarget
    /\ opt >= TotalDataBlocks \div MaxZones
    /\ opt <= TotalDataBlocks

Init ==
    /\ zoneBlocks = 0
    /\ items = <<>>
    /\ last = NoCall

(* SET_VOLOPT of data_alloc_zone_blocks; a rejected value answers EINVAL.  *)
SetVolopt(opt) ==
    /\ ZoneBlocksValid(opt)
    /\ zoneBlocks' = opt
    /\ UNCHANGED <<items, last>>

ClearVolopt ==
    /\ zoneBlocks # 0
    /\ zoneBlocks' = 0
    /\ UNCHANGED <<items, last>>

(* server_get_log_trees: a new rid gets a zeroed item; with zones set the  *)
(* exclusive and vacant bits steer the refill, and the item is restamped   *)
(* from the data_avail extent the refill leaves it.                        *)
GetLogTrees(r) ==
    LET lt0 == IF r \in DOMAIN items THEN items[r] ELSE ZeroDataAllocZoneBits
        its == r :> lt0 @@ items
    IN  \E start \in DataBlocks, len \in ExtentLens :
          /\ start + len <= TotalDataBlocks
          /\ items' = [its EXCEPT ![r] =
                          IF zoneBlocks = 0 THEN ZeroDataAllocZoneBits
                          ELSE SetExtentZoneBits(zoneBlocks, start, len)]
          /\ last' = IF zoneBlocks = 0 THEN last
                     ELSE LET b == GetDataAllocZoneBits(r, zoneBlocks, its)
                          IN  [rid |-> r, zb |-> zoneBlocks, items |-> its,
                               exclusive |-> b.exclusive, vacant |-> b.vacant]
          /\ UNCHANGED zoneBlocks

(* reclaim_log_trees: the departed mount's item stays, its zones zeroed.   *)
ReclaimLogTrees(r) ==
    /\ r \in DOMAIN items
    /\ items' = [items EXCEPT ![r] = ZeroDataAllocZoneBits]
    /\ UNCHANGED <<zoneBlocks, last>>

Next ==
    \/ \E opt \in ZoneInputs : SetVolopt(opt)
    \/ ClearVolopt
    \/ \E r \in Rids : GetLogTrees(r) \/ ReclaimLogTrees(r)

Spec == Init /\ [][Next]_vars

-----------------------------------------------------------------------------

(* The blocks an item's bits stand for, as extents of its own zone size.   *)
ItemBlocks(it) ==
    UNION {(nr * it.blocks)..((nr + 1) * it.blocks - 1) : nr \in {n \in it.zones : n < MaxZones}}

ZoneUsers(its, z, zb) ==
    {r \in DOMAIN its : ItemBlocks(its[r]) \cap (z * zb)..((z + 1) * zb - 1) # {}}

DeviceZones(zb) == {z \in 0..(MaxZones - 1) : z * zb < TotalDataBlocks}

(* What spec 4.E says GET_LOG_TREES computes: exclusive, the zones of the  *)
(* device only the caller's items use, and vacant, the zones no item uses, *)
(* at the current zone size and within the MaxZones bits of the bitmaps.   *)
(* The walk in key order and the bit arithmetic of mod_extent_bits,        *)
(* mod_bitmap_bits and the zone-size checks of SET_VOLOPT must give        *)
(* exactly these.                                                          *)
ZoneBitsAsSpecified ==
    last.zb # 0 =>
        /\ last.exclusive = {z \in DeviceZones(last.zb) : ZoneUsers(last.items, z, last.zb) = {last.rid}}
        /\ last.vacant = {z \in DeviceZones(last.zb) : ZoneUsers(last.items, z, last.zb) = {}}

=============================================================================
