----------------------------- MODULE BlockCache -----------------------------
(***************************************************************************)
(* The metadata block layer (src/kmod/src/block.c): buffer heads cached   *)
(* over the device, the dirty tree of blocks the transaction modified,    *)
(* copy-on-write of stable blocks by scoutfs_block_dirty_ref, and         *)
(* scoutfs_block_write_dirty with its asynchronous end_io completions.    *)
(*                                                                         *)
(* The structures that own block references (btrees, the allocator) are   *)
(* abstracted to one reference per object in Objs, kept in the dirty super *)
(* block.  Their callers, the buddy allocator and the transaction commit  *)
(* that writes the super block are not in this repository: they are      *)
(* modelled from the spec (sections 4.A and 4.C) and marked so in the map. *)
(* A block's contents are the object it holds and a version the caller    *)
(* bumps each time it writes into the block.                              *)
(***************************************************************************)
EXTENDS Integers, FiniteSets, FiniteSetsExt

CONSTANTS
  Objs,              \* structures that each own one block reference
  Blknos,            \* metadata block numbers, a set of positive integers
  InitBlk,           \* the block mkfs wrote for each object
  SeqMax,            \* bound on the transaction seq
  VerMax,            \* bound on writes into one object's block
  MaxCrashes,        \* bound on crashes
  BlockWriteErrors,  \* TRUE when a block write can complete with an error
  SuperWriteErrors,  \* TRUE when the super block write can fail
  NoObj              \* model value: the block holds no object

ASSUME Blknos \subseteq Nat \ {0} /\ InitBlk \in [Objs -> Blknos]
ASSUME \A o, p \in Objs : o # p => InitBlk[o] # InitBlk[p]
ASSUME SeqMax \in Nat /\ VerMax \in Nat /\ MaxCrashes \in Nat
ASSUME NoObj \notin Objs

VARIABLES
  cache,       \* buffer heads: a block's header and contents, or Absent
  disk,        \* what the device holds at each blkno
  seq,         \* sbi->super.hdr.seq, the seq of the dirty transaction
  refs,        \* the dirty super's block reference for each object
  stable,      \* the super block on disk: its seq and references
  free,        \* blocks the buddy allocator can hand out now
  pending,     \* blocks freed this transaction, reusable after its commit
  stableFree,  \* the free blocks recorded with the super block on disk
  ver,         \* the last version each object's caller wrote
  stableVer,   \* the versions the super block on disk references
  wd,          \* scoutfs_block_write_dirty in progress
  crashes

vars == <<cache, disk, seq, refs, stable, free, pending, stableFree, ver,
          stableVer, wd, crashes>>

Absent == [obj |-> NoObj]

\* header seq, contents, b_private set (in the dirty tree), buffer locked
Buffers == [seq: 0..SeqMax + 1, obj: Objs \cup {NoObj}, ver: 0..VerMax,
            dirty: BOOLEAN, locked: BOOLEAN]

Refs == [blkno: {0} \cup Blknos, seq: 0..SeqMax + 1]
NoRef == [blkno |-> 0, seq |-> 0]

Unwritten == [seq |-> 0, obj |-> NoObj, ver |-> 0]

Init ==
  LET initRefs == [o \in Objs |-> [blkno |-> InitBlk[o], seq |-> 1]]
      initFree == Blknos \ {InitBlk[o] : o \in Objs}
  IN /\ cache = [b \in Blknos |-> Absent]
     /\ disk = [b \in Blknos |->
                  IF \E o \in Objs : InitBlk[o] = b
                  THEN [seq |-> 1, obj |-> CHOOSE o \in Objs : InitBlk[o] = b,
                        ver |-> 0]
                  ELSE Unwritten]
     /\ seq = 2
     /\ refs = initRefs
     /\ stable = [seq |-> 1, refs |-> initRefs]
     /\ free = initFree
     /\ pending = {}
     /\ stableFree = initFree
     /\ ver = [o \in Objs |-> 0]
     /\ stableVer = [o \in Objs |-> 0]
     /\ wd = [pc |-> "idle", todo |-> {}, writes |-> 0, err |-> FALSE, ret |-> 0]
     /\ crashes = 0

Cached(b) == cache[b] # Absent
DirtySet == {b \in Blknos : Cached(b) /\ cache[b].dirty}

\* sb_bread: the cached buffer, or the block read from the device.
Bread(b) ==
  IF Cached(b) THEN cache[b]
  ELSE [seq |-> disk[b].seq, obj |-> disk[b].obj, ver |-> disk[b].ver,
        dirty |-> FALSE, locked |-> FALSE]

\* The transaction machinery excludes dirtying while blocks are written.
InTrans == wd.pc = "idle" /\ seq <= SeqMax

(***************************************************************************)
(* The buddy allocator (spec 4.B): a block freed at the dirty seq was      *)
(* never stable and is reusable at once; one freed at an older seq is     *)
(* still referenced by the stable super and waits for the commit.         *)
(***************************************************************************)
BuddyFree(fseq, b) ==
  IF fseq = seq THEN /\ free' = free \cup {b} /\ UNCHANGED pending
  ELSE /\ pending' = pending \cup {b} /\ UNCHANGED free

(***************************************************************************)
(* scoutfs_block_dirty: get the buffer, insert it in the dirty tree and    *)
(* stamp the header with the dirty seq.                                   *)
(***************************************************************************)
\* Mutant: insert_bhp skipped, the block is not tracked in the dirty tree.
BlockDirtyUntracked(b, obj, v) ==
  [seq |-> seq, obj |-> obj, ver |-> v, dirty |-> FALSE, locked |-> FALSE]

BlockDirty(b, obj, v) ==
  [seq |-> seq, obj |-> obj, ver |-> v, dirty |-> TRUE, locked |-> FALSE]

\* Mutant: the old block is freed at the dirty seq instead of its own.
OldBlockFreeSeqDirty(hdr) == seq

\* buddy_free(sb, hdr->seq, ...) of the block being copied away from
OldBlockFreeSeq(hdr) == hdr.seq

(***************************************************************************)
(* scoutfs_block_dirty_ref: a reference at the dirty seq is returned as it *)
(* is.  Otherwise allocate a block near it, dirty it, free the old block  *)
(* at its header's seq, copy the contents and point the reference at the  *)
(* copy.  With no free block the reference is left alone.                 *)
(***************************************************************************)
DirtyRef(o) ==
  /\ InTrans
  /\ refs[o] # NoRef
  /\ LET r == refs[o]
         bl == Bread(r.blkno)
     IN IF r.seq = seq
        THEN /\ cache' = [cache EXCEPT ![r.blkno] = bl]
             /\ UNCHANGED <<refs, free, pending>>
        ELSE \E nb \in free :
               /\ cache' = [cache EXCEPT ![r.blkno] = bl,
                                         ![nb] = BlockDirty(nb, bl.obj, bl.ver)]
               /\ LET now == OldBlockFreeSeq(bl) = seq
                  IN /\ free' = (free \ {nb}) \cup (IF now THEN {r.blkno} ELSE {})
                     /\ pending' = pending \cup (IF now THEN {} ELSE {r.blkno})
               /\ refs' = [refs EXCEPT ![o] = [blkno |-> nb, seq |-> seq]]
  /\ UNCHANGED <<disk, seq, stable, stableFree, ver, stableVer, wd, crashes>>

(***************************************************************************)
(* The caller writes into the block dirty_ref gave it: a reference at the *)
(* dirty seq and the buffer it holds.                                      *)
(***************************************************************************)
Modify(o) ==
  /\ InTrans
  /\ refs[o] # NoRef /\ refs[o].seq = seq
  /\ Cached(refs[o].blkno)
  /\ ver[o] < VerMax
  /\ cache' = [cache EXCEPT ![refs[o].blkno].ver = ver[o] + 1]
  /\ ver' = [ver EXCEPT ![o] = ver[o] + 1]
  /\ UNCHANGED <<disk, seq, refs, stable, free, pending, stableFree,
                 stableVer, wd, crashes>>

\* scoutfs_block_dirty_alloc: allocate a block and dirty it for a new object.
DirtyAlloc(o) ==
  /\ InTrans
  /\ refs[o] = NoRef
  /\ \E nb \in free :
       /\ free' = free \ {nb}
       /\ cache' = [cache EXCEPT ![nb] = BlockDirty(nb, o, 0)]
       /\ refs' = [refs EXCEPT ![o] = [blkno |-> nb, seq |-> seq]]
  /\ UNCHANGED <<disk, seq, stable, pending, stableFree, ver, stableVer, wd,
                 crashes>>

(***************************************************************************)
(* A structure drops its block: the caller frees it at the reference's    *)
(* seq and scoutfs_block_forget erases it from the dirty tree and forgets  *)
(* the buffer if it was dirty.                                             *)
(***************************************************************************)
Drop(o) ==
  /\ InTrans
  /\ refs[o] # NoRef
  /\ LET b == refs[o].blkno
     IN /\ BuddyFree(refs[o].seq, b)
        /\ cache' = IF Cached(b) /\ cache[b].dirty
                    THEN [cache EXCEPT ![b] = Absent] ELSE cache
  /\ refs' = [refs EXCEPT ![o] = NoRef]
  /\ ver' = [ver EXCEPT ![o] = 0]
  /\ UNCHANGED <<disk, seq, stable, stableFree, stableVer, wd, crashes>>

\* The kernel reclaims a clean, unlocked buffer nobody holds (brelse).
Evict(b) ==
  /\ Cached(b) /\ ~cache[b].dirty /\ ~cache[b].locked
  /\ cache' = [cache EXCEPT ![b] = Absent]
  /\ UNCHANGED <<disk, seq, refs, stable, free, pending, stableFree, ver,
                 stableVer, wd, crashes>>

(***************************************************************************)
(* scoutfs_block_write_dirty: block_writes starts at 1 for the submitter, *)
(* each dirty block in blkno order is locked and submitted, then the       *)
(* submitter drops its count and waits for the count to reach zero.      *)
(***************************************************************************)
\* Mutant: block_writes starts at 0, without the submitter's own count.
WriteDirtyStartUncounted ==
  /\ wd.pc = "idle" /\ seq <= SeqMax
  /\ wd' = [pc |-> "submit", todo |-> DirtySet, writes |-> 0, err |-> FALSE,
            ret |-> 0]
  /\ UNCHANGED <<cache, disk, seq, refs, stable, free, pending, stableFree,
                 ver, stableVer, crashes>>

WriteDirtyStart ==
  /\ wd.pc = "idle" /\ seq <= SeqMax
  /\ wd' = [pc |-> "submit", todo |-> DirtySet, writes |-> 1, err |-> FALSE,
            ret |-> 0]
  /\ UNCHANGED <<cache, disk, seq, refs, stable, free, pending, stableFree,
                 ver, stableVer, crashes>>

\* submit_bh "doesn't actually fail": every submission succeeds.
SubmitBlock ==
  /\ wd.pc = "submit" /\ wd.todo # {}
  /\ LET b == Min(wd.todo)
     IN /\ cache' = [cache EXCEPT ![b].locked = TRUE]
        /\ wd' = [wd EXCEPT !.todo = @ \ {b}, !.writes = @ + 1]
  /\ UNCHANGED <<disk, seq, refs, stable, free, pending, stableFree, ver,
                 stableVer, crashes>>

SubmitDone ==
  /\ wd.pc = "submit" /\ wd.todo = {}
  /\ wd' = [wd EXCEPT !.pc = "drain", !.writes = @ - 1]
  /\ UNCHANGED <<cache, disk, seq, refs, stable, free, pending, stableFree,
                 ver, stableVer, crashes>>

(***************************************************************************)
(* block_write_end_io: unlock; a block written without error leaves the   *)
(* dirty tree, one with an error stays dirty and sets block_write_err.    *)
(***************************************************************************)
WriteEndIo(b) ==
  /\ Cached(b) /\ cache[b].locked
  /\ \E ok \in IF BlockWriteErrors THEN BOOLEAN ELSE {TRUE} :
       IF ok
       THEN /\ disk' = [disk EXCEPT ![b] = [seq |-> cache[b].seq,
                                            obj |-> cache[b].obj,
                                            ver |-> cache[b].ver]]
            /\ cache' = [cache EXCEPT ![b].locked = FALSE, ![b].dirty = FALSE]
            /\ wd' = [wd EXCEPT !.writes = @ - 1]
       ELSE /\ cache' = [cache EXCEPT ![b].locked = FALSE]
            /\ wd' = [wd EXCEPT !.writes = @ - 1, !.err = TRUE]
            /\ UNCHANGED disk
  /\ UNCHANGED <<seq, refs, stable, free, pending, stableFree, ver, stableVer,
                 crashes>>

\* wait_event until every write completed; the submit result is returned.
WriteDirtyReturn ==
  /\ wd.pc = "drain" /\ wd.writes = 0
  /\ wd' = [wd EXCEPT !.pc = "done"]
  /\ UNCHANGED <<cache, disk, seq, refs, stable, free, pending, stableFree,
                 ver, stableVer, crashes>>

(***************************************************************************)
(* The transaction commit (spec 4.C): when write_dirty returned success,  *)
(* write the super block; once it is written the freed blocks become free *)
(* and the next transaction gets the next seq.                             *)
(***************************************************************************)
CommitSuper ==
  /\ wd.pc = "done"
  /\ \E ok \in IF SuperWriteErrors THEN BOOLEAN ELSE {TRUE} :
       IF wd.ret = 0 /\ ok
       THEN /\ stable' = [seq |-> seq, refs |-> refs]
            /\ stableVer' = ver
            /\ free' = free \cup pending
            /\ pending' = {}
            /\ stableFree' = free \cup pending
            /\ seq' = seq + 1
       ELSE UNCHANGED <<stable, stableVer, free, pending, stableFree, seq>>
  /\ wd' = [wd EXCEPT !.pc = "idle"]
  /\ UNCHANGED <<cache, disk, refs, ver, crashes>>

(***************************************************************************)
(* A crash: the cache and the dirty transaction are lost, writes in       *)
(* flight may or may not have reached the device, and the mount restarts  *)
(* from the super block on disk.                                          *)
(***************************************************************************)
Crash ==
  /\ crashes < MaxCrashes
  /\ \E landed \in SUBSET {b \in Blknos : Cached(b) /\ cache[b].locked} :
       disk' = [b \in Blknos |->
                  IF b \in landed
                  THEN [seq |-> cache[b].seq, obj |-> cache[b].obj,
                        ver |-> cache[b].ver]
                  ELSE disk[b]]
  /\ cache' = [b \in Blknos |-> Absent]
  /\ seq' = stable.seq + 1
  /\ refs' = stable.refs
  /\ free' = stableFree
  /\ pending' = {}
  /\ ver' = stableVer
  /\ wd' = [pc |-> "idle", todo |-> {}, writes |-> 0, err |-> FALSE, ret |-> 0]
  /\ crashes' = crashes + 1
  /\ UNCHANGED <<stable, stableFree, stableVer>>

Next ==
  \/ \E o \in Objs : DirtyRef(o) \/ Modify(o) \/ DirtyAlloc(o) \/ Drop(o)
  \/ \E b \in Blknos : Evict(b) \/ WriteEndIo(b)
  \/ WriteDirtyStart \/ SubmitBlock \/ SubmitDone \/ WriteDirtyReturn
  \/ CommitSuper
  \/ Crash

Spec == Init /\ [][Next]_vars

-----------------------------------------------------------------------------
TypeOK ==
  /\ cache \in [Blknos -> Buffers \cup {Absent}]
  /\ disk \in [Blknos -> [seq: 0..SeqMax + 1, obj: Objs \cup {NoObj},
                          ver: 0..VerMax]]
  /\ seq \in 1..SeqMax + 1
  /\ refs \in [Objs -> Refs]
  /\ stable \in [seq: 0..SeqMax + 1, refs: [Objs -> Refs]]
  /\ free \subseteq Blknos /\ pending \subseteq Blknos
  /\ stableFree \subseteq Blknos
  /\ ver \in [Objs -> 0..VerMax] /\ stableVer \in [Objs -> 0..VerMax]
  /\ wd \in [pc: {"idle", "submit", "drain", "done"}, todo: SUBSET Blknos,
             writes: 0..Cardinality(Blknos) + 1, err: BOOLEAN, ret: {0}]
  /\ crashes \in 0..MaxCrashes

(***************************************************************************)
(* Reading an object through its current reference finds the last thing  *)
(* its caller wrote, from the cache or, once the buffer was reclaimed,    *)
(* from the device: every block a transaction modifies stays in the dirty *)
(* tree until it is written.                                               *)
(***************************************************************************)
NoLostUpdate ==
  \A o \in Objs :
    refs[o] # NoRef =>
      /\ Bread(refs[o].blkno).obj = o
      /\ Bread(refs[o].blkno).ver = ver[o]

-----------------------------------------------------------------------------
(***************************************************************************)
(* The refinement mapping to AtomicCommit.  An object's image through a  *)
(* reference is the version of the block it names, if that block holds   *)
(* the object at the reference's seq, and -1, no image at all, if it does *)
(* not.  The durable image is read from the device through the super      *)
(* block on disk, the current one as a reader would read it now.          *)
(***************************************************************************)
ImageAt(o, r, bl) ==
  IF r = NoRef THEN NoObj
  ELSE IF bl.obj = o /\ bl.seq = r.seq THEN bl.ver ELSE -1

DurableImage == [o \in Objs |-> ImageAt(o, stable.refs[o], disk[stable.refs[o].blkno])]

CurrentImage == [o \in Objs |-> ImageAt(o, refs[o], Bread(refs[o].blkno))]

AC == INSTANCE AtomicCommit
        WITH durable <- DurableImage, current <- CurrentImage,
             MaxVer <- VerMax, Gone <- NoObj

(***************************************************************************)
(* The block layer with the commit implements atomic commits: a write    *)
(* never lands on a block the super block on disk names, so the durable   *)
(* image only changes when a super block is written, and then it is the  *)
(* image readers saw; what a reader sees only changes by a caller's write, *)
(* alloc or drop, through copy on write, buffer reclaim and end_io, and a *)
(* crash brings back exactly the durable image.                           *)
(***************************************************************************)
ImplementsAtomicCommit == AC!Spec

=============================================================================
