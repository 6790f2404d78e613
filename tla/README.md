# TLA+ models of the scoutfs server and block layer

These modules model the kernel sources under `src/kmod/src`. Those sources are:
- `server.c`: the cluster server that the elected leader mount runs.
- `block.c`: the metadata block cache and writer.
- `dir.c` and `inode.c`: directory entry placement and inode numbers.
- `counters.h`: statistics.

Each module is translated from the code. `PROJECT.json` maps every definition to the lines it models.

## The system and how its parts interact

- **Commit batching** (`server.c`, `scoutfs_server_hold_commit`, `scoutfs_server_apply_commit`, `scoutfs_server_commit_func`).
  - Request handlers take `commit_rwsem` for read and change the in-memory super block.
  - Each handler then adds a waiter to the `commit_waiters` llist, queues the single `commit_work`, drops the rwsem and sleeps.
  - The commit worker takes the rwsem for write, refills and writes the allocators and dirty blocks, and writes the super block.
  - It completes every waiter with the one result.
  - A failed commit leaves the handlers' changes in the dirty super block.
- **Request handlers.**
  - ALLOC_INODES hands out `next_ino` ranges. The count saturates at U64_MAX.
  - ADVANCE_SEQ and GET_LAST_SEQ maintain the `trans_seqs` btree of open client transactions.
  - GET/SET/CLEAR_VOLOPT manage the volume options:
    - Readers see `server->volopt`.
    - SET and CLEAR change the dirty super under `volopt_mutex`.
    - After the commit they publish the change, or restore the old options if the commit failed.
  - GET/COMMIT_LOG_TREES hand each mount its own metadata allocators (`meta_avail` to allocate from, `meta_freed` for what it frees) inside a `log_trees` item. GET splices the mount's freed list into the server's `other_freed` and fills its avail from `meta_avail`; COMMIT records the roots the mount wrote.
  - The srch compaction requests and the lock/omap forwarding handlers are listed below.
- **Server metadata allocators** (`server.c`, `scoutfs_server_commit_func`, `server_get_log_trees`, `reclaim_log_trees`, `scoutfs_server_worker`).
  - The super holds two banks of `server_meta_avail`/`server_meta_freed`. The server allocates from bank `other_ind ^ 1` (its `server->alloc`) and fills and empties bank `other_ind`.
  - Each commit fills `other_avail` from `meta_avail`, empties `other_freed` into `meta_freed`, writes `server->alloc` back into its bank and the super block, and only then swizzles `other_ind` and, when `meta_avail` is low and `meta_freed` is not, swaps the two.
  - `reclaim_log_trees` splices a departed mount's freed and avail lists into `other_freed` and BUG_ONs if the item's update fails afterwards.
  - A new server picks the larger bank to allocate from and the larger of `meta_alloc[0..1]` as `meta_avail`.
- **Data allocation zones** (`server.c`, `get_data_alloc_zone_bits`, `mod_extent_bits`, `mod_bitmap_bits`, `server_set_volopt`).
  - When the `data_alloc_zone_blocks` option is set, the data device is split into zones of that many blocks.
  - Each `log_trees` item records the zones its mount's `data_avail` extents lie in, and the zone size they were stamped at.
  - At each GET_LOG_TREES the server walks every item in key order. It computes the zones only the caller uses (exclusive) and the zones nobody uses (vacant) at the current size, and these steer the refill. It then restamps the caller's item.
  - `reclaim_log_trees` zeroes a departed mount's bitmap.
- **Server lifecycle.**
  - `scoutfs_server_worker` reads the super block and publishes the options.
  - It then sets up the allocators, starts recovery and accepts connections.
  - A new leader repeats this from whatever the last successful commit wrote.
- **Client lifecycle** (`server.c`).
  - `server_greeting` inserts a `mounted_clients` item for a new mount (server_term 0), marked QUORUM when the mount is a quorum member. It queues `farewell_work` and finishes the rid's greeting recovery. If its hold, insert or commit fails, the mount is answered with an error and its recovery is not finished; an item inserted before a failed commit stays in the dirty tree.
  - `server_farewell` appends a request to `farewell_requests` and queues the work. `server_notify_down` frees the requests of a dropped connection.
  - `farewell_worker` runs on the server workqueue, concurrently with the receive workers:
    1. it splices the requests and counts quorum and other mounts with items;
    2. it answers requests whose item is gone and those of non-quorum mounts, and holds the quorum ones;
    3. it releases quorum requests while more than a majority would remain, or when the requests are from every remaining mount;
    4. it runs `reclaim_rid` for each, then sends the responses, and puts back what it could not send.
  - A new server's `start_recovery` waits for every rid with an item. The timeout fences the ones still pending, and `reclaim_worker` reclaims each fenced rid and finishes its recovery.
- **Block layer** (`block.c`).
  - Buffer heads are cached over the device. Blocks a transaction modifies sit in a dirty rbtree.
  - `scoutfs_block_dirty_ref` copies a stable block to a new blkno (copy on write) and frees the old one at its own seq.
  - `scoutfs_block_write_dirty` submits every dirty block and waits for the asynchronous `block_write_end_io` calls.
  - Blocks whose write failed stay dirty.
- **Directory entries** (`dir.c`).
  - `name_hash` maps a name, with the directory's salt, to a key offset in [2, `SCOUTFS_DIRENT_LAST_POS`].
  - `scoutfs_mknod` creates the inode item first (`scoutfs_new_inode`, `inode.c`), then probes the window of `SCOUTFS_DIRENT_COLL_NR` offsets from the hash. It inserts at the offset after the window's last item, or answers ENOSPC.
  - `scoutfs_lookup` scans the same window for an equal name and remembers the offset in the dentry. `scoutfs_unlink` deletes the item at that remembered offset.
  - `scoutfs_readdir` walks the items from `f_pos`, which survives between getdents calls.
- **Inode numbers in a mount** (`inode.c`).
  - `scoutfs_alloc_ino` tests `next_ino_count` without a lock. If the batch looked empty it calls `get_next_ino_batch`, then takes a number under `next_ino_lock`, or loops on EAGAIN.
  - `get_next_ino_batch` refills an empty batch from the dirty super's `next_ino` under the wrlock and the spinlock, and refuses a batch that would wrap.

## Modules

| module | models | state | actions |
|---|---|---|---|
| `ServerCommit` | commit batching and the ALLOC_INODES, ADVANCE_SEQ, GET_LAST_SEQ, SET/CLEAR_VOLOPT handlers, plus a server failover | `super` (dirty super block), `disk` (super block last written), `readers`/`cw`/`waiters` (rwsem, commit_work, llist), `hs` (each receive worker's request), `volopt`, `voloptOwner` | one action per handler step: hold and change the super, `ApplyCommit`, the response; the commit worker in three steps; `ServerRestart` |
| `BlockCache` | `block.c` | `cache` (buffer heads: header seq, contents, in dirty tree, locked), `disk`, the dirty super's `refs`, the `stable` super on disk, buddy `free`/`pending` | `DirtyRef`, `DirtyAlloc`, `Drop` (free and `scoutfs_block_forget`), `Evict` (buffer reclaim), `WriteDirtyStart`/`SubmitBlock`/`SubmitDone`/`WriteEndIo`/`WriteDirtyReturn`, `CommitSuper`, `Crash` |
| `DirEntries` | `dir.c` with `scoutfs_new_inode` | `items` (dirent items: dir, offset, name, ino), `inodes` (mode, nlink, i_size, salt of each inode item), `nextIno`, `dcache` (positive dentries with their remembered offset), `rd` (one open directory: `f_pos`, what it returned, what it must return) | `Mknod` (with its error, ENOSPC and success outcomes), `Unlink`, `Lookup`, `DentryRelease`, `OpenDir`, `Getdents` |
| `AtomicCommit` | the promise of the block layer and the commit (spec 4.A–4.C), abstract | `durable` and `current`: each object's version, or Gone | `Update`, `Create`, `Delete`, `Commit`, `Crash` |
| `ClientLifecycle` | `server.c` greeting, farewell, recovery, fencing and reclaim | `client` (each mount's own state, from the spec), `connected`, `mounted` (the `mounted_clients` items), `requests` (`farewell_requests`, a bag since one rid can have two), `queued`, `fw` (the worker's step, its local lists and counts), `pending` (the recovery set), `timer`, `fencing`/`fenced`, `resend` | `Greeting`, `GreetingFailed`, `Farewell`, `NotifyDown`, the worker's four loops `FwCount`/`FwCheck`/`FwDecide`/`FwReclaim` and `FwRespond`, `ServerRestart` (`start_recovery`), `RecoveryTimeout`, `FenceComplete` (spec), `ReclaimWorker` |
| `ServerAlloc` | `server.c` metadata allocator banks, GET/COMMIT_LOG_TREES, `reclaim_log_trees`, the commit's fill, empty, write-back and swap, server startup | `super` (dirty super: `meta_alloc[0..1]`, the two banks, the fs root, the `log_trees` items by rid), `disk` (the super last written), `srv` (`other_ind`, which `meta_alloc` is avail, `server->alloc`, whether the root is dirty this commit), `cl` (each mount's request and the allocators it writes from), `reclaim` (each departed rid's reclaim) | `GetLogTrees`, `CommitLogTrees`, `ReclaimLogTrees`, `Commit` (commit_func with its three failure points), `ServerDown` (failover, also the BUG_ON), the mount's `ClientWrite`/`ClientCommit`/`Depart` (spec) |
| `ZoneBits` | `server.c` zone bitmaps of the `log_trees` items, their use in GET_LOG_TREES, SET/CLEAR_VOLOPT of the zone size, `reclaim_log_trees` | `zoneBlocks` (the option, 0 when unset), `items` (each rid's zone bits and the size they were stamped at), `last` (the latest `get_data_alloc_zone_bits` call and its result) | `SetVolopt`, `ClearVolopt`, `GetLogTrees`, `ReclaimLogTrees`; the bit arithmetic is operators (`ModExtentBits`, `ModBitmapBits`, `GetDataAllocZoneBits` as a `FoldLeft` over the items in key order) |
| `InodeAlloc` | `inode.c` inode number batches | `superNextIno`, `nextIno`, `nextInoCount`, `pc` per task | `Start`, `Check` (the unlocked test), `GetNextInoBatch`, `Take` |

History variables record what clients were told:
- `ackedIno`, `ackedSeq`, `lastSeq`, `ackedVol` and `rejectedVol` in `ServerCommit`.
- `ver` and `stableVer` in `BlockCache`.
- `rd.emitted`, `rd.present` and `lastMknod` in `DirEntries`.
- `issued` in `InodeAlloc`.
- `client` in `ClientLifecycle`.
- `last` in `ZoneBits`.

The properties are stated over these variables.

Some code that `block.c` relies on is not in this repository:
- the buddy allocator;
- the btree callers that write into the blocks;
- the transaction commit that writes the super block.

`BlockCache` models these from the spec (sections 4.A–4.C). They are marked `spec_modelled` in the map.

### Abstractions

- **`ServerCommit`.**
  - The super block keeps only the fields the modelled handlers touch. These are `next_ino`, `next_trans_seq`, `trans_seqs` as a set of `<<seq, rid>>`, and the one option `data_alloc_zone_blocks` (0 when its bit is clear).
  - Every way a commit can fail is one nondeterministic outcome of the write: forced unmount, allocator refill, block writes, super block write.
  - 64-bit inode numbers are modelled at a 2-bit width (`InoMax = 3`). This makes the U64_MAX clamp reachable.
- **`BlockCache`.**
  - Btrees are abstracted to one block reference per object.
  - A block's contents are the object it holds and a version that the caller bumps on each write.
- **`DirEntries`.**
  - The crc32c of a name is a constant table per salt. Only its masked value matters, and the table is chosen so that windows overlap and clamp.
  - mknod, unlink and lookup each run whole under the directory's `i_mutex` (held by the VFS) and the wrlock, so each is one action.
  - The VFS side is written as guards:
    - mknod only runs for a name whose lookup found nothing;
    - unlink only runs for a positive dentry;
    - neither runs in a removed directory.
  - Failures of the wrlock, `dirty_inode_item` or the btree calls that change nothing are left out. Failures that leave the inode item behind are `Mknod` outcomes.
  - A readdir call returns a nondeterministic number of entries, standing for the filldir buffer filling up. `.` and `..` are positions 0 and 1.
- **`ServerAlloc`.**
  - An allocator tree is the set of blocks it holds; `scoutfs_alloc_move` of n blocks moves the n lowest. `fill_list` moves blocks up to the fill target when the list is below the low mark, and fails with nothing moved when the source is short.
  - Every server btree update is one copy-on-write of the fs root per commit: the first update of a commit takes the lowest block of `server->alloc.avail` and puts the old root in its freed list, later ones find the root dirty. A handler whose update cannot allocate takes its error path.
  - A mount's transaction is one copy-on-write of its own log root from its `meta_avail`, then COMMIT_LOG_TREES. The mount side follows spec sections 4.E and 4.F; it is not in this repository.
  - Handlers run whole: they hold `commit_rwsem` for read and `logs_mutex`, and the commit takes the rwsem for write. `empty_list` is taken to move everything or nothing.
  - A failed reclaim update (the BUG_ON) ends the server, so it is the failover step. `ShortFills = FALSE` keeps GET_LOG_TREES to the cases where `meta_avail` can serve the fill; `TRUE` lets it fail, which is the `alloc_short` finding.
  - The data allocators, `data_alloc`, the zone bitmaps and the srch and fs trees' own blocks are left out.
- **`InodeAlloc`.**
  - Inode numbers are `Width` bits wide, so the wrap test is reached. The spinlock sections are atomic steps, and the unlocked test is a step of its own.
- **`ClientLifecycle`.**
  - The client and the fence are not in this repository; a mount's states (new, mounted, leaving, done, fenced) and the fence completing follow spec section 4.F.
  - A new mount's greeting may fail at its hold, its insert or its commit (`GreetingFailed`). A failed hold changes nothing and is a stuttering step. The other two queue `farewell_work`, and a failed commit keeps the inserted item. The mount may greet again or never come back. The commits of `reclaim_rid` succeed; `ServerCommit` covers failing commits. The fsid and version rejection, the shutdown flag and `stop_server` on errors are left out.
  - The recovery steps of the lock and omap servers are folded into the greeting: a greeting finishes the rid's recovery.
  - Each loop of `farewell_worker` is one step. The `mounted_clients_mutex` is taken per item, so greetings, drops and `reclaim_worker` interleave between the loops. The order of the quorum requests is a nondeterministic choice of which ones are released.
  - A farewell response reaches a connected mount, which then unmounts; the send loop stops at the first mount no longer connected.

- **`ZoneBits`.**
  - A bitmap is the set of its bit numbers. `set_bit_le` is not bounded, so a bit at or above `MaxZones` stands for a write past the `SCOUTFS_DATA_ALLOC_MAX_ZONES` bits.
  - One `log_trees` item per rid. Each restamp is for one `data_avail` extent that the refill leaves, chosen nondeterministically. How `alloc.c` prefers the exclusive and vacant zones is not in this repository and is not modelled.
  - The handlers run whole under `logs_mutex`. Their btree errors skip the item update and change no zone state, so they are left out.

## Refinement

`BlockCache` is shown to implement `AtomicCommit` (`AC == INSTANCE AtomicCommit WITH ...`, checked as the property `ImplementsAtomicCommit == AC!Spec` in the `block_cow` run). The mapping:
- `durable` is read from the device through the super block on disk: for each object, the version of the block its stable reference names, if that block holds the object at the reference's seq.
- `current` is what a reader sees now through the dirty super's reference: the cached buffer, or the device once the buffer was reclaimed (`Bread`).
- A block that holds something else maps to no image at all, so any step that overwrites a stable block, or loses a write into a dirty one, is a step `AtomicCommit` does not allow.

`DirtyRef`, `Evict`, the write_dirty steps and `WriteEndIo` are stuttering steps of the abstract spec; `Modify`, `DirtyAlloc` and `Drop` are `Update`, `Create` and `Delete`; a successful `CommitSuper` is `Commit`; `Crash` is `Crash`. The block-layer finding is a run of the concrete invariant `NoLostUpdate`, one half of the refinement stated on its own, with the failed super block write that breaks it.

## Runs

| run | cfg | expect | what it shows |
|---|---|---|---|
| `commit_ino_seq` | `MCServerCommit.cfg` | pass | under every request type, failing commits, btree errors and a failover, ALLOC_INODES and ADVANCE_SEQ answers survive (`AckedDurable`), `next_ino` saturates at U64_MAX without wrapping (`TypeOK`), and a handler sleeping on its commit is always woken (`WaiterCompletesOfOne`) |
| `last_seq_reissued` | `MCServerCommitLastSeq.cfg` | violation | GET_LAST_SEQ answers from uncommitted state, and after a failed commit and a failover a seq at or below an answered last_seq is handed out again |
| `volopt_rejected_published` | `MCServerCommitVolopt.cfg` | violation | a SET_VOLOPT answered with an error is written by a re-queued commit before its restore and published by the next server |
| `block_cow` | `MCBlockCache.cfg` | pass | with a crash at any step, `BlockCache` implements `AtomicCommit` (`ImplementsAtomicCommit`): copy on write never overwrites a block the super block on disk names, so the durable image changes only at a commit, and no write into a dirty block is lost |
| `dir_entries` | `MCDirEntries.cfg` | pass | with overlapping and clamped windows, btree errors, and readdir streams interleaved with mknod and unlink: every entry stays findable (`LookupFindsEveryEntry`), no entry outlives its directory (`NoDanglingEntry`), link counts stay right (`LinkCountsMatch`), and a stream neither repeats nor misses an entry (`ReaddirNoRepeat`, `ReaddirComplete`) |
| `ino_batch` | `MCInodeAlloc.cfg` | pass | racing tasks never get the same inode number and no number is dropped, through to the ENOSPC at the wrap (`InoNeverReissued`, `NoInoLeaked`), and every `scoutfs_alloc_ino` call returns despite the EAGAIN loop (`AllocReturns`) |
| `client_lifecycle` | `MCClientLifecycle.cfg` | pass | through drops, failed responses, resent farewells, a server restart, late greetings racing the recovery timeout, fencing and reclaim: a mount that is up keeps its item (`ActiveMountHasItem`), no farewell is answered before its item is deleted (`FarewellAfterReclaim`), and every recovery ends (`RecoveryCompletes`) |
| `farewell_stale_count` | `MCClientLifecycleQuorum.cfg` | violation | `farewell_worker` releases a quorum farewell from counts taken before a concurrent greeting, leaving the new quorum mount below the majority (`FarewellHoldOnCurrentMounts`) |
| `server_alloc` | `MCServerAlloc.cfg` | pass | two mounts getting, writing and committing log trees, departing and being reclaimed with partial splices, commits failing at the fill, the block write or the super write, and a failover: every metadata block has exactly one holder in the dirty and in the written super (`BlocksOwnedOnce`), and no block a root on disk uses can be allocated (`DurableBlocksNotAllocatable`) |
| `alloc_short` | `MCServerAllocShort.cfg` | violation | GET_LOG_TREES splices the mount's freed blocks into `other_freed`, fails filling from a short `meta_avail`, and skips the item update; the next commit writes both, so a block has two holders on disk (`BlocksOwnedOnce`) |
| `block_clean_after_failed_commit` | `MCBlockCacheSuperWrite.cfg` | violation | after a commit whose super block write failed, `dirty_ref` treats a clean block as dirty and the writes into it are lost |
| `zone_exclusive_order` | `MCZoneBits.cfg` | violation | `get_data_alloc_zone_bits` reports a zone as exclusive to the caller when a lower rid's item also uses it, because the lower item is cleared before the caller's item sets the bit again (`ZoneBitsAsSpecified`) |

### Bounds

- **`ServerCommit`.**
  - Two receive workers, which is enough for a request to interleave with another's commit. Handler symmetry is used in the safety runs.
  - `last_seq_reissued` uses two rids, so ADVANCE_SEQ can interleave for two clients; a 2-bit inode space with counts {1, 3}, so the clamp at U64_MAX is reached; `next_trans_seq` up to 4; zone sizes {1, 4, 8, 17}, one for each branch of the SET_VOLOPT validation; and one failover.
  - `commit_ino_seq` checks liveness too, so it has no symmetry and uses one rid, the count 3 (which still reaches the clamp), `next_trans_seq` up to 2, zone sizes {1, 8} (one rejected, one accepted), btree errors and one failover. `WaiterCompletesOfOne` is stated for one handler: the handlers are interchangeable, so one stands for all and the check stays within the time limit.
- **`ServerAlloc`.**
  - Two mounts and seven blocks: the fs root, one block in each bank, and four in `meta_alloc[0]`. That is enough for both mounts to hold a block, for a commit to COW the root, and for fills to find `meta_avail` empty (the swap case and the finding).
  - Fill low mark, fill target and allocator minimum of one block, so every fill moves at most one block and the swap test's both sides are reached.
  - IO errors on, so commits fail at each of their three points and reclaim splices stop after zero, one or two lists; one failover.
  - Once every mount has departed and been reclaimed the model stutters (`AllUnmounted`); every other state has a step, so deadlock is checked.
- **`BlockCache`.**
  - Two objects on three blocks. The one free block forces a COW copy onto a block another reference has just left.
  - Two commits and one crash. The crash may land any subset of the writes in flight.
  - The run stops at the seq bound, so its cfg turns off the deadlock check.
- **`DirEntries`.**
  - Three names, one salt and offsets 2..4 with windows of two.
    - `a`'s window is [3,4].
    - `b`'s crc of 7 is clamped down to 4, and its window is cut at `LastPos` to [4,4], inside `a`'s.
    - `c`'s crc of 0 is clamped up to 2, so its window [2,3] overlaps `a`'s.
  - Three inode numbers after the root, so a subdirectory can be created and then filled or removed.
  - A filldir buffer holds at most two entries, so a stream takes several calls.
- **`InodeAlloc`.**
  - Three tasks, 3-bit inode numbers and batches of two from `next_ino` 2. Two batches (2..3 and 4..5) are handed out. The third would end exactly at 2^3, so `next_ino + SCOUTFS_INO_BATCH` wraps to 0 and the refill answers ENOSPC: the exact edge of the wrap test. The run checks liveness as well, so it has no symmetry.
- **`ClientLifecycle`.**
  - Two quorum mounts with a majority of two, and one other mount: both branches of the release test and the non-quorum path are reached, and one quorum mount leaving drops the other below the majority.
  - Failed greetings need no bound: a failed greeting leaves the mount new, so repeating it reaches no new state.
  - One dropped connection and one server restart: enough for a held request to be put back after its connection dropped, and for a farewell to be resent to a new server after its item was reclaimed.
  - The run stops once every mount has unmounted or been fenced and the bounds are spent, so its cfg turns off the deadlock check.

- **`ZoneBits`.**
  - Two rids, 4 data blocks and 2 zones, with zone sizes {1, 2, 4} offered to SET_VOLOPT. Size 1 is rejected by the floor check (4 / 2 = 2). Sizes 2 and 4 give two zones and one zone, so items stamped at one size are translated to the other.
  - Extents of one or two blocks, so an extent can span a zone boundary.
  - `DataFillTarget` is 1, so the fill-target check never rejects a size on its own.

### Fairness

`WaiterCompletesOfOne` assumes weak fairness of the commit worker steps, and of each handler's steps after it holds the commit. These are kernel work items and threads that the scheduler runs once they are runnable. Clients need not send requests, so starting a request is not fair.

`RecoveryCompletes` assumes weak fairness of the farewell worker's steps, of the recovery timeout, of a started fence completing, and of `reclaim_worker`. The timer and the workers are kernel work items, `reclaim_worker` requeues itself, and the fence is an external agent that the spec requires to finish. Mounts need not greet, so greeting is not fair: that is what the timeout is for.

`AllocReturns` assumes weak fairness of each task's steps inside `scoutfs_alloc_ino`, which are its own code running, and none for starting a create.

## Findings

The seven violation runs each state what the code's comments or the spec promise, and TLC finds each promise broken. See `findings` in `PROJECT.json`. The newest, `alloc_short`, is a partial failure in `server_get_log_trees` (`server.c:642`): the splice of the mount's `meta_freed` into `other_freed` is kept in the dirty super after the fill fails, while the `goto unlock` skips the item update. The spec (section 7) says a NoSpc error modifies no server state.

`zone_exclusive_order` is in `get_data_alloc_zone_bits` (`server.c:520`). The items are walked in key order. A lower rid's item clears a zone's exclusive bit before the caller's item sets it again, so the caller is told a shared zone is exclusive.

A second zone edge is recorded as a hazard at `server.c:1352`, not as a run. The floor check of SET_VOLOPT rounds `total_data_blocks / MAX_ZONES` down. With 5 data blocks and 2 zones it accepts a zone size of 2, which needs three zones, so the next GET_LOG_TREES sets bits past the bitmaps. `ZoneBitsAsSpecified` fails that way under a 5-block cfg.

## Not modelled (yet)

- The data allocators of the log trees and `data_alloc`. `ServerAlloc` models only the metadata allocators. `ZoneBits` models the zone bitmaps but not the extents the refill chooses from them, which `alloc.c` (not in this repository) decides.
- The block write error path. `block_write_end_io` records a failure in `sbi->block_write_err`, which `scoutfs_block_write_dirty` resets and does not read. Whether a commit reports the failure depends on a caller that is not in this repository, so no run checks it; the hazard at `block.c:266` records it.
- A partial `scoutfs_alloc_empty_list` in the commit: its comment says it "might be partial", but `alloc.c` is not in this repository, so the model moves all of `other_freed` or nothing.
- mknod's ENOSPC while an earlier offset of the name's window is free (`dir.c:352`, the comment says it finds "the first unoccupied key offset"). `DirEntries` models it, and an earlier version of this project had a violation run for it. That run was dropped to keep the number of runs at twelve, and the hazard at `dir.c:360` records it.
- In the client lifecycle: failing commits in `reclaim_rid` (each ends in `stop_server`), the shutdown flag and `stop_server`, and the fsid and version checks. The spec's §8 scenario 4 (two of three quorum farewells held) depends on `scoutfs_quorum_votes_needed`, which is not in this repository; the model takes the majority as a constant.
- The failed mknod that leaves its inode item (`dir.c:392`) is in `DirEntries`' `Mknod` outcomes, but no run checks it; the code's XXX comment there records the leak.
- In `inode.c`:
  - `scoutfs_iget` and the field-by-field load and store of the inode item (conversions no property looks at);
  - `dirty_inode_item`, whose failure changes nothing.
- The other mounts of the cluster. `DirEntries` and `InodeAlloc` model one mount, whose wrlocks keep the others out.
- Pure forwarding:
  - the lock and open-inode-map request handlers, which forward to `lock_server.c` and `omap.c` (not in this repository);
  - srch compaction, which forwards to `srch.c`. The spec puts the srch internals out of scope, and the compaction requests' state lives in srch items that model nothing the server decides.
- `counters.h`: statistics only.

## Plan

Remaining work:
1. An abstract directory specification, a map from names to inodes, that `DirEntries` refines when its window never fills.
2. A pass run for `ZoneBits`. It needs a run slot: the project keeps to twelve runs.
