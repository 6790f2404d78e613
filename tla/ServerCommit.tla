---------------------------- MODULE ServerCommit ----------------------------
(***************************************************************************)
(* The server's batched commits (src/kmod/src/server.c) and the request    *)
(* handlers that mutate the super block through them.                      *)
(*                                                                         *)
(* Handlers take commit_rwsem for read (scoutfs_server_hold_commit), make  *)
(* their changes to the in-memory super block, add a commit_waiter to the  *)
(* commit_waiters llist, queue commit_work and drop the rwsem              *)
(* (scoutfs_server_apply_commit), then sleep on their completion.  The     *)
(* single commit_work (scoutfs_server_commit_func) takes the rwsem for     *)
(* write, writes the super block and completes every waiter with the same  *)
(* result.  The handlers modelled are ALLOC_INODES, ADVANCE_SEQ,           *)
(* GET_LAST_SEQ, GET/SET/CLEAR_VOLOPT.  A server failover loses all        *)
(* in-memory state; the next server starts from the super block on disk.  *)
(*                                                                         *)
(* Data abstraction: the super block keeps only next_ino, next_trans_seq,  *)
(* the trans_seqs btree as a set of <<seq, rid>> and the one volume option *)
(* (data_alloc_zone_blocks, 0 when its set_bits bit is clear).  All the    *)
(* ways a commit can fail (forcing unmount, allocator refill, block or     *)
(* super write errors) are one nondeterministic outcome of the write.      *)
(***************************************************************************)
EXTENDS Integers, FiniteSets, FiniteSetsExt

CONSTANTS
  Handlers,         \* net receive workers running request handlers
  Rids,             \* mount ids of connected clients
  InoMax,           \* U64_MAX at the modelled width, 2^W - 1
  InoCounts,        \* counts clients send in ALLOC_INODES
  SeqMax,           \* bound on next_trans_seq
  ZoneInputs,       \* data_alloc_zone_blocks values sent in SET_VOLOPT
  DataFillTarget,   \* SCOUTFS_SERVER_DATA_FILL_TARGET
  TotalDataBlocks,  \* super->total_data_blocks
  MaxZones,         \* SCOUTFS_DATA_ALLOC_MAX_ZONES
  MaxRestarts,      \* bound on server failovers
  BtreeErrors,      \* TRUE when scoutfs_btree_insert may fail
  Requested,        \* the request types clients send
  NoHandler         \* model value: volopt_mutex is free

ASSUME InoMax \in Nat \ {0} /\ InoCounts \subseteq Nat \ {0}
ASSUME SeqMax \in Nat \ {0} /\ MaxRestarts \in Nat
ASSUME ZoneInputs \subseteq Nat \ {0} /\ BtreeErrors \in BOOLEAN
ASSUME NoHandler \notin Handlers
ASSUME Requested \subseteq {"ALLOC_INODES", "ADVANCE_SEQ", "GET_LAST_SEQ",
                            "SET_VOLOPT", "CLEAR_VOLOPT"}

VARIABLES
  super,        \* SCOUTFS_SB(sb)->super, the dirty in-memory super block
  disk,         \* the super block last written by scoutfs_write_super
  readers,      \* handlers holding commit_rwsem for read
  cw,           \* commit_work: queued (pending) and where the worker is
  waiters,      \* handlers on the commit_waiters llist
  hs,           \* each handler's request in progress
  volopt,       \* server->volopt, what GET_VOLOPT and the server read
  voloptOwner,  \* holder of volopt_mutex
  restarts,     \* failovers so far
  ackedIno,     \* inode ranges [lo, hi) returned by ALLOC_INODES
  ackedSeq,     \* seqs returned by ADVANCE_SEQ
  lastSeq,      \* the largest seq returned by GET_LAST_SEQ
  ackedVol,     \* option values a SET/CLEAR_VOLOPT committed and published
  rejectedVol   \* option values a SET/CLEAR_VOLOPT was answered an error for

vars == <<super, disk, readers, cw, waiters, hs, volopt, voloptOwner,
          restarts, ackedIno, ackedSeq, lastSeq, ackedVol, rejectedVol>>

Cmds == {"ALLOC_INODES", "ADVANCE_SEQ", "SET_VOLOPT", "CLEAR_VOLOPT"}

SuperBlocks == [next_ino: 0..InoMax, next_trans_seq: 0..SeqMax,
                trans_seqs: SUBSET ((0..SeqMax) \X Rids),
                volopt: {0} \cup ZoneInputs]

Requests == [pc: {"idle", "held", "wait", "done"}, cmd: Cmds, rid: Rids,
             ino: 0..InoMax, nr: 0..InoMax, seq: 0..SeqMax,
             val: {0} \cup ZoneInputs, err: BOOLEAN, ret: {"none", "ok", "err"}]

IdleRequest == [pc |-> "idle", cmd |-> "ALLOC_INODES", rid |-> CHOOSE r \in Rids : TRUE,
                ino |-> 0, nr |-> 0, seq |-> 0, val |-> 0, err |-> FALSE,
                ret |-> "none"]

\* The super block mkfs leaves: root inode allocated, no transactions yet.
InitialSuper == [next_ino |-> 1, next_trans_seq |-> 1, trans_seqs |-> {},
                 volopt |-> 0]

Init ==
  /\ super = InitialSuper
  /\ disk = InitialSuper
  /\ readers = {}
  /\ cw = [pending |-> FALSE, pc |-> "idle"]
  /\ waiters = {}
  /\ hs = [h \in Handlers |-> IdleRequest]
  /\ volopt = InitialSuper.volopt
  /\ voloptOwner = NoHandler
  /\ restarts = 0
  /\ ackedIno = {}
  /\ ackedSeq = {}
  /\ lastSeq = 0
  /\ ackedVol = {InitialSuper.volopt}
  /\ rejectedVol = {}

(***************************************************************************)
(* down_read(commit_rwsem): readers queue behind a writer that is waiting  *)
(* for or holding the rwsem.                                               *)
(***************************************************************************)
CanHoldCommit == cw.pc \notin {"wait", "locked"}

HoldCommit(h, req) ==
  /\ readers' = readers \cup {h}
  /\ hs' = [hs EXCEPT ![h] = [req EXCEPT !.pc = "held", !.ret = "none"]]

(***************************************************************************)
(* server_alloc_inodes: hold the commit and take ino..ino+nr from next_ino, *)
(* nr clamped so that next_ino saturates at U64_MAX.                       *)
(***************************************************************************)
\* Mutant: the count taken as sent, without the U64_MAX clamp.
AllocInodesCountUnclamped(ino, count) == count

AllocInodesCount(ino, count) == Min({count, InoMax - ino})

HoldAllocInodes(h) ==
  /\ "ALLOC_INODES" \in Requested
  /\ hs[h].pc = "idle"
  /\ CanHoldCommit
  /\ \E count \in InoCounts :
       LET ino == super.next_ino
           nr  == AllocInodesCount(ino, count)
       IN /\ super' = [super EXCEPT !.next_ino = (ino + nr) % (InoMax + 1)]
          /\ HoldCommit(h, [hs[h] EXCEPT !.cmd = "ALLOC_INODES",
                                         !.ino = ino, !.nr = nr, !.err = FALSE])
  /\ UNCHANGED <<disk, cw, waiters, volopt, voloptOwner, restarts,
                 ackedIno, ackedSeq, lastSeq, ackedVol, rejectedVol>>

(***************************************************************************)
(* server_advance_seq: under seq_rwsem remove all of the rid's trans_seq   *)
(* items, take next_trans_seq and insert <<seq, rid>>.  A failed insert    *)
(* leaves the removal and the increment in the dirty super block.  A       *)
(* client has one ADVANCE_SEQ outstanding at a time.                       *)
(***************************************************************************)
HoldAdvanceSeq(h) ==
  /\ "ADVANCE_SEQ" \in Requested
  /\ hs[h].pc = "idle"
  /\ CanHoldCommit
  /\ super.next_trans_seq < SeqMax
  /\ \E r \in Rids, fail \in IF BtreeErrors THEN BOOLEAN ELSE {FALSE} :
       LET seq  == super.next_trans_seq
           kept == {t \in super.trans_seqs : t[2] # r}
       IN /\ \A o \in Handlers : hs[o].pc # "idle" => ~(hs[o].cmd = "ADVANCE_SEQ" /\ hs[o].rid = r)
          /\ super' = [super EXCEPT !.next_trans_seq = seq + 1,
                                    !.trans_seqs = IF fail THEN kept
                                                   ELSE kept \cup {<<seq, r>>}]
          /\ HoldCommit(h, [hs[h] EXCEPT !.cmd = "ADVANCE_SEQ", !.rid = r,
                                         !.seq = IF fail THEN 0 ELSE seq,
                                         !.err = fail])
  /\ UNCHANGED <<disk, cw, waiters, volopt, voloptOwner, restarts,
                 ackedIno, ackedSeq, lastSeq, ackedVol, rejectedVol>>

(***************************************************************************)
(* server_get_last_seq: without the commit rwsem, read the dirty           *)
(* trans_seqs under seq_rwsem: the least open seq minus one, or            *)
(* next_trans_seq minus one when none is open.                             *)
(***************************************************************************)
LastSeqOf(sb) ==
  IF sb.trans_seqs = {} THEN sb.next_trans_seq - 1
  ELSE Min({t[1] : t \in sb.trans_seqs}) - 1

GetLastSeq(h) ==
  /\ "GET_LAST_SEQ" \in Requested
  /\ hs[h].pc = "idle"
  /\ lastSeq' = Max({lastSeq, LastSeqOf(super)})
  /\ UNCHANGED <<super, disk, readers, cw, waiters, hs, volopt, voloptOwner,
                 restarts, ackedIno, ackedSeq, ackedVol, rejectedVol>>

(***************************************************************************)
(* server_set_volopt: take volopt_mutex and the commit, check the zone     *)
(* size against the fill target, the zone count and the device size, and  *)
(* store it in the dirty super block.  Zone value 0 stands for a request   *)
(* without the zone bit in set_bits.                                       *)
(***************************************************************************)
ZoneBlocksInvalid(v) ==
  \/ v < DataFillTarget
  \/ v < TotalDataBlocks \div MaxZones
  \/ v > TotalDataBlocks

HoldSetVolopt(h) ==
  /\ "SET_VOLOPT" \in Requested
  /\ hs[h].pc = "idle"
  /\ voloptOwner = NoHandler
  /\ CanHoldCommit
  /\ \E v \in {0} \cup ZoneInputs :
       LET bad == v # 0 /\ ZoneBlocksInvalid(v)
           set == IF v # 0 /\ ~bad THEN v ELSE super.volopt
       IN /\ super' = [super EXCEPT !.volopt = set]
          /\ HoldCommit(h, [hs[h] EXCEPT !.cmd = "SET_VOLOPT", !.val = set,
                                         !.err = bad])
  /\ voloptOwner' = h
  /\ UNCHANGED <<disk, cw, waiters, volopt, restarts,
                 ackedIno, ackedSeq, lastSeq, ackedVol, rejectedVol>>

\* server_clear_volopt: clear the options whose bits the request sets.
HoldClearVolopt(h) ==
  /\ "CLEAR_VOLOPT" \in Requested
  /\ hs[h].pc = "idle"
  /\ voloptOwner = NoHandler
  /\ CanHoldCommit
  /\ \E clear \in BOOLEAN :
       LET set == IF clear THEN 0 ELSE super.volopt
       IN /\ super' = [super EXCEPT !.volopt = set]
          /\ HoldCommit(h, [hs[h] EXCEPT !.cmd = "CLEAR_VOLOPT", !.val = set,
                                         !.err = FALSE])
  /\ voloptOwner' = h
  /\ UNCHANGED <<disk, cw, waiters, volopt, restarts,
                 ackedIno, ackedSeq, lastSeq, ackedVol, rejectedVol>>

(***************************************************************************)
(* scoutfs_server_apply_commit: without an error, add the waiter to the    *)
(* llist and queue commit_work; then drop the read hold.  With an error    *)
(* return it at once: the changes already made stay in the dirty super.   *)
(***************************************************************************)
\* Mutant: the waiter is added to the llist but commit_work is not queued.
ApplyCommitWithoutQueue(h) ==
  /\ hs[h].pc = "held"
  /\ readers' = readers \ {h}
  /\ \/ /\ ~hs[h].err
        /\ waiters' = waiters \cup {h}
        /\ hs' = [hs EXCEPT ![h].pc = "wait"]
        /\ UNCHANGED cw
     \/ /\ hs[h].err
        /\ hs' = [hs EXCEPT ![h].pc = "done", ![h].ret = "err"]
        /\ UNCHANGED <<waiters, cw>>
  /\ UNCHANGED <<super, disk, volopt, voloptOwner, restarts,
                 ackedIno, ackedSeq, lastSeq, ackedVol, rejectedVol>>

ApplyCommit(h) ==
  /\ hs[h].pc = "held"
  /\ readers' = readers \ {h}
  /\ \/ /\ ~hs[h].err
        /\ waiters' = waiters \cup {h}
        /\ cw' = [cw EXCEPT !.pending = TRUE]
        /\ hs' = [hs EXCEPT ![h].pc = "wait"]
     \/ /\ hs[h].err
        /\ hs' = [hs EXCEPT ![h].pc = "done", ![h].ret = "err"]
        /\ UNCHANGED <<waiters, cw>>
  /\ UNCHANGED <<super, disk, volopt, voloptOwner, restarts,
                 ackedIno, ackedSeq, lastSeq, ackedVol, rejectedVol>>

(***************************************************************************)
(* commit_work: the workqueue starts a queued work (clearing pending) only *)
(* when it is not already running; the worker then waits in down_write.   *)
(***************************************************************************)
CommitStart ==
  /\ cw.pending /\ cw.pc = "idle"
  /\ cw' = [pending |-> FALSE, pc |-> "wait"]
  /\ UNCHANGED <<super, disk, readers, waiters, hs, volopt, voloptOwner,
                 restarts, ackedIno, ackedSeq, lastSeq, ackedVol, rejectedVol>>

CommitLock ==
  /\ cw.pc = "wait" /\ readers = {}
  /\ cw' = [cw EXCEPT !.pc = "locked"]
  /\ UNCHANGED <<super, disk, readers, waiters, hs, volopt, voloptOwner,
                 restarts, ackedIno, ackedSeq, lastSeq, ackedVol, rejectedVol>>

(***************************************************************************)
(* scoutfs_server_commit_func under the write lock: refill and write the   *)
(* allocators and dirty blocks, write the super block; any failure skips   *)
(* the rest.  Then llist_del_all and complete every waiter with the one    *)
(* result, and up_write.                                                   *)
(***************************************************************************)
Completed(ret) ==
  [h \in Handlers |-> IF h \in waiters
                      THEN [hs[h] EXCEPT !.pc = "done", !.ret = ret]
                      ELSE hs[h]]

\* Mutant: waiters are completed with success whether or not the write failed.
CommitRunIgnoringError ==
  /\ cw.pc = "locked"
  /\ \E ok \in BOOLEAN :
       /\ disk' = IF ok THEN super ELSE disk
       /\ hs' = Completed("ok")
  /\ waiters' = {}
  /\ cw' = [cw EXCEPT !.pc = "idle"]
  /\ UNCHANGED <<super, readers, volopt, voloptOwner, restarts,
                 ackedIno, ackedSeq, lastSeq, ackedVol, rejectedVol>>

CommitRun ==
  /\ cw.pc = "locked"
  /\ \E ok \in BOOLEAN :
       /\ disk' = IF ok THEN super ELSE disk
       /\ hs' = Completed(IF ok THEN "ok" ELSE "err")
  /\ waiters' = {}
  /\ cw' = [cw EXCEPT !.pc = "idle"]
  /\ UNCHANGED <<super, readers, volopt, voloptOwner, restarts,
                 ackedIno, ackedSeq, lastSeq, ackedVol, rejectedVol>>

(***************************************************************************)
(* The handlers' responses after apply_commit returns.                     *)
(***************************************************************************)
RespondAllocInodes(h) ==
  /\ hs[h].pc = "done" /\ hs[h].cmd = "ALLOC_INODES"
  /\ ackedIno' = IF hs[h].ret = "ok"
                 THEN ackedIno \cup {<<hs[h].ino, hs[h].ino + hs[h].nr>>}
                 ELSE ackedIno
  /\ hs' = [hs EXCEPT ![h] = IdleRequest]
  /\ UNCHANGED <<super, disk, readers, cw, waiters, volopt, voloptOwner,
                 restarts, ackedSeq, lastSeq, ackedVol, rejectedVol>>

RespondAdvanceSeq(h) ==
  /\ hs[h].pc = "done" /\ hs[h].cmd = "ADVANCE_SEQ"
  /\ ackedSeq' = IF hs[h].ret = "ok" THEN ackedSeq \cup {hs[h].seq} ELSE ackedSeq
  /\ hs' = [hs EXCEPT ![h] = IdleRequest]
  /\ UNCHANGED <<super, disk, readers, cw, waiters, volopt, voloptOwner,
                 restarts, ackedIno, lastSeq, ackedVol, rejectedVol>>

(***************************************************************************)
(* After apply_commit in set/clear_volopt: under the volopt seqcount       *)
(* publish the committed options, or put the dirty super's options back   *)
(* from server->volopt; then drop volopt_mutex.  Neither is under the     *)
(* commit rwsem.                                                           *)
(***************************************************************************)
PublishVolopt(h) ==
  /\ hs[h].pc = "done" /\ hs[h].cmd \in {"SET_VOLOPT", "CLEAR_VOLOPT"}
  /\ \/ /\ hs[h].ret = "ok"
        /\ volopt' = super.volopt
        /\ ackedVol' = ackedVol \cup {super.volopt}
        /\ UNCHANGED <<super, rejectedVol>>
     \/ /\ hs[h].ret = "err"
        /\ super' = [super EXCEPT !.volopt = volopt]
        /\ rejectedVol' = IF hs[h].val # volopt THEN rejectedVol \cup {hs[h].val}
                          ELSE rejectedVol
        /\ UNCHANGED <<volopt, ackedVol>>
  /\ voloptOwner' = NoHandler
  /\ hs' = [hs EXCEPT ![h] = IdleRequest]
  /\ UNCHANGED <<disk, readers, cw, waiters, restarts,
                 ackedIno, ackedSeq, lastSeq>>

(***************************************************************************)
(* The server stops (an error, a lost quorum election) and another mount  *)
(* becomes the server: scoutfs_server_worker reads the super block and    *)
(* publishes its volume options.  Requests in flight are lost.            *)
(***************************************************************************)
ServerRestart ==
  /\ restarts < MaxRestarts
  /\ restarts' = restarts + 1
  /\ super' = disk
  /\ volopt' = disk.volopt
  /\ readers' = {}
  /\ waiters' = {}
  /\ cw' = [pending |-> FALSE, pc |-> "idle"]
  /\ hs' = [h \in Handlers |-> IdleRequest]
  /\ voloptOwner' = NoHandler
  /\ UNCHANGED <<disk, ackedIno, ackedSeq, lastSeq, ackedVol, rejectedVol>>

HandlerStep(h) ==
  \/ HoldAllocInodes(h)
  \/ HoldAdvanceSeq(h)
  \/ GetLastSeq(h)
  \/ HoldSetVolopt(h)
  \/ HoldClearVolopt(h)
  \/ ApplyCommit(h)
  \/ RespondAllocInodes(h)
  \/ RespondAdvanceSeq(h)
  \/ PublishVolopt(h)

CommitStep == CommitStart \/ CommitLock \/ CommitRun

Next ==
  \/ \E h \in Handlers : HandlerStep(h)
  \/ CommitStep
  \/ ServerRestart

(***************************************************************************)
(* Kernel workers are scheduled: the commit work runs once queued and a   *)
(* handler that holds the commit, or was completed, carries on.  Clients  *)
(* need not send requests, so starting a request is not fair.             *)
(***************************************************************************)
Fairness ==
  /\ WF_vars(CommitStep)
  /\ \A h \in Handlers :
       WF_vars(ApplyCommit(h) \/ RespondAllocInodes(h) \/ RespondAdvanceSeq(h)
               \/ PublishVolopt(h))

Spec == Init /\ [][Next]_vars /\ Fairness

-----------------------------------------------------------------------------
TypeOK ==
  /\ super \in SuperBlocks /\ disk \in SuperBlocks
  /\ readers \subseteq Handlers /\ waiters \subseteq Handlers
  /\ cw \in [pending: BOOLEAN, pc: {"idle", "wait", "locked"}]
  /\ hs \in [Handlers -> Requests]
  /\ volopt \in {0} \cup ZoneInputs
  /\ voloptOwner \in Handlers \cup {NoHandler}
  /\ restarts \in 0..MaxRestarts
  /\ ackedIno \subseteq (0..InoMax) \X (0..InoMax)
  /\ ackedSeq \subseteq 0..SeqMax /\ lastSeq \in 0..SeqMax
  /\ ackedVol \subseteq {0} \cup ZoneInputs
  /\ rejectedVol \subseteq {0} \cup ZoneInputs

(***************************************************************************)
(* A client that was told its ALLOC_INODES or ADVANCE_SEQ succeeded finds  *)
(* the result in the super block on disk, whatever failovers follow:       *)
(* apply_commit completes a waiter with success only from the commit that *)
(* wrote the changes its handler made before queueing.                     *)
(***************************************************************************)
AckedDurable ==
  /\ \A a \in ackedIno : a[2] <= disk.next_ino
  /\ \A s \in ackedSeq : s < disk.next_trans_seq

(***************************************************************************)
(* GET_LAST_SEQ promises that every transaction at or below the seq it     *)
(* returns is done: ADVANCE_SEQ never later gives a client a seq at or     *)
(* below one GET_LAST_SEQ already returned.                                *)
(***************************************************************************)
SeqIssuedAboveLastSeq ==
  [][\A s \in ackedSeq' \ ackedSeq : s > lastSeq]_vars

(***************************************************************************)
(* The volume options the server publishes (server->volopt, read by       *)
(* GET_VOLOPT and zoned data allocation) never take a value that only a    *)
(* SET/CLEAR_VOLOPT answered with an error asked for: the failed request's *)
(* change to the dirty super is undone, also across a failover.            *)
(***************************************************************************)
PublishedVoloptNotRejected == volopt \notin rejectedVol \ ackedVol

(***************************************************************************)
(* Every handler sleeping on its commit completion is eventually woken:    *)
(* the work queued by apply_commit, or a commit already waiting for the    *)
(* rwsem, drains the waiter.                                               *)
(***************************************************************************)
WaiterCompletes ==
  \A h \in Handlers : hs[h].pc = "wait" ~> hs[h].pc # "wait"

=============================================================================
