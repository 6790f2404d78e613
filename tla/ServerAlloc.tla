----------------------------- MODULE ServerAlloc -----------------------------
(***************************************************************************)
(* The server's metadata allocators (src/kmod/src/server.c) and the log   *)
(* tree requests that hand their blocks to clients.                       *)
(*                                                                         *)
(* The super block holds two meta_alloc roots (server->meta_avail and     *)
(* server->meta_freed point at them), two banks of server_meta_avail and   *)
(* server_meta_freed list heads, and a log_trees item per mount with the   *)
(* mount's own meta_avail and meta_freed lists and the root of its item   *)
(* tree.  The server allocates for its own btree updates from             *)
(* server->alloc, the bank other_ind ^ 1, and frees into it; the commit   *)
(* fills the other bank's avail from meta_avail, empties its freed into   *)
(* meta_freed, writes the super block and flips the banks.                *)
(* GET_LOG_TREES splices the mount's freed list into other_freed and       *)
(* refills its avail from meta_avail; COMMIT_LOG_TREES stores the lists    *)
(* the mount sends; reclaim_log_trees gives a departed mount's lists back. *)
(*                                                                         *)
(* Data abstraction: a block is a number, an allocator list or extent     *)
(* root the set of blocks it holds, and every btree (the server's trees,  *)
(* a mount's item tree) a single root block that a first change in a      *)
(* transaction copies on write.  The client side (trans.c, not part of    *)
(* this source) is a mount that copies its root once per transaction and *)
(* resends a request that failed or that a failover dropped.  Handlers    *)
(* run their changes under commit_rwsem and logs_mutex, so each handler's  *)
(* changes are one step; the commit holds the rwsem for write and is one  *)
(* step too, ending early at the point a failure stops it.                *)
(***************************************************************************)
EXTENDS Naturals, FiniteSets, TLC

CONSTANTS
  Rids,         \* mounts
  Blks,         \* metadata block numbers
  InitRoot,     \* the block of the server's btree roots after mkfs
  InitBank,     \* the blocks of server_meta_avail[0] and [1] after mkfs
  FillLo,       \* SCOUTFS_SERVER_META_FILL_LO
  FillTarget,   \* SCOUTFS_SERVER_META_FILL_TARGET
  AllocMin,     \* SCOUTFS_SERVER_META_ALLOC_MIN
  MaxRestarts,  \* bound on server failovers
  IoErrors,     \* TRUE when block and super writes and list reads may fail
  ShortFills,   \* TRUE when GET_LOG_TREES may find meta_avail short
  NoBlk         \* model value: an empty btree root

ASSUME Blks \subseteq Nat /\ InitRoot \in Blks
ASSUME InitBank \in [0..1 -> SUBSET Blks] /\ InitRoot \notin UNION {InitBank[0], InitBank[1]}
ASSUME InitBank[0] \cap InitBank[1] = {}
ASSUME FillLo \in 1..FillTarget /\ AllocMin \in Nat /\ MaxRestarts \in Nat
ASSUME IoErrors \in BOOLEAN /\ ShortFills \in BOOLEAN /\ NoBlk \notin Blks

VARIABLES
  super,     \* SCOUTFS_SB(sb)->super, the dirty in-memory super block
  disk,      \* the super block last written by scoutfs_write_super
  srv,       \* server_info: other_ind, meta_avail index, alloc, dirty root
  cl,        \* each mount's request state and its copy of its log_trees
  reclaim,   \* reclaim_rid progress for each departed mount
  restarts   \* failovers so far

vars == <<super, disk, srv, cl, reclaim, restarts>>

Banks == 0..1

IsLogTrees(lt) ==
  /\ DOMAIN lt = {"avail", "freed", "root"}
  /\ lt.avail \subseteq Blks /\ lt.freed \subseteq Blks /\ lt.root \in Blks \cup {NoBlk}

\* Mutant: the zeroed root taken as block 0 rather than an empty root.
EmptyLogTreesBlockZero == [avail |-> {}, freed |-> {}, root |-> 0]

\* a new mount's log_trees: memset(&lt, 0) with zero roots
EmptyLogTrees == [avail |-> {}, freed |-> {}, root |-> NoBlk]

IsSuperBlock(sb) ==
  /\ DOMAIN sb = {"metaAlloc", "bankAvail", "bankFreed", "root", "logs"}
  /\ \A i \in Banks : sb.metaAlloc[i] \cup sb.bankAvail[i] \cup sb.bankFreed[i] \subseteq Blks
  /\ sb.root \in Blks
  /\ DOMAIN sb.logs \subseteq Rids /\ \A r \in DOMAIN sb.logs : IsLogTrees(sb.logs[r])

\* The n lowest numbered blocks of s: what an allocator move takes first.
Lowest(s, n) == {b \in s : Cardinality({c \in s : c < b}) < n}

\* mkfs: every block not in a bank or the roots is in meta_alloc[0].
InitialSuper ==
  [metaAlloc |-> [i \in Banks |-> IF i = 0
                     THEN Blks \ (InitBank[0] \cup InitBank[1] \cup {InitRoot})
                     ELSE {}],
   bankAvail |-> InitBank,
   bankFreed |-> [i \in Banks |-> {}],
   root |-> InitRoot,
   logs |-> [r \in {} |-> EmptyLogTrees]]

(***************************************************************************)
(* Server startup from the super block read from disk: the larger        *)
(* server_meta_avail bank becomes server->alloc, the larger meta_alloc    *)
(* root becomes server->meta_avail.                                       *)
(***************************************************************************)
StartupSrv(sb) ==
  LET other == IF Cardinality(sb.bankAvail[0]) < Cardinality(sb.bankAvail[1])
               THEN 0 ELSE 1
  IN [other |-> other,
      availInd |-> IF Cardinality(sb.metaAlloc[1]) > Cardinality(sb.metaAlloc[0])
                   THEN 1 ELSE 0,
      alloc |-> [avail |-> sb.bankAvail[1 - other], freed |-> sb.bankFreed[1 - other]],
      dirty |-> FALSE]

Init ==
  /\ super = InitialSuper
  /\ disk = InitialSuper
  /\ srv = StartupSrv(InitialSuper)
  /\ cl = [r \in Rids |-> [pc |-> "get", lt |-> EmptyLogTrees, dirty |-> FALSE]]
  /\ reclaim = [r \in Rids |-> "none"]
  /\ restarts = 0

(***************************************************************************)
(* A btree update under server->alloc (scoutfs_btree_force/update of the  *)
(* logs root): the first change in a transaction copies the root block    *)
(* into a block from alloc.avail and frees the old one into alloc.freed;  *)
(* with alloc.avail empty the update fails.                               *)
(***************************************************************************)
CanCow == srv.dirty \/ srv.alloc.avail # {}

CowNew == CHOOSE b \in srv.alloc.avail : \A c \in srv.alloc.avail : b <= c

CowSuper(sb) == IF srv.dirty THEN sb ELSE [sb EXCEPT !.root = CowNew]

\* Mutant: the old root freed straight back into alloc.avail.
CowSrvRecycled ==
  IF srv.dirty THEN srv
  ELSE [srv EXCEPT !.alloc = [avail |-> (@.avail \ {CowNew}) \cup {super.root},
                              freed |-> @.freed],
                   !.dirty = TRUE]

CowSrv == IF srv.dirty THEN srv
          ELSE [srv EXCEPT !.alloc = [avail |-> @.avail \ {CowNew},
                                      freed |-> @.freed \cup {super.root}],
                           !.dirty = TRUE]

(***************************************************************************)
(* scoutfs_alloc_fill_list: when dst holds fewer than FillLo blocks, move *)
(* blocks from src until it holds FillTarget; -ENOSPC when src is short.  *)
(***************************************************************************)
FillList(dst, src) ==
  LET need == FillTarget - Cardinality(dst)
  IN CASE Cardinality(dst) >= FillLo -> [ok |-> TRUE, dst |-> dst, src |-> src]
       [] Cardinality(src) < need -> [ok |-> FALSE, dst |-> dst, src |-> src]
       [] OTHER -> [ok |-> TRUE, dst |-> dst \cup Lowest(src, need),
                    src |-> src \ Lowest(src, need)]

(***************************************************************************)
(* server_get_log_trees: find the mount's item or start an empty one,     *)
(* splice its meta_freed into other_freed, refill its meta_avail from     *)
(* meta_avail, force the item, and wait for the commit.  A failure after  *)
(* the splice jumps to unlock: apply_commit(sb, ret) queues no commit but *)
(* leaves what was done in the dirty super block, and the mount gets the   *)
(* error and sends the request again.  Without ShortFills only the        *)
(* requests meta_avail can serve are taken: a run that leaves the -ENOSPC *)
(* after the splice out.                                                  *)
(***************************************************************************)
GetLogTrees(r) ==
  LET o       == srv.other
      ai      == srv.availInd
      lt0     == IF r \in DOMAIN super.logs THEN super.logs[r] ELSE EmptyLogTrees
      spliced == [super EXCEPT !.bankFreed[o] = @ \cup lt0.freed]
      fill    == FillList(lt0.avail, super.metaAlloc[ai])
      filled  == [spliced EXCEPT !.metaAlloc[ai] = fill.src]
      lt1     == [lt0 EXCEPT !.freed = {}, !.avail = fill.dst]
      ok      == fill.ok /\ CanCow
  IN /\ cl[r].pc = "get"
     /\ ShortFills \/ fill.ok
     /\ super' = CASE ~fill.ok -> spliced
                   [] ~CanCow  -> filled
                   [] OTHER    -> CowSuper([filled EXCEPT !.logs = (r :> lt1) @@ @])
     /\ srv' = IF ok THEN CowSrv ELSE srv
     /\ cl' = IF ok THEN [cl EXCEPT ![r] = [pc |-> "getwait", lt |-> lt1, dirty |-> FALSE]]
              ELSE cl
     /\ UNCHANGED <<disk, reclaim, restarts>>

(***************************************************************************)
(* server_commit_log_trees: look up the mount's item and overwrite it     *)
(* with the log_trees the mount sent, then wait for the commit.           *)
(***************************************************************************)
CommitLogTrees(r) ==
  LET ok == r \in DOMAIN super.logs /\ CanCow
  IN /\ cl[r].pc = "commit"
     /\ super' = IF ok THEN CowSuper([super EXCEPT !.logs[r] = cl[r].lt]) ELSE super
     /\ srv' = IF ok THEN CowSrv ELSE srv
     /\ cl' = IF ok THEN [cl EXCEPT ![r].pc = "commitwait"] ELSE cl
     /\ UNCHANGED <<disk, reclaim, restarts>>

(***************************************************************************)
(* The mount's transaction: its first change copies its item tree root    *)
(* into a block of its meta_avail and frees the old root into meta_freed; *)
(* the commit sends the lists and the root in COMMIT_LOG_TREES.  A mount  *)
(* leaves, by farewell or by being fenced, while no request of it is in   *)
(* the server.                                                            *)
(***************************************************************************)
ClientWrite(r) ==
  LET lt  == cl[r].lt
      new == CHOOSE b \in lt.avail : \A c \in lt.avail : b <= c
  IN /\ cl[r].pc = "work" /\ ~cl[r].dirty /\ lt.avail # {}
     /\ cl' = [cl EXCEPT ![r].lt = [avail |-> lt.avail \ {new},
                                    freed |-> IF lt.root = NoBlk THEN lt.freed
                                              ELSE lt.freed \cup {lt.root},
                                    root |-> new],
                         ![r].dirty = TRUE]
     /\ UNCHANGED <<super, disk, srv, reclaim, restarts>>

ClientCommit(r) ==
  /\ cl[r].pc = "work" /\ cl[r].dirty
  /\ cl' = [cl EXCEPT ![r].pc = "commit"]
  /\ UNCHANGED <<super, disk, srv, reclaim, restarts>>

Depart(r) ==
  /\ cl[r].pc \in {"get", "work"}
  /\ cl' = [cl EXCEPT ![r].pc = "gone"]
  /\ reclaim' = [reclaim EXCEPT ![r] = "todo"]
  /\ UNCHANGED <<super, disk, srv, restarts>>

(***************************************************************************)
(* A failover, or the BUG_ON in reclaim_log_trees stopping the server:    *)
(* the next server reads the super block from disk and the mounts send    *)
(* their requests again.                                                  *)
(***************************************************************************)
Resend(c) == [c EXCEPT !.pc = CASE @ = "getwait" -> "get"
                                [] @ = "commitwait" -> "commit"
                                [] OTHER -> @]

ServerDown ==
  /\ restarts < MaxRestarts
  /\ super' = disk
  /\ srv' = StartupSrv(disk)
  /\ cl' = [r \in Rids |-> Resend(cl[r])]
  /\ reclaim' = [r \in Rids |-> IF reclaim[r] = "wait" THEN "todo" ELSE reclaim[r]]
  /\ restarts' = restarts + 1
  /\ UNCHANGED disk

(***************************************************************************)
(* reclaim_rid -> reclaim_log_trees for a mount that left: splice its     *)
(* meta_freed and then its meta_avail into other_freed, each of which may  *)
(* fail after the ones before it moved their blocks, then update the item *)
(* with what is left; that update failing is a BUG_ON.  A failed reclaim   *)
(* queues no commit and is tried again.                                   *)
(***************************************************************************)
\* Mutant: the item keeps the lists whose blocks were spliced away.
ReclaimedLogTreesStale(lt, spliced) == lt

\* The log_trees item reclaim writes back: the spliced lists emptied.
ReclaimedLogTrees(lt, spliced) ==
  [lt EXCEPT !.freed = IF spliced >= 1 THEN {} ELSE @,
             !.avail = IF spliced >= 2 THEN {} ELSE @]

ReclaimLogTrees(r) ==
  /\ reclaim[r] = "todo"
  /\ IF r \notin DOMAIN super.logs
     THEN /\ reclaim' = [reclaim EXCEPT ![r] = "wait"]
          /\ UNCHANGED <<super, disk, srv, cl, restarts>>
     ELSE \E spliced \in IF IoErrors THEN 0..2 ELSE {2},
             updated \in IF IoErrors THEN BOOLEAN ELSE {TRUE} :
            LET lt  == super.logs[r]
                o   == srv.other
                out == (IF spliced >= 1 THEN lt.freed ELSE {})
                         \cup (IF spliced >= 2 THEN lt.avail ELSE {})
            IN IF updated /\ CanCow
               THEN /\ super' = CowSuper([super EXCEPT !.bankFreed[o] = @ \cup out,
                                                       !.logs[r] = ReclaimedLogTrees(lt, spliced)])
                    /\ srv' = CowSrv
                    /\ reclaim' = [reclaim EXCEPT ![r] = IF spliced = 2 THEN "wait"
                                                         ELSE "todo"]
                    /\ UNCHANGED <<disk, cl, restarts>>
               ELSE ServerDown

(***************************************************************************)
(* scoutfs_server_commit_func: fill the other bank's avail from           *)
(* meta_avail, empty other_freed into meta_freed, write the dirty blocks,  *)
(* store server->alloc in the bank other_ind ^ 1, write the super block,  *)
(* flip the banks and swap meta_avail and meta_freed when avail is low and *)
(* freed is not; then complete every waiter with the result.  A failure   *)
(* leaves the steps before it in the dirty super block.                   *)
(***************************************************************************)
Waiting == \E r \in Rids : cl[r].pc \in {"getwait", "commitwait"} \/ reclaim[r] = "wait"

Complete(c, ok) ==
  [c EXCEPT !.pc = CASE @ = "getwait" -> IF ok THEN "work" ELSE "get"
                     [] @ = "commitwait" -> IF ok THEN "get" ELSE "commit"
                     [] OTHER -> @,
            !.dirty = IF ok /\ c.pc = "commitwait" THEN FALSE ELSE @]

Commit ==
  /\ Waiting
  /\ \E stop \in IF IoErrors THEN {"blocks", "super", "none"} ELSE {"none"} :
       LET o    == srv.other
           ai   == srv.availInd
           fill == FillList(super.bankAvail[o], super.metaAlloc[ai])
           s1   == [super EXCEPT !.bankAvail[o] = fill.dst, !.metaAlloc[ai] = fill.src]
           s2   == [s1 EXCEPT !.metaAlloc[1 - ai] = @ \cup s1.bankFreed[o],
                              !.bankFreed[o] = {}]
           s3   == [s2 EXCEPT !.bankAvail[1 - o] = srv.alloc.avail,
                              !.bankFreed[1 - o] = srv.alloc.freed]
           ok   == fill.ok /\ stop = "none"
           swap == /\ Cardinality(s3.metaAlloc[ai]) <= AllocMin
                   /\ Cardinality(s3.metaAlloc[1 - ai]) > AllocMin
       IN /\ super' = CASE ~fill.ok -> super
                        [] stop = "blocks" -> s2
                        [] OTHER -> s3
          /\ disk' = IF ok THEN s3 ELSE disk
          /\ srv' = IF ok
                    THEN [other |-> 1 - o,
                          availInd |-> IF swap THEN 1 - ai ELSE ai,
                          alloc |-> [avail |-> s3.bankAvail[o], freed |-> s3.bankFreed[o]],
                          dirty |-> FALSE]
                    ELSE srv
          /\ cl' = [r \in Rids |-> Complete(cl[r], ok)]
          /\ reclaim' = [r \in Rids |-> IF reclaim[r] = "wait"
                                        THEN IF ok THEN "done" ELSE "todo"
                                        ELSE reclaim[r]]
          /\ UNCHANGED restarts

\* Every mount has left and been reclaimed: nothing more happens.
AllUnmounted ==
  /\ \A r \in Rids : cl[r].pc = "gone" /\ reclaim[r] = "done"
  /\ UNCHANGED vars

Next ==
  \/ \E r \in Rids : \/ GetLogTrees(r) \/ CommitLogTrees(r)
                     \/ ClientWrite(r) \/ ClientCommit(r) \/ Depart(r)
                     \/ ReclaimLogTrees(r)
  \/ Commit
  \/ ServerDown
  \/ AllUnmounted

Spec == Init /\ [][Next]_vars

-----------------------------------------------------------------------------
TypeOK ==
  /\ IsSuperBlock(super) /\ IsSuperBlock(disk)
  /\ srv.other \in Banks /\ srv.availInd \in Banks /\ srv.dirty \in BOOLEAN
  /\ srv.alloc.avail \cup srv.alloc.freed \subseteq Blks
  /\ \A r \in Rids :
       /\ cl[r].pc \in {"get", "getwait", "work", "commit", "commitwait", "gone"}
       /\ IsLogTrees(cl[r].lt) /\ cl[r].dirty \in BOOLEAN
  /\ reclaim \in [Rids -> {"none", "todo", "wait", "done"}]
  /\ restarts \in 0..MaxRestarts

\* The super block the next commit writes: server->alloc goes into bank other_ind ^ 1.
Written ==
  [super EXCEPT !.bankAvail[1 - srv.other] = srv.alloc.avail,
                !.bankFreed[1 - srv.other] = srv.alloc.freed]

\* How many of a super block's allocators and btree roots hold block b.
Holders(sb, b) ==
  LET InBanks(f) == Cardinality({i \in Banks : b \in f[i]})
      InLogs(F(_)) == Cardinality({r \in DOMAIN sb.logs : b \in F(sb.logs[r])})
  IN  InBanks(sb.metaAlloc) + InBanks(sb.bankAvail) + InBanks(sb.bankFreed)
        + (IF b = sb.root THEN 1 ELSE 0)
        + InLogs(LAMBDA lt : lt.avail) + InLogs(LAMBDA lt : lt.freed)
        + InLogs(LAMBDA lt : {lt.root})

(***************************************************************************)
(* Every metadata block is held by exactly one allocator or btree, in the *)
(* super block on disk and in the one the next commit writes: the         *)
(* splices of get_log_trees and reclaim_log_trees, the commit's fill and   *)
(* empty and its bank flip, across failing commits and failovers, neither *)
(* give a block to two owners nor lose one.                               *)
(***************************************************************************)
BlocksOwnedOnce ==
  \A b \in Blks : Holders(Written, b) = 1 /\ Holders(disk, b) = 1

(***************************************************************************)
(* A block that a btree of the super block on disk references is never in *)
(* an allocator something can allocate from now (meta_avail, a bank's     *)
(* avail, a mount's meta_avail): blocks freed in a transaction are reused *)
(* only after the commit that stopped referencing them, which is what the *)
(* two banks and the freed lists are for.                                 *)
(***************************************************************************)
DiskRoots == ({disk.root} \cup {disk.logs[r].root : r \in DOMAIN disk.logs}) \ {NoBlk}

Allocatable ==
  Written.metaAlloc[srv.availInd] \cup Written.bankAvail[0] \cup Written.bankAvail[1]
    \cup UNION {Written.logs[r].avail : r \in DOMAIN Written.logs}
    \cup UNION {cl[r].lt.avail : r \in {m \in Rids : cl[m].pc = "work"}}

DurableBlocksNotAllocatable == DiskRoots \cap Allocatable = {}

=============================================================================
