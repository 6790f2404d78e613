----------------------------- MODULE InodeAlloc -----------------------------
(***************************************************************************)
(* Inode number allocation in one mount, inode.c.  Every creating task   *)
(* runs scoutfs_alloc_ino(): an unlocked look at next_ino_count, a refill *)
(* by get_next_ino_batch() when it looked empty, then a take under        *)
(* next_ino_lock that answers -EAGAIN, and loops, when other tasks        *)
(* emptied the batch in between.  The refill takes a batch of             *)
(* SCOUTFS_INO_BATCH numbers from the dirty super's next_ino under the    *)
(* wrlock and the spinlock, and refuses with -ENOSPC when the 64-bit      *)
(* addition wraps.  Numbers are modelled at Width bits.                   *)
(***************************************************************************)
EXTENDS Naturals, FiniteSets

CONSTANTS
    Tasks,          \* tasks creating inodes in the mount
    Width,          \* bits of an inode number (64 in the code)
    InoBatch,       \* SCOUTFS_INO_BATCH
    InitNextIno,    \* super.next_ino when the mount started
    WrlockErrors    \* whether scoutfs_wrlock_lock may fail

ASSUME InoBatch >= 1 /\ InitNextIno \in 1..2^Width - 1

InoSpace == 0..2^Width - 1

VARIABLES
    superNextIno,   \* sbi->super.next_ino
    nextIno,        \* sbi->next_ino
    nextInoCount,   \* sbi->next_ino_count
    pc,             \* each task's place in scoutfs_alloc_ino
    issued          \* history: how often each number was returned

vars == <<superNextIno, nextIno, nextInoCount, pc, issued>>

Init ==
    /\ superNextIno = InitNextIno
    /\ nextIno = 0
    /\ nextInoCount = 0
    /\ pc = [t \in Tasks |-> "idle"]
    /\ issued = [i \in InoSpace |-> 0]

(* A task starts a create that needs an inode number. *)
Start(t) ==
    /\ pc[t] = "idle"
    /\ pc' = [pc EXCEPT ![t] = "check"]
    /\ UNCHANGED <<superNextIno, nextIno, nextInoCount, issued>>

(* The unlocked test of next_ino_count at the top of the loop. *)
Check(t) ==
    /\ pc[t] = "check"
    /\ pc' = [pc EXCEPT ![t] = IF nextInoCount = 0 THEN "batch" ELSE "take"]
    /\ UNCHANGED <<superNextIno, nextIno, nextInoCount, issued>>

(* Mutant: the refill does not test for the wrap. *)
BatchWrapsNever(next) == FALSE

(* The -ENOSPC test: next_ino + SCOUTFS_INO_BATCH wraps the u64. *)
BatchWraps(next) == (next + InoBatch) % 2^Width < next

(* Mutant: the refill does not test the count again under the lock. *)
RefillNeededAlways == TRUE

(* The test under next_ino_lock that the batch is still empty. *)
RefillNeeded == nextInoCount = 0

(* get_next_ino_batch(): the refill under the wrlock and the spinlock,   *)
(* which only refills a batch that is still empty.                        *)
GetNextInoBatch(t) ==
    /\ pc[t] = "batch"
    /\ \/ /\ WrlockErrors
          /\ pc' = [pc EXCEPT ![t] = "idle"]
          /\ UNCHANGED <<superNextIno, nextIno, nextInoCount>>
       \/ /\ ~RefillNeeded
          /\ pc' = [pc EXCEPT ![t] = "take"]
          /\ UNCHANGED <<superNextIno, nextIno, nextInoCount>>
       \/ /\ RefillNeeded
          /\ nextIno' = superNextIno
          /\ IF BatchWraps(superNextIno)
                THEN /\ pc' = [pc EXCEPT ![t] = "idle"]
                     /\ UNCHANGED <<superNextIno, nextInoCount>>
                ELSE /\ superNextIno' = (superNextIno + InoBatch) % 2^Width
                     /\ nextInoCount' = InoBatch
                     /\ pc' = [pc EXCEPT ![t] = "take"]
    /\ UNCHANGED issued

(* Mutant: the take trusts the unlocked test of the count. *)
BatchHasInoUnlocked == TRUE

(* The test under next_ino_lock that the batch still has a number. *)
BatchHasIno == nextInoCount # 0

(* Mutant: -EAGAIN retries the take without testing the count again. *)
TakeRetryingTake(t) ==
    /\ pc[t] = "take"
    /\ IF BatchHasIno
          THEN /\ issued' = [issued EXCEPT ![nextIno] = @ + 1]
               /\ nextIno' = (nextIno + 1) % 2^Width
               /\ nextInoCount' = nextInoCount - 1
               /\ pc' = [pc EXCEPT ![t] = "idle"]
          ELSE UNCHANGED <<pc, nextIno, nextInoCount, issued>>
    /\ UNCHANGED superNextIno

(* The take under next_ino_lock: one number, or -EAGAIN and around the  *)
(* loop again.                                                            *)
Take(t) ==
    /\ pc[t] = "take"
    /\ IF BatchHasIno
          THEN /\ issued' = [issued EXCEPT ![nextIno] = @ + 1]
               /\ nextIno' = (nextIno + 1) % 2^Width
               /\ nextInoCount' = nextInoCount - 1
               /\ pc' = [pc EXCEPT ![t] = "idle"]
          ELSE /\ pc' = [pc EXCEPT ![t] = "check"]
               /\ UNCHANGED <<nextIno, nextInoCount, issued>>
    /\ UNCHANGED superNextIno

Next ==
    \E t \in Tasks : Start(t) \/ Check(t) \/ GetNextInoBatch(t) \/ Take(t)

(* The allocating steps are a task's own code running: weakly fair.     *)
(* Starting a create is up to the user.                                   *)
Fairness ==
    \A t \in Tasks : WF_vars(Check(t)) /\ WF_vars(GetNextInoBatch(t)) /\ WF_vars(Take(t))

Spec == Init /\ [][Next]_vars /\ Fairness

-----------------------------------------------------------------------------

TypeOK ==
    /\ superNextIno \in InoSpace
    /\ nextIno \in InoSpace
    /\ nextInoCount \in 0..InoBatch
    /\ pc \in [Tasks -> {"idle", "check", "batch", "take"}]
    /\ issued \in [InoSpace -> Nat]

(* No inode number is returned twice, by any interleaving of the racy   *)
(* count test, refills and takes, up to and past the wrap of next_ino.    *)
InoNeverReissued == \A i \in InoSpace : issued[i] <= 1

(* No number is lost: every number taken from super.next_ino was either *)
(* returned or is still in the mount's batch.  A refill over a batch     *)
(* that another task had just refilled would drop its numbers.            *)
NoInoLeaked ==
    \A i \in InitNextIno..superNextIno - 1 :
        issued[i] > 0 \/ i \in nextIno..nextIno + nextInoCount - 1

(* Every scoutfs_alloc_ino() call returns, with a number or an error,   *)
(* although -EAGAIN sends it around its loop.                             *)
AllocReturns == \A t \in Tasks : pc[t] # "idle" ~> pc[t] = "idle"

=============================================================================
