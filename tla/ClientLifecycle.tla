--------------------------- MODULE ClientLifecycle ---------------------------
(***************************************************************************)
(* The server's view of its client mounts, server.c: greetings that      *)
(* insert mounted_clients items, farewells handled by the asynchronous    *)
(* farewell_worker with its quorum majority hold, connections that drop,  *)
(* and, after a server restart, the recovery window in which every mount  *)
(* recorded in mounted_clients must greet again or be fenced and          *)
(* reclaimed by reclaim_worker.  A new mount's greeting commit may fail;  *)
(* the commits of the farewell and reclaim workers are taken to succeed.  *)
(***************************************************************************)
EXTENDS Naturals, FiniteSets, Bags, BagsExt

CONSTANTS
    Rids,           \* client mount ids
    QuorumRids,     \* mounts that greet with SCOUTFS_NET_GREETING_FLAG_QUORUM
    VotesNeeded,    \* scoutfs_quorum_votes_needed()
    MaxRestarts,    \* bound on server restarts
    MaxDrops        \* bound on dropped client connections

ASSUME QuorumRids \subseteq Rids /\ VotesNeeded \in Nat

(* A mount's own state; the client code is not in this repository, so its *)
(* steps follow the spec, section 4.F.                                    *)
ClientStates == {"new", "mounted", "leaving", "done", "fenced"}
FwPcs == {"idle", "counted", "checked", "decided", "reclaimed"}

VARIABLES
    client,     \* rid -> its state
    connected,  \* rids with a connection to the current server
    mounted,    \* rids with a mounted_clients item
    requests,   \* server->farewell_requests, a bag of rids: a list may hold
                \* two requests of one mount
    queued,     \* farewell_work is queued
    fw,         \* farewell_worker's local lists and counts
    pending,    \* rids the recovery started by start_recovery waits for
    timer,      \* the recovery timeout is armed
    fencing,    \* rids handed to scoutfs_fence_start, not yet fenced
    fenced,     \* rids fenced and waiting for reclaim_worker
    resend,     \* leaving mounts whose net layer resends the farewell
    restarts,
    drops

vars == <<client, connected, mounted, requests, queued, fw, pending, timer,
          fencing, fenced, resend, restarts, drops>>

IdleFw == [pc |-> "idle", reqs |-> EmptyBag, send |-> EmptyBag, quoReqs |-> 0, quoMnts |-> 0, nonMnts |-> 0]

(* The requests in bag b from the rids in s. *)
RequestsOf(b, s) == [x \in DOMAIN b \cap s |-> b[x]]

Init ==
    /\ client = [r \in Rids |-> "new"]
    /\ connected = {}
    /\ mounted = {}
    /\ requests = EmptyBag
    /\ queued = FALSE
    /\ fw = IdleFw
    /\ pending = {}
    /\ timer = FALSE
    /\ fencing = {}
    /\ fenced = {}
    /\ resend = {}
    /\ restarts = 0
    /\ drops = 0

(* insert_mounted_client(): an item that already exists is fine. *)
InsertMountedClient(m, r) == m \cup {r}

(* delete_mounted_client() of each rid: an item already gone is fine. *)
DeleteMountedClients(m, s) == m \ s

(* free_farewell_requests(): every queued request of the rid is freed. *)
FreeFarewellRequests(b, r) == BagRemoveAll(b, r)

(* scoutfs_server_recov_finish(): the rid has finished recovering. *)
RecovFinish(p, r) == p \ {r}

(* server_greeting() of a mount that is not connected.  A new mount sends *)
(* server_term 0 and gets its mounted_clients item inserted (an existing  *)
(* item is fine), in a commit after which farewell_work is queued; a      *)
(* mount reconnecting to a new server sends its old term and only         *)
(* finishes its greeting recovery, and its net layer then resends the     *)
(* requests still unanswered, a farewell among them.                      *)
Greeting(r) ==
    /\ r \notin connected
    /\ client[r] \in {"new", "mounted", "leaving"}
    /\ connected' = connected \cup {r}
    /\ pending' = RecovFinish(pending, r)
    /\ IF client[r] = "new"
          THEN /\ mounted' = InsertMountedClient(mounted, r)
               /\ queued' = TRUE
               /\ client' = [client EXCEPT ![r] = "mounted"]
          ELSE UNCHANGED <<mounted, queued, client>>
    /\ resend' = IF client[r] = "leaving" THEN resend \cup {r} ELSE resend
    /\ UNCHANGED <<requests, fw, timer, fencing, fenced, restarts, drops>>

(* server_greeting() of a new mount whose server_term 0 branch fails.  A *)
(* failed hold_commit changes nothing (a stuttering step); an             *)
(* insert_mounted_client that fails has farewell_work queued after the    *)
(* aborted commit; or the commit fails, farewell_work is queued and the   *)
(* inserted item stays in the dirty tree that a later commit writes.     *)
(* The mount gets an error response, no connection is enabled and its    *)
(* recovery is not finished; it may greet again or never come back.      *)
GreetingFailed(r) ==
    /\ r \notin connected
    /\ client[r] = "new"
    /\ queued' = TRUE
    /\ mounted' \in {mounted, InsertMountedClient(mounted, r)}
    /\ UNCHANGED <<client, connected, requests, fw, pending, timer, fencing,
                   fenced, resend, restarts, drops>>

(* server_farewell(): a mount unmounting, or resending its farewell after *)
(* reconnecting, has a request added to farewell_requests and the work    *)
(* queued; the response comes later.                                      *)
Farewell(r) ==
    /\ r \in connected
    /\ client[r] = "mounted" \/ r \in resend
    /\ client' = [client EXCEPT ![r] = "leaving"]
    /\ resend' = resend \ {r}
    /\ requests' = BagAdd(requests, r)
    /\ queued' = TRUE
    /\ UNCHANGED <<connected, mounted, fw, pending, timer, fencing, fenced, restarts, drops>>

(* server_notify_down() and free_farewell_requests(): a connection drops *)
(* and the requests it had queued are freed.                              *)
NotifyDown(r) ==
    /\ r \in connected
    /\ drops < MaxDrops
    /\ connected' = connected \ {r}
    /\ requests' = FreeFarewellRequests(requests, r)
    /\ drops' = drops + 1
    /\ UNCHANGED <<client, mounted, queued, fw, pending, timer, fencing, fenced, resend, restarts>>

(* The first loop of farewell_worker(): take the queued requests and     *)
(* count the quorum and other mounts that have a mounted_clients item.    *)
FwCount ==
    /\ fw.pc = "idle" /\ queued
    /\ queued' = FALSE
    /\ requests' = EmptyBag
    /\ fw' = [IdleFw EXCEPT !.pc = "counted", !.reqs = requests,
                            !.quoMnts = Cardinality(mounted \cap QuorumRids),
                            !.nonMnts = Cardinality(mounted \ QuorumRids)]
    /\ UNCHANGED <<client, connected, mounted, pending, timer, fencing, fenced, resend, restarts, drops>>

(* Mutant: the requests already processed are taken off the count too. *)
NonMntsLeftAll(nm, gone, nonq) == nm - BagCardinality(gone (+) nonq)

(* non_mnts-- for each request answered because its mount is not quorum. *)
NonMntsLeft(nm, gone, nonq) == nm - BagCardinality(nonq)

(* The second loop: a request whose item is gone was already processed    *)
(* and is answered; one from a non-quorum mount is answered; quorum       *)
(* requests are counted and held.                                         *)
FwCheck ==
    /\ fw.pc = "counted"
    /\ LET gone == RequestsOf(fw.reqs, Rids \ mounted)
           nonq == RequestsOf(fw.reqs, mounted \ QuorumRids)
           quo  == RequestsOf(fw.reqs, mounted \cap QuorumRids)
       IN  fw' = [fw EXCEPT !.pc = "checked", !.reqs = quo, !.send = gone (+) nonq,
                            !.quoReqs = BagCardinality(quo),
                            !.nonMnts = NonMntsLeft(@, gone, nonq)]
    /\ UNCHANGED <<client, connected, mounted, requests, queued, pending, timer,
                   fencing, fenced, resend, restarts, drops>>

(* The third loop over the n held quorum requests: each is answered while *)
(* more than a majority of quorum mounts remain, or when the requests are *)
(* from every remaining mount and all of them are quorum mounts.  The    *)
(* result is how many are answered.                                       *)
RECURSIVE Released(_, _, _, _)
Released(qm, qr, nm, n) ==
    IF n = 0 THEN 0
    ELSE IF qm > VotesNeeded \/ (qr = qm /\ nm = 0)
         THEN 1 + Released(qm - 1, qr - 1, nm, n - 1)
         ELSE Released(qm, qr, nm, n - 1)

(* The requests are in arrival order; any of them may be the first ones. *)
FwDecide ==
    /\ fw.pc = "checked"
    /\ \E rel \in SubBag(fw.reqs) :
         /\ BagCardinality(rel) = Released(fw.quoMnts, fw.quoReqs, fw.nonMnts, BagCardinality(fw.reqs))
         /\ fw' = [fw EXCEPT !.pc = "decided", !.reqs = @ (-) rel, !.send = @ (+) rel]
    /\ UNCHANGED <<client, connected, mounted, requests, queued, pending, timer,
                   fencing, fenced, resend, restarts, drops>>

(* reclaim_rid() of every mount to be answered, each in its own commit:  *)
(* its trans_seqs, log trees, srch and omap state, and last its           *)
(* mounted_clients item.                                                  *)
FwReclaim ==
    /\ fw.pc = "decided"
    /\ mounted' = DeleteMountedClients(mounted, BagToSet(fw.send))
    /\ fw' = [fw EXCEPT !.pc = "reclaimed"]
    /\ UNCHANGED <<client, connected, requests, queued, pending, timer,
                   fencing, fenced, resend, restarts, drops>>

(* Mutant: responses may be sent before the reclaims. *)
ReadyToRespondEarly == fw.pc \in {"decided", "reclaimed"}

(* Responses are sent once every reclaim_rid() succeeded. *)
ReadyToRespond == fw.pc = "reclaimed"

(* The last loop and the end of farewell_worker(): a response reaches a  *)
(* connected mount, which then unmounts; the loop stops at a mount whose  *)
(* connection is gone, and the requests not answered go back on           *)
(* farewell_requests.  The work is queued again only if requests arrived  *)
(* while it ran.                                                          *)
FwRespond ==
    /\ ReadyToRespond
    /\ \E answered \in SUBSET (BagToSet(fw.send) \cap connected) :
         /\ answered = BagToSet(fw.send) \/ (BagToSet(fw.send) \ answered) \ connected # {}
         /\ client' = [r \in Rids |-> IF r \in answered THEN "done" ELSE client[r]]
         /\ connected' = connected \ answered
         /\ requests' = requests (+) fw.reqs (+) RequestsOf(fw.send, Rids \ answered)
         /\ queued' = (queued \/ requests # EmptyBag)
    /\ fw' = IdleFw
    /\ UNCHANGED <<mounted, pending, timer, fencing, fenced, resend, restarts, drops>>

(* The server stops, from a crash or a stop_server(), and a new server   *)
(* starts: connections, farewell requests and the worker's lists are      *)
(* lost, and start_recovery() puts every rid with a mounted_clients item  *)
(* in the recovery set, arming the timeout when there is one.  Fence      *)
(* requests are kept outside the server and survive it.                   *)
ServerRestart ==
    /\ restarts < MaxRestarts
    /\ restarts' = restarts + 1
    /\ connected' = {}
    /\ requests' = EmptyBag
    /\ queued' = FALSE
    /\ fw' = IdleFw
    /\ pending' = mounted
    /\ timer' = (mounted # {})
    /\ UNCHANGED <<client, mounted, fencing, fenced, resend, drops>>

(* recovery_timeout() and fence_pending_recov_worker(): every rid still   *)
(* pending is handed to the fence, whether or not it greets meanwhile.    *)
RecoveryTimeout ==
    /\ timer
    /\ pending # {}
    /\ timer' = FALSE
    /\ fencing' = fencing \cup pending
    /\ UNCHANGED <<client, connected, mounted, requests, queued, fw, pending,
                   fenced, resend, restarts, drops>>

(* The external fence makes the mount unreachable: it is gone, and its   *)
(* connection drops (server_notify_down frees its requests).  A mount     *)
(* that had already unmounted stays unmounted.                            *)
FenceComplete(r) ==
    /\ r \in fencing
    /\ fencing' = fencing \ {r}
    /\ fenced' = fenced \cup {r}
    /\ client' = [client EXCEPT ![r] = IF @ = "done" THEN "done" ELSE "fenced"]
    /\ connected' = connected \ {r}
    /\ requests' = FreeFarewellRequests(requests, r)
    /\ resend' = resend \ {r}
    /\ UNCHANGED <<mounted, queued, fw, pending, timer, restarts, drops>>

(* Mutant: the reclaim takes a rid whose fence was only started. *)
FenceDoneStarted(r) == r \in fencing \cup fenced

(* scoutfs_fence_next() hands reclaim_worker a rid whose fence is done. *)
FenceDone(r) == r \in fenced

(* Mutant: the reclaim does not finish the rid's recovery. *)
ReclaimRecovFinishKept(p, r) == p

(* scoutfs_server_recov_finish(rid, SCOUTFS_RECOV_ALL) after a reclaim. *)
ReclaimRecovFinish(p, r) == RecovFinish(p, r)

(* reclaim_worker(): reclaim_rid() of a fenced rid in one commit, with   *)
(* its mounted_clients item deleted last, then scoutfs_fence_free() and   *)
(* the end of its recovery.                                               *)
ReclaimWorker(r) ==
    /\ FenceDone(r)
    /\ mounted' = DeleteMountedClients(mounted, {r})
    /\ fencing' = fencing \ {r}
    /\ fenced' = fenced \ {r}
    /\ pending' = ReclaimRecovFinish(pending, r)
    /\ UNCHANGED <<client, connected, requests, queued, fw, timer, resend, restarts, drops>>

Next ==
    \/ \E r \in Rids : Greeting(r) \/ GreetingFailed(r) \/ Farewell(r) \/ NotifyDown(r)
                        \/ FenceComplete(r) \/ ReclaimWorker(r)
    \/ FwCount \/ FwCheck \/ FwDecide \/ FwReclaim \/ FwRespond
    \/ ServerRestart \/ RecoveryTimeout

(* The server's workers and its timer run once queued or armed, and a    *)
(* started fence completes: weakly fair.  Mounts greeting and leaving,    *)
(* drops and restarts are not.                                            *)
Fairness ==
    /\ WF_vars(FwCount) /\ WF_vars(FwCheck) /\ WF_vars(FwDecide)
    /\ WF_vars(FwReclaim) /\ WF_vars(FwRespond) /\ WF_vars(RecoveryTimeout)
    /\ \A r \in Rids : WF_vars(FenceComplete(r)) /\ WF_vars(ReclaimWorker(r))

Spec == Init /\ [][Next]_vars /\ Fairness

-----------------------------------------------------------------------------

TypeOK ==
    /\ client \in [Rids -> ClientStates]
    /\ connected \subseteq Rids /\ mounted \subseteq Rids
    /\ IsABag(requests) /\ BagToSet(requests) \subseteq Rids
    /\ queued \in BOOLEAN /\ timer \in BOOLEAN
    /\ fw.pc \in FwPcs /\ IsABag(fw.reqs) /\ IsABag(fw.send)
    /\ {fw.quoReqs, fw.quoMnts, fw.nonMnts} \subseteq Nat
    /\ pending \subseteq Rids /\ fencing \subseteq Rids /\ fenced \subseteq Rids
    /\ resend \subseteq Rids
    /\ restarts \in 0..MaxRestarts /\ drops \in 0..MaxDrops

(* A mount that is up and has not asked to leave always has its          *)
(* mounted_clients item: neither the farewell worker nor reclaim_worker   *)
(* deletes it, although a late greeting can race the recovery timeout and *)
(* the fence, and a restart can come between any two steps.               *)
ActiveMountHasItem == \A r \in Rids : client[r] = "mounted" => r \in mounted

(* A mount only sees its farewell response after reclaim_rid() deleted   *)
(* its mounted_clients item, through failed sends, resent farewells,      *)
(* drops and server restarts.                                             *)
FarewellAfterReclaim == \A r \in Rids : client[r] = "done" => r \notin mounted

(* Every recovery started by start_recovery() ends: each rid either      *)
(* greets again or is fenced by the timeout and reclaimed.                *)
RecoveryCompletes == pending # {} ~> pending = {}

(* The quorum farewells farewell_worker's third loop releases keep the   *)
(* hold on the mounts as they are when it decides: after them a majority  *)
(* of quorum mounts with items remains, or they are every quorum mount    *)
(* left and no other mount keeps an item.  The loop decides from counts   *)
(* made in its first two loops.                                           *)
FarewellHoldOnCurrentMounts ==
    [][ fw.pc = "checked" /\ fw'.pc = "decided" =>
        LET released == BagToSet(fw'.send) \ BagToSet(fw.send)
            quorum   == mounted \cap QuorumRids
        IN  released # {} =>
              \/ Cardinality(quorum \ released) >= VotesNeeded
              \/ quorum \subseteq released /\ mounted \ QuorumRids \subseteq BagToSet(fw.send) ]_vars

=============================================================================
