---------------------------- MODULE AtomicCommit ----------------------------
(***************************************************************************)
(* What the metadata block layer and the transaction commit promise      *)
(* (spec 4.A-4.C): each object has a current image, the one a reader sees *)
(* now, and a durable image, the one the super block on disk names.  The  *)
(* current image changes by a caller writing, creating or dropping an     *)
(* object; the durable image changes only by a commit, which makes it the *)
(* current image at once; a crash throws the current image away.          *)
(* An image is a version of the object's contents, or Gone.               *)
(***************************************************************************)
EXTENDS Naturals

CONSTANTS
  Objs,
  MaxVer,     \* bound on writes into one object
  Gone        \* the object has no block

VARIABLES durable, current

Images == (0..MaxVer) \cup {Gone}

Init ==
  /\ durable = [o \in Objs |-> 0]
  /\ current = durable

Update(o) ==
  /\ current[o] \in 0..MaxVer - 1
  /\ current' = [current EXCEPT ![o] = @ + 1]
  /\ UNCHANGED durable

Create(o) ==
  /\ current[o] = Gone
  /\ current' = [current EXCEPT ![o] = 0]
  /\ UNCHANGED durable

Delete(o) ==
  /\ current[o] # Gone
  /\ current' = [current EXCEPT ![o] = Gone]
  /\ UNCHANGED durable

Commit ==
  /\ durable' = current
  /\ UNCHANGED current

Crash ==
  /\ current' = durable
  /\ UNCHANGED durable

Next == Commit \/ Crash \/ \E o \in Objs : Update(o) \/ Create(o) \/ Delete(o)

Spec == Init /\ [][Next]_<<durable, current>>

TypeOK == durable \in [Objs -> Images] /\ current \in [Objs -> Images]

=============================================================================
