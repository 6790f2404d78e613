-------------------------- MODULE MCClientLifecycle --------------------------
(* Two quorum mounts, so a majority of two, and one other mount. *)
EXTENDS ClientLifecycle

CONSTANTS q1, q2, n1

MCRids == {q1, q2, n1}
MCQuorumRids == {q1, q2}
=============================================================================
