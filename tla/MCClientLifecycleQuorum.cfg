\* A farewell response may leave fewer live quorum mounts than a majority.
CONSTANTS
    q1 = q1
    q2 = q2
    n1 = n1
    Rids <- MCRids
    QuorumRids <- MCQuorumRids
    VotesNeeded = 2
    MaxRestarts = 1
    MaxDrops = 1
SPECIFICATION Spec
CHECK_DEADLOCK FALSE
PROPERTY FarewellHoldOnCurrentMounts
