\* Client lifecycle: greetings, farewells, drops, one server restart and the recovery that follows.
CONSTANTS
    q1 = q1
    q2 = q2
    n1 = n1
    Rids <- MCRids
    QuorumRids <- MCQuorumRids
    VotesNeeded = 2
    MaxRestarts = 1
    MaxDrops = 1
SPECIFICATION Spec
CHECK_DEADLOCK FALSE
INVARIANT TypeOK
INVARIANT ActiveMountHasItem
INVARIANT FarewellAfterReclaim
PROPERTY RecoveryCompletes
