SPECIFICATION FairSpec
CONSTANTS
    Member <- MCMember
    Quorum <- MCQuorum
    leaderOf <- MCleaderOf
    Clock = {3, 8, 9, 11}
    MaxView = 3
CHECK_DEADLOCK FALSE
INVARIANTS
    TypeOK
    FiresInOrder
    NoSpin
    SameView
PROPERTIES
    ProposesOnce
    ViewsMeet
