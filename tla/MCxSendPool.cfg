SPECIFICATION Spec
CONSTANTS
    Tx <- MCTx
    nonceOf <- MCnonceOf
    prevOf <- MCprevOf
    fireOf <- MCfireOf
    expires <- MCexpires
    outdated <- MCoutdated
    NoTx = "none"
    Chains <- MCChains
    QueueMax = 2
    SendMax = 3
    UnconfirmMax = 2
    MaxMail = 1
    MaxClock = 1
CHECK_DEADLOCK FALSE
INVARIANTS
    TypeOK
    PackedFits
    CacheExact
    RetryExact
    ConfirmedOnce
