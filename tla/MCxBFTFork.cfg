SPECIFICATION Spec
CONSTANTS
    Block <- MCBlock
    Genesis = "g"
    height <- MCheight
    view <- MCview
    parent <- MCparent
    leader <- MCleader
    root <- MCroot
    justify <- MCjustify
    byHash <- MCbyHash
    me = "m"
    MaxJobs = 1
    MaxRequests = 1
INVARIANTS TypeOK SameLock
PROPERTY Implements
CHECK_DEADLOCK FALSE
