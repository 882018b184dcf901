SPECIFICATION Spec
CONSTANTS
    Block <- MCBlock
    Genesis = "g"
    height <- MCheight
    view <- MCheight
    parent <- MCparent
    leader <- MCleader
    root <- MCroot
    justify <- MCjustify
    byHash <- MCbyHash
    me = "m"
    MaxJobs = 1
    MaxRequests = 1
INVARIANTS CommitsOnce CommitStored CommitProven
CHECK_DEADLOCK FALSE
VIEW MCView
