SPECIFICATION SpecWithCrash
CONSTANTS
    Block <- MCBlock
    Genesis = "g"
    height <- MCheight
    view <- MCheight
    parent <- MCparent
    leader <- MCleader
    root <- MCroot
    justify <- MCjustify
    byHash <- MCbyHash
    me = "m"
    MaxJobs = 2
    MaxRequests = 0
PROPERTY ImplementsWithCrash
CHECK_DEADLOCK FALSE
