SPECIFICATION SpecWithCrash
CONSTANTS
    Block <- MCBlock
    Genesis = "g"
    height <- MCheight
    view <- MCview
    parent <- MCparent
    leader <- MCleader
    root <- MCroot
    justify <- MCjustify
    Node <- MCNode
    Honest <- MCHonest
    Quorum <- MCQuorum
CHECK_DEADLOCK FALSE
INVARIANT OneCertPerView
