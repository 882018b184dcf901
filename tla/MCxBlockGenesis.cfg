CONSTANTS
    Block <- MCBlock
    Genesis = "g"
    height <- MCheight
    view <- MCview
    parent <- MCparent
    Ahead = {}
SPECIFICATION Spec
INVARIANTS
    HistoryExecuted
CHECK_DEADLOCK FALSE
