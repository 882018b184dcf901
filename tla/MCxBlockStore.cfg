CONSTANTS
    Block <- MCBlock
    Genesis = "g"
    height <- MCheight
    view <- MCview
    parent <- MCparent
    Ahead = {"a2", "a3"}
SPECIFICATION Spec
INVARIANTS
    TypeOK
    LockSurvives
    CommittedStays
    MetaOrdered
    ExecutedInOrder
    ExecutedStays
CHECK_DEADLOCK FALSE
