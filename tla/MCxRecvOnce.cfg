SPECIFICATION Spec
CONSTANTS
    Receipt <- MCReceipt
    clockOf <- MCclockOf
    chain <- MCchain
    Window = 2
    More = 1
    MaxClock = 5
    MaxMail = 2
CHECK_DEADLOCK FALSE
INVARIANTS
    ReceivedOnce
