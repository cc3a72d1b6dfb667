\* No operation is under way before; the watch outlasts both timers.
CONSTANTS
    Timeout = 4
    Stable = 2
    Grace = 3
    MaxEvents = 4
    BusyBefore = FALSE
SPECIFICATION Spec
CHECK_DEADLOCK FALSE
INVARIANTS
    TypeOK
    ResultIsOfThisSync
    SuccessIsSettled
    EndedSyncIsNoTimeout
PROPERTIES
    Returns
