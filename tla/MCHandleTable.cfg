CONSTANTS
    Thread = {t1, t2}
    NoThread = NoThread
    HandleSpace = 4
    MaxTableSize = 3
    MaxMsgHandles = 2
    MaxDispatchers = 6
SPECIFICATION Spec
SYMMETRY ThreadSymmetry
INVARIANTS
    SentHandlesHeld
    OneHandlePerDispatcher
    TableWithinLimits
CHECK_DEADLOCK FALSE
