CONSTANTS
    Thread = {t1, t2}
    NoThread = NoThread
    HandleSpace = 4
    MaxTableSize = 2
    MaxMsgHandles = 1
    MaxDispatchers = 4
SPECIFICATION Spec
INVARIANT NoLockCycle
CHECK_DEADLOCK FALSE
