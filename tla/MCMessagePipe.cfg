CONSTANTS
    Thread = {t1, t2}
    Pipe = {p1}
    NoThread = NoThread
    MaxMessages = 1
    WaitFlags = {{"readable"}}
    MaxWaitHandles = 2
SPECIFICATION Spec
SYMMETRY ThreadSymmetry
INVARIANTS
    TypeOK
    NoLostWakeup
    NoDanglingWaiter
    EndpointLifetime
    FifoExactlyOnce
PROPERTIES
    WakeIsTruthful
    UnsatisfiableForever
    ImplementsContract
CHECK_DEADLOCK FALSE
