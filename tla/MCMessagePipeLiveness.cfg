CONSTANTS
    Thread = {t1, t2}
    Pipe = {p1}
    NoThread = NoThread
    MaxMessages = 1
    WaitFlags = {{"readable"}, {"writable"}}
    MaxWaitHandles = 1
SPECIFICATION Spec
PROPERTIES
    BlockedWaitsReturn
CHECK_DEADLOCK FALSE
