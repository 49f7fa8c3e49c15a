SPECIFICATION FairSpec
CONSTANTS
    Workers = {w1, w2}
    Clients = {main}
    Main = main
    Nobody = Nobody
    Tokens = {}
    Behaviors = {"SKIP_ON_SHUTDOWN", "BLOCK_SHUTDOWN"}
    Delays = {0, 1}
    MaxThreads = 2
    MaxAfterShutdown = 1
    Flushes = 1
    MaxTasks = 3
    MaxTime = 1
CHECK_DEADLOCK FALSE
PROPERTIES FlushComplete FirstFlushReturns ShutdownReturns
