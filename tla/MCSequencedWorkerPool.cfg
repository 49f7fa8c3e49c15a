SPECIFICATION Spec
CONSTANTS
    Workers = {w1, w2, w3}
    Clients = {main, other}
    Main = main
    Nobody = Nobody
    Tokens = {s}
    Behaviors = {"CONTINUE_ON_SHUTDOWN", "SKIP_ON_SHUTDOWN", "BLOCK_SHUTDOWN"}
    Delays = {0, 1}
    MaxThreads = 2
    MaxAfterShutdown = 1
    Flushes = 0
    MaxTasks = 3
    MaxTime = 1
CHECK_DEADLOCK FALSE
SYMMETRY Symmetry
INVARIANTS SequencesKept ShutdownComplete WithinMaxThreads NoTaskForgotten
