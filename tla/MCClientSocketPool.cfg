SPECIFICATION Spec
CONSTANTS
    Groups = {a, b}
    Handles = {h1, h2, h3}
    None = None
    Urgent = {h3}
    MaxSockets = 2
    MaxSocketsPerGroup = 2
    BackupJobs = TRUE
    MaxFlushes = 1
    Loads <- SafetyLoads
SYMMETRY Symmetry
CHECK_DEADLOCK FALSE
INVARIANTS
    AssertionsHold
    SocketsAccounted
    NothingStaleReused
    WaitersAccounted
    StalledPoolRelieved
