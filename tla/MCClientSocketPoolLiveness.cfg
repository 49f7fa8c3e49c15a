SPECIFICATION FairSpec
CONSTANTS
    Groups = {a, b}
    Handles = {h1, h2}
    None = None
    Urgent = {h2}
    MaxSockets = 2
    MaxSocketsPerGroup = 2
    BackupJobs = TRUE
    MaxFlushes = 0
    Loads <- LivenessLoads
CHECK_DEADLOCK FALSE
PROPERTIES
    WaitsEnd
