SPECIFICATION FairSpec
CHECK_DEADLOCK FALSE
CONSTANTS
  Compositors <- LivenessCompositors
  MaxFailedDraws = 1
  MaxRecreate = 1
PROPERTIES
  MainThreadUnblocked
  CommitBegins
