SPECIFICATION Spec
CHECK_DEADLOCK FALSE
CONSTANTS
  Compositors <- SafetyCompositors
  MaxFailedDraws = 2
  MaxRecreate = 2
INVARIANTS
  PipelineConsistent
  MainFrameAccounted
  RequestNotLost
  NeverStalls
PROPERTIES
  NothingForbiddenShown
