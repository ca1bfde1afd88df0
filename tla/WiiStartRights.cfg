SPECIFICATION Spec
CONSTANTS
  WaitMiniRetries = 2
  LaunchRetries = 2
  RecvAttempts = 3
  InQueue = 4
  Disturbances = 0
INVARIANT UnrestrictHasRights
