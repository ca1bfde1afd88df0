SPECIFICATION FairSpec
CONSTANTS
  WaitMiniRetries = 5
  LaunchRetries = 3
  RecvAttempts = 3
  InQueue = 3
  Disturbances = 3
INVARIANTS StartSafe PanicHasCause
PROPERTY Settles
