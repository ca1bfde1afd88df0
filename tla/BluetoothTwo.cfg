SPECIFICATION FairSpec
CONSTANTS
  r1 = r1
  r2 = r2
  None = None
  Remotes = {r1, r2}
  Pairings <- MCBoth
  LinkKeys = {r1}
  BT_MAX_REMOTES = 2
  BT_COMMAND_QUEUE = 4
  Wii = FALSE
  Disturbances = 1
  TransfersFail = FALSE
INVARIANT SlotsKept
PROPERTY RemoteHeard
