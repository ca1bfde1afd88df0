SPECIFICATION FairSpec
CONSTANTS
  Packets = 3
  PerItem = 2
  Disturbances = 2
  Tags = 3
INVARIANT BulkKept
PROPERTY StickRecovers
