CONSTANTS
  Root = Root
  Nowhere = Nowhere
  Hubs = {h}
  Sticks = {a, b}
  RootPorts = {1}
  HubPorts = {1, 2}
  Luns = {1}
  USB_MAX_DEVICES = 3
  USB_MAX_HUBS = 1
  USB_MSC_MAX_DEVICES = 1
  MaxNesting = 2
  BeyondCrossing = FALSE
SPECIFICATION FairSpec
INVARIANTS InStep BusExclusive
CHECK_DEADLOCK FALSE
PROPERTY PluggedIsRegistered
