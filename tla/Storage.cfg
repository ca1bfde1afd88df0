CONSTANTS
  sd = sd
  usb = usb
  memory = memory
  p1 = p1
  p2 = p2
  p3 = p3
  NoPart = NoPart
  Absent = Absent
  Console = "WiiU"
  Devices = {sd, memory}
  Removable = {sd}
  SdSlots = {sd}
  Parts = {p1, p2}
  PartsOf <- WiiUPartsOf
  FsOf <- WiiUFsOf
  Npll <- WiiUNpll
  Gumboot <- WiiUGumboot
  ScreenshotDevices = {sd}
  Slots = 2
  Builtins = 1
  MaxNesting = 2
  BeyondCrossing = TRUE
SPECIFICATION Spec
INVARIANTS MenuKept AutobootTarget
PROPERTIES MenuSpec
CHECK_DEADLOCK FALSE
