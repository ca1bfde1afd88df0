CONSTANTS
  sd = sd
  usb = usb
  memory = memory
  p1 = p1
  p2 = p2
  p3 = p3
  NoPart = NoPart
  Absent = Absent
  Console = "Wii"
  Devices = {sd, usb, memory}
  Removable = {sd}
  SdSlots = {sd}
  Parts = {p1, p2, p3}
  PartsOf <- WiiPartsOf
  FsOf <- WiiFsOf
  Npll <- WiiNpll
  Gumboot <- WiiGumboot
  ScreenshotDevices = {sd}
  Slots = 2
  Builtins = 1
  MaxNesting = 2
  BeyondCrossing = FALSE
SPECIFICATION Spec
INVARIANTS ReferencesLive StartedFromPaths HookOfEntry
PROPERTIES FirstConfigDecides ScreenshotRestores
CHECK_DEADLOCK FALSE
