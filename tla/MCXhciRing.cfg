SPECIFICATION Spec
CONSTANTS
  Parts = {"xhci"}
  Thread = {"shell", "child"}
  Program = {"prog"}
  Slots = 2
  Sectors = 1
  Val = {0, 1}
  Reads <- MCReads
  Writes <- MCWrites
  XPorts = 1
  XConfig <- MCXConfig
  EvLen = 6
  IntLen = 3
  XReports = 4
  XLeds = 0
  XFaults = 0
  OPorts = 2
  OConfig <- MCOConfig
  OReports = 3
  OFaults = 2
  Reports <- MCReports
  CapsLock = 57
  Letters = {4}
  PsCodes = {42, 57}
  PsShift = {42}
  EventLen = 3
  CharLen = 1
INVARIANT KeyboardActive
CHECK_DEADLOCK FALSE
