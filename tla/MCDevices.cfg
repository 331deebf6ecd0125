SPECIFICATION Spec
CONSTANTS
  Parts = {"ahci", "xhci", "ohci", "input"}
  Thread = {"shell", "child"}
  Program = {"prog"}
  Slots = 2
  Sectors = 1
  Val = {0, 1}
  Reads <- MCReads
  Writes <- MCWrites
  XPorts = 2
  XConfig <- MCXConfig
  EvLen = 14
  IntLen = 6
  XReports = 2
  XLeds = 1
  XFaults = 1
  OPorts = 2
  OConfig <- MCOConfig
  OReports = 3
  OFaults = 2
  Reports <- MCReports
  CapsLock = 57
  Letters = {4}
  PsCodes = {42, 57}
  PsShift = {42}
  EventLen = 3
  CharLen = 1
INVARIANTS CommandsOwned XhciAnswersOwn 
PROPERTIES  XhciServed OhciServed
CHECK_DEADLOCK FALSE
