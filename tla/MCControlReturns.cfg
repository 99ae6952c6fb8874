SPECIFICATION FairSpec
CONSTANTS
  home = home
  plug = plug
  lamp = lamp
  first = first
  second = second
  on = on
  off = off
  Absent = Absent
  Site = home
  Scopes <- OneSite
  DeviceIds <- TwoDevices
  Values <- OnOff
  Unlocked <- OnlyLamp
  Direct <- EveryDirect
  Resolved <- EveryRoute
  Buttons <- OneDevice
  Requests <- OneRequest
  Deadline <- Limits
  AckTimeout = 1
  RouteTtl = 2
  SettleWindow = 1
  TraceLimit = 1
  VerdictDisplay = 1
  AckedDisplay = 1
  MaxCommands = 1
  MaxLead = 0
  MaxLag = 0
  MaxTime = 2
PROPERTY EveryRequestReturns
