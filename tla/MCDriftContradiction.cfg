SPECIFICATION Spec
CONSTANTS
  home = home
  lab = lab
  plug = plug
  lamp = lamp
  on = on
  off = off
  Absent = Absent
  Scopes <- OneSite
  DeviceIds <- OneDevice
  Values <- OnOff
  AckTimeout = 1
  RouteTtl = 2
  SettleWindow = 1
  TraceLimit = 2
  VerdictDisplay = 2
  AckedDisplay = 1
  MaxCommands = 1
  Ages <- FreshOrOld
  MaxTime = 4
  LastRequest = 2
INVARIANTS DriftIsContradiction
