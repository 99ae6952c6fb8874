SPECIFICATION FairSpec
CONSTANTS
  home = home
  lab = lab
  plug = plug
  lamp = lamp
  on = on
  off = off
  Absent = Absent
  Scopes <- OneDevicePerSite
  DeviceIds <- OneDevice
  Values <- OnOff
  AckTimeout = 1
  RouteTtl = 2
  SettleWindow = 1
  TraceLimit = 1
  VerdictDisplay = 2
  AckedDisplay = 1
  MaxCommands = 2
  Ages <- FreshOrOld
  MaxTime = 6
  LastRequest = 2
INVARIANTS TypeOK OneExecutionPerDevice VerdictAgreesWithTrace TraceTellsOneStory
PROPERTIES ImplementsLifecycle NoVerificationAfterDeadline EveryCommandIsJudged
