SPECIFICATION Spec
CONSTANTS
  home = home
  plug = plug
  lamp = lamp
  first = first
  second = second
  on = on
  off = off
  Absent = Absent
  Site = home
  Scopes <- OneSite
  DeviceIds <- OneDevice
  Values <- OnOff
  Unlocked <- NoDevice
  Direct <- NoRoute
  Resolved <- SiteLocalOrHttp
  Buttons <- NoDevice
  Requests <- TwoRequests
  Deadline <- Limits
  AckTimeout = 1
  RouteTtl = 2
  SettleWindow = 1
  TraceLimit = 2
  VerdictDisplay = 1
  AckedDisplay = 1
  MaxCommands = 2
  MaxLead = 1
  MaxLag = 0
  MaxTime = 3
INVARIANTS LockIsHeldByOneRequest FailureIsTold UncertainWriteStaysPending
PROPERTIES FailedRequestClosesCommand SuccessIsRegistered ImplementsLifecycle
SYMMETRY Symmetry
