SPECIFICATION Spec
CONSTANTS
  r1 = r1
  r2 = r2
  r3 = r3
  Nobody = Nobody
  Requests <- ThreeRequests
  LoginCapacity = 2
  MaxSessions = 2
  MaxTokens = 3
  MaxVersion = 1
INVARIANTS TypeOK TokenIsRotatedOnce RevokedHasNoToken OldLoginIsClosed NoDeadlock TabsDoNotReplay
PROPERTIES ImplementsAccount
SYMMETRY Symmetry
CHECK_DEADLOCK FALSE
