SPECIFICATION Spec
CONSTANTS
  power = power
  energy = energy
  MaxPublished = 1
  PolledOf <- NoPolls
  Fields <- BothFields
  FieldsOf <- SampleFields
  DecisionLimit = 2
  QueueLimit = 2
  MaxTime = 3
  MaxFaults = 1
INVARIANT AcceptedIsSpooled
CHECK_DEADLOCK FALSE
