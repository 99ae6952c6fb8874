SPECIFICATION FairSpec
CONSTANTS
  power = power
  energy = energy
  MaxPublished = 2
  PolledOf <- PolledSamples
  Fields <- BothFields
  FieldsOf <- SampleFields
  DecisionLimit = 2
  QueueLimit = 2
  MaxTime = 3
  MaxFaults = 1
INVARIANTS HistoryWasAccepted LatestAcknowledgedIsKept OnlyForgottenSamplesConflict
PROPERTIES OnlyForgottenSamplesComeBack EverySampleSettles
CHECK_DEADLOCK FALSE
