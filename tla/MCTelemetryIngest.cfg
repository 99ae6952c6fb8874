SPECIFICATION FairSpec
CONSTANTS
  batch = batch
  correction = correction
  ignored = ignored
  Messages <- Publications
  Readings <- ReadingSet
  BatchOf <- Batches
  PointOf <- Points
  Obsolete <- Old
  Backlog <- OldEntries
  MaxPendingWrites = 3
  MaxFaults = 2
INVARIANTS SpoolAccounting AcknowledgedIsKept CapacityIsRespected QuarantineIsJustified
PROPERTIES SequenceIsNeverReused ImplementsIntake EveryReadingSettles
CHECK_DEADLOCK FALSE
