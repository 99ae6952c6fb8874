SPECIFICATION FairSpec
CONSTANTS
  w1 = w1
  w2 = w2
  k1 = k1
  k2 = k2
  Nobody = Nobody
  Times <- TimeSet
  Writers <- WriterSet
  Workers <- WorkerSet
  MaxAborts = 2
INVARIANT SummariesAreCurrent
PROPERTIES SummaryNeverRegresses EveryHourIsRefreshed
CHECK_DEADLOCK FALSE
