SPECIFICATION FairSpec
CONSTANTS
  first = first
  Absent = Absent
  Sockets <- OneSocket
  MaxAudio = 2
  MaxEnds = 2
  MaxClicks = 2
INVARIANTS ApprovalIsDecidedOnce CommittedAudioIsWhole
PROPERTIES NothingAfterTurnEnd EveryUtteranceSettles
CHECK_DEADLOCK FALSE
