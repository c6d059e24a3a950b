SPECIFICATION FairSpec
CONSTANTS
  Order = {1}
  Size = 3
  Request = 1
  RefWidth = 65536
  FirstSeqNo = 1
  Missed = 1
  MaxReject = 250
  MaxLog = 5
  MaxLost = 2
INVARIANTS SequenceInv FillsExact VerdictsMatch
PROPERTY GapHeals
CHECK_DEADLOCK FALSE
