CONSTANTS
  SeqNums = 14
  SeqInitial = 11
  RecvWindow = 7
  Windows = {1, 4}
  Requeue = 2
  Sizes <- MCSizes
  MaxPings = 1
  MaxOvertaking = 1
  NetSize = 1
SPECIFICATION FairSpec
INVARIANTS TypeOK Sorted AckedIsHeld
PROPERTY ImplementsFifo
