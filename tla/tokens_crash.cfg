SPECIFICATION Spec
CONSTANTS
  d1 = d1
  d2 = d2
  t1 = t1
  t2 = t2
  t3 = t3
  Device <- MCDevice
  Token <- MCToken
  NoData = NoData
  NoDb = NoDb
  ExpireAge = 1
  DeleteAge = 2
  PruneInterval = 1
  MaxTime = 3
  Faults <- OnlyCrash
PROPERTIES UsedIsFinal
CHECK_DEADLOCK FALSE
