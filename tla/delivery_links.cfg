SPECIFICATION Spec
CONSTANTS
  a = a
  b = b
  t1 = t1
  t2 = t2
  r1 = r1
  r2 = r2
  Device <- MCDevice
  Token <- MCToken
  Slot <- MCSlot
  NoData = NoData
  NoDb = NoDb
  ExpireAge = 0
  DeleteAge = 1
  PruneInterval = 1
  MaxTime = 2
SYMMETRY Symmetry
INVARIANTS TypeOK NoFileOnceClosed NoPageIsLeft
PROPERTIES KeepsLinkPromises
