SPECIFICATION Spec
CONSTANTS
  h1 = h1
  h2 = h2
  admin = admin
  c1 = c1
  c2 = c2
  Host <- MCHost
  Device <- MCDevice
  Call <- MCCall
  Admin = admin
  NoName = NoName
  Faults <- OnlyKill
SYMMETRY Interchangeable
INVARIANTS ReadyPkiComplete
