SPECIFICATION Spec
CONSTANTS
  admin = admin
  a = a
  b = b
  p1 = p1
  p2 = p2
  p3 = p3
  Admin = admin
  Device <- ThreeDevices
  Proc <- ThreeProcs
  UserLimit = 2
  MaxRequests = 5
  Faults <- NoFaults
SYMMETRY SymmetryThreeProcs
INVARIANTS HealthyAtRest RevokedIsRefused
PROPERTIES RefusedForGood AdminStays
CHECK_DEADLOCK FALSE
