SPECIFICATION Spec
CONSTANTS
  admin = admin
  a = a
  b = b
  p1 = p1
  p2 = p2
  p3 = p3
  Admin = admin
  Device <- TwoDevices
  Proc <- TwoProcs
  UserLimit = 2
  MaxRequests = 3
  Faults <- NoFaults

INVARIANTS NoDanglingLink
CHECK_DEADLOCK FALSE
