SPECIFICATION Spec
CONSTANTS
  admin = admin
  a = a
  b = b
  p1 = p1
  p2 = p2
  p3 = p3
  Admin = admin
  Device <- ThreeDevices
  Proc <- TwoProcs
  UserLimit = 1
  MaxRequests = 5
  Faults <- AllFaults
SYMMETRY Symmetry
INVARIANTS TypeOK AcceptedIsListed LimitOvershoot LeftoversAreKnown
PROPERTIES KeepsAccess
CHECK_DEADLOCK FALSE
