SPECIFICATION Spec
CONSTANTS
  ann = ann
  root = root
  r1 = r1
  r2 = r2
  old = old
  new = new
  s1 = s1
  s2 = s2
  Admins <- NoAdmin
  Users <- OneUser
  Requests <- TwoRequests
  Passwords <- TwoPasswords
  SessionIds <- OneSession
  Kinds <- ByName
  Ops <- AllOps
  MaxFailed = 2
  LockPeriod = 2
  SessionLife = 1
  MaxTime = 2
SYMMETRY Interchangeable
INVARIANTS
  AuthInv
  LockFromCount
  LockHorizon
  SessionProvenance
PROPERTIES
  ActivityMonotonic
  DeletedStaysDeleted
  SessionsOnlyIssuedOnce
CHECK_DEADLOCK FALSE
