SPECIFICATION SerialSpec
CONSTANTS
  ann = ann
  root = root
  r1 = r1
  r2 = r2
  old = old
  new = new
  s1 = s1
  s2 = s2
  Admins <- OneAdmin
  Users <- OneUser
  Requests <- TwoRequests
  Passwords <- TwoPasswords
  SessionIds <- OneSession
  Kinds <- AnyKind
  Ops <- SerialOps
  MaxFailed = 2
  LockPeriod = 1
  SessionLife = 1
  MaxTime = 1
SYMMETRY Interchangeable
INVARIANTS
  FailedAttemptsLock
  SessionMatchesPassword
  PasswordChangeSticks
  ActiveFlagSticks
  
  SerialInv
PROPERTIES
  RowsChangeAtomically
CHECK_DEADLOCK FALSE
