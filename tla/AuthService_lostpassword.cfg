SPECIFICATION HSpec
CONSTANTS
  ann = ann
  root = root
  r1 = r1
  r2 = r2
  old = old
  new = new
  s1 = s1
  s2 = s2
  Admins <- NoAdmin
  Users <- OneUser
  Requests <- TwoRequests
  Passwords <- TwoPasswords
  SessionIds <- OneSession
  Kinds <- ByName
  Ops <- LoginChange
  MaxFailed = 2
  LockPeriod = 2
  SessionLife = 2
  MaxTime = 1
INVARIANTS
  PasswordChangeSticks
CHECK_DEADLOCK FALSE
