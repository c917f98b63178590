SPECIFICATION FairSpec
CONSTANTS
  every = every
  cron = cron
  off = off
  c1 = c1
  c2 = c2
  Tasks <- AllTasks
  DisabledTasks <- OnlyOff
  Interval <- MCInterval
  CronMinutes <- MCCronMinutes
  Callers <- TwoCallers
  Minute = 6
  Window = 2
  Period = 2
  MaxDelay = 0
  MaxRun = 1
  RegisterWhileRunning = FALSE
  MaxStarts = 2
  MaxTime = 18
INVARIANTS
  TypeOK
  NoOverlap
  CronNotMissed
  Punctual
PROPERTIES
  StartsSpaced
  OncePerMinute
  StopEndsEverything
CHECK_DEADLOCK FALSE
