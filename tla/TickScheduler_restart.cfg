SPECIFICATION Spec
CONSTANTS
  every = every
  cron = cron
  off = off
  c1 = c1
  c2 = c2
  Tasks <- OnlyEvery
  DisabledTasks <- NoTask
  Interval <- MCInterval
  CronMinutes <- MCCronMinutes
  Callers <- OneCaller
  Minute = 2
  Window = 2
  Period = 2
  MaxDelay = 0
  MaxRun = 1
  RegisterWhileRunning = FALSE
  MaxStarts = 2
  MaxTime = 3
INVARIANTS
  StartedMeansTicking
CHECK_DEADLOCK FALSE
