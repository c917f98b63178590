SPECIFICATION Spec
CONSTANTS
  every = every
  cron = cron
  again = again
  c1 = c1
  m1 = m1
  Tasks <- AllTasks
  Name <- MCName
  BuiltIn <- OnlyEvery
  Interval <- MCInterval
  CronMinutes <- MCCronMinutes
  Controllers <- OneController
  Manual <- NoManual
  MaxRetries = 1
  RetryDelay = 2
  Horizon = 3
  AddWhileRunning = TRUE
  MaxStarts = 1
  MaxTime = 5
INVARIANTS
  TypeOK
  DisabledStartsOnce
PROPERTIES
  StartsSpaced
  CronStartsSpaced
CHECK_DEADLOCK FALSE
