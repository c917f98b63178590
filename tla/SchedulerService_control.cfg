SPECIFICATION FairSpec
CONSTANTS
  every = every
  cron = cron
  again = again
  c1 = c1
  m1 = m1
  Tasks <- OnlyEvery
  Name <- MCName
  BuiltIn <- OnlyEvery
  Interval <- MCInterval
  CronMinutes <- MCCronMinutes
  Controllers <- OneController
  Manual <- OneManual
  MaxRetries = 1
  RetryDelay = 1
  Horizon = 3
  AddWhileRunning = FALSE
  MaxStarts = 2
  MaxTime = 3
INVARIANTS
  StopMeansQuiet
PROPERTIES
  StopReturns
  
CHECK_DEADLOCK FALSE
