CONSTANTS
  j1 = j1  j2 = j2
  Job <- Jobs
  MaxAttempts = 2
  MaxErrors = 1
SPECIFICATION LiveSpec
INVARIANTS DrainedIsNotSevered StopStartsAtMostOne
PROPERTY ShutdownEnds
CHECK_DEADLOCK FALSE
