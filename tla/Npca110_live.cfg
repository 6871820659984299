\* Two tasks compete for the only permit, next to the worker and the suspend/resume cycle.
CONSTANTS
  t1 = t1
  t2 = t2
  Tasks <- TwoTasks
  SemInit = 1
  I2cMayFail = FALSE
SPECIFICATION LiveSpec
PROPERTIES
  CallsReturn
  SuspendReturns
  RestoreRuns
