\* Two tasks switch the codec at the same time.
CONSTANTS
  t1 = t1
  t2 = t2
  Tasks <- TwoTasks
  SemInit = 6
  I2cMayFail = FALSE
SPECIFICATION CallersOnly
INVARIANTS
  InjectedMeansAux2
