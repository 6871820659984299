\* Two tasks share the driver with the worker, whose transfers may fail, and a
\* suspend/resume cycle.
CONSTANTS
  t1 = t1
  t2 = t2
  Tasks <- TwoTasks
  SemInit = 6
  I2cMayFail = TRUE
SPECIFICATION SafetySpec
SYMMETRY TaskSymmetry
INVARIANTS
  TypeOK
  SemAccounting
  QuietWhenSuspended
  InjectPower
  RouteMatchesFlag
