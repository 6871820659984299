\* Two tasks, the worker, the flag and the suspend/resume cycle, with bus errors.
CONSTANTS
  t1 = t1
  t2 = t2
  Tasks <- TwoTasks
  SemInit = 6
  I2cMayFail = TRUE
SPECIFICATION FairSpec
INVARIANTS
  TypeOK
  MutesOnlyAsleep
  AmpFollowsPower
  CleanProgramsLand
PROPERTIES
  MuteSeesOneFlag
  SuspendReturns
  ResumeProgramsAmp
