\* Three binder threads with a device node that may fail to open.
CONSTANTS
  c1 = c1
  c2 = c2
  c3 = c3
  Callers <- ThreeCallers
  Ways <- SampleWays
  OpenMayFail = TRUE
SPECIFICATION FairSpec
\* After a failed open every thread ends up waiting for the mutex.
CHECK_DEADLOCK FALSE
INVARIANTS
  TypeOK
  OneAtATime
  FilesReturned
  LockAccounted
PROPERTIES
  SwitchSpec
  LockReleased
