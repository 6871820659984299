\* Both drivers; every acquisition may fail, any entries of sys_config may be
\* missing.
SPECIFICATION Spec
\* An invalid use ends the behaviour.
CHECK_DEADLOCK FALSE
INVARIANTS
  TypeOK
  AllOrNothing
  WorkNeedsQueue
  InvalidUsesExplained
