\* Both drivers, as in DriverLifecycle_modules.cfg.
SPECIFICATION Spec
CHECK_DEADLOCK FALSE
INVARIANT LoadedIsWhole
