\* Start-up, restores and switches one after the other over a bus that loses words and acknowledgements.
CONSTANTS
  PatchWords = 6
  XWrites = 4
  I2cMayFail = TRUE
  StartUps <- AnyStartUp
SPECIFICATION FairSpec
INVARIANTS
  TypeOK
  PLLCommandsSpaced
  ClockSourceRuns
  StartsConfigured
  StartUpCompletes
PROPERTIES
  CallShortens
  CallReturns
  TransferSpec
