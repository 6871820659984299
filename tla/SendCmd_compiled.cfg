\* The program as compiled, with tables of their full length, over a bus that
\* loses words and acknowledgements.
CONSTANTS
  PatchWords = 1250
  XWrites = 136
  I2cMayFail = TRUE
  StartUps <- AsCompiled
SPECIFICATION Spec
INVARIANTS
  FramingKept
  StartsConfigured
  StartUpCompletes
