\* A bus that may fail loses a page selection.
CONSTANTS
  t1 = t1
  t2 = t2
  Tasks <- OneTask
  SemInit = 6
  I2cMayFail = TRUE
SPECIFICATION Spec
INVARIANTS
  TablesOnTheirPage
