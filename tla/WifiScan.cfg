\* Three data sets, failures, and a driver that may hang, all tasks interleaved.
SPECIFICATION LiveSpec
CONSTANTS
  MaxScans = 3
  Failures = 1
  None = None
INVARIANTS
  TypeOK
  Counted
PROPERTIES
  ScanEnds
