\* Two scans one after the other, nothing fails.
SPECIFICATION Spec
CONSTANTS
  MaxScans = 2
  Failures = 0
  None = None
INVARIANT ResultsAvailable
