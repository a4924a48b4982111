\* The start-up call and two requests of any kind, whatever the links do.
SPECIFICATION LiveSpec
CONSTANTS
  MaxRequests = 2
  ApConfigs = {1, 2}
  QueueFull = 1
  Forces = {0, 1}
  WpsTimeouts = 1
INVARIANTS
  TypeOK
  ConnectsAsAsked
  LockProtects
PROPERTIES
  FallbackRestores
  Settles
  OffIsApplied
CHECK_DEADLOCK FALSE
