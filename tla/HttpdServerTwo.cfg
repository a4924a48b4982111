\* Two slots and the application task.
SPECIFICATION Spec
CONSTANTS
  MaxConn = 2
  MaxPost = 2
  PostLens <- ShortBodies
  LengthLines <- OneLine
  Versions <- BothVersions
  EarlyDone = 0
  SilentDone = 1
  MallocFails = 0
  Pipelining = 0
  BadRequests = 0
  StaleFdIsSet <- Zero
  SslPending <- Zero
  AppTask = 1
INVARIANTS
  NotCalledAgain
  StateFreedOnce
  AcceptHasSlot
PROPERTIES
  CycleSpec
