\* The application ends a response while select is blocked, and the client goes on.
SPECIFICATION Spec
CONSTANTS
  MaxConn = 1
  MaxPost = 2
  PostLens <- LongBodies
  LengthLines <- OneLine
  Versions <- BothVersions
  EarlyDone = 0
  SilentDone = 0
  MallocFails = 0
  Pipelining = 0
  BadRequests = 0
  StaleFdIsSet <- Zero
  SslPending <- Zero
  AppTask = 1
INVARIANTS
  GivenOnce
