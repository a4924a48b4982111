\* The application resumes a handler while select is blocked.
SPECIFICATION FairSpec
CONSTANTS
  MaxConn = 1
  MaxPost = 2
  PostLens <- NoBody
  LengthLines <- OneLine
  Versions <- BothVersions
  EarlyDone = 0
  SilentDone = 0
  MallocFails = 0
  Pipelining = 0
  BadRequests = 0
  StaleFdIsSet <- Zero
  SslPending <- Zero
  AppTask = 1
PROPERTIES
  MarkedIsClosed
