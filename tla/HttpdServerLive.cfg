\* Handlers that always send something and are called by the server task only; the server stops.
SPECIFICATION ShutdownSpec
CONSTANTS
  MaxConn = 2
  MaxPost = 2
  PostLens <- NoBody
  LengthLines <- OneLine
  Versions <- Http10
  EarlyDone = 0
  SilentDone = 0
  MallocFails = 0
  Pipelining = 0
  BadRequests = 0
  StaleFdIsSet <- Zero
  SslPending <- Zero
  AppTask = 0
PROPERTIES
  MarkedIsClosed
  ShutdownCompletes
CHECK_DEADLOCK FALSE
