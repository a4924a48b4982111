\* One slot and everything that can go wrong: allocations, requests, SSL reads.
SPECIFICATION Spec
CONSTANTS
  MaxConn = 1
  MaxPost = 2
  PostLens <- Bodies
  LengthLines <- UpToTwo
  Versions <- BothVersions
  EarlyDone = 0
  SilentDone = 1
  MallocFails = 1
  Pipelining = 0
  BadRequests = 1
  StaleFdIsSet <- ZeroOrOne
  SslPending <- ZeroOrOne
  AppTask = 0
INVARIANTS
  TypeOK
  GivenOnce
  NothingLeaks
  KeepAliveIsClean
  PostBufferBound
PROPERTIES
  ClosedOnce
