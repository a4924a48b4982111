CONSTANTS
  Parts = {"template", "response", "files", "frames", "text", "dns", "routes"}
  Chunk = 3
  TokenMax = 2
  MaxText = 7
  MaxMore = 2
  Room = 7
  Writes = {1, 7}
  SendBufSize = 3
  MaxString = 8
  Forms = {"multi", "single"}
  NoPiece = NoPiece
  FConns = {"c1", "c2"}
  ReadLen = 2
  MaxBody = 3
  MaxRequests = 3
  PathLens = {0, 1, 88, 89, 97, 98}
  FnameSize = 100
  Frames <- MCFrames
  MaxFrames = 2
  MaxSegment = 3
  SendLens <- MCSendLens
  Inputs <- MCInputs
  Sizes <- MCSizes
  ArgNames <- MCArgNames
  MaxQueries = 2
  DnsNames <- MCDnsNames
  Additional = {0, 1}
  Patterns <- MCPatterns
  Urls <- MCUrls
  MaxRoutes = 2
  RegularFiles = {}
  UserPw <- MCUserPw
  AuthHeaders <- MCAuthHeaders
  AUTH_MAX_USER_LEN = 3
  AUTH_MAX_PASS_LEN = 2
SPECIFICATION Spec
INVARIANT HandlersTypeOK
INVARIANT OutputExact
INVARIANT NothingHeld
INVARIANT UploadStored
INVARIANT InputExact
CHECK_DEADLOCK FALSE
