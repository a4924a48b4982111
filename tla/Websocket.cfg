\* Two connections, a broadcasting task, everything the application and clients may do.
SPECIFICATION Spec
CONSTANTS
  s1 = s1
  s2 = s2
  w1 = w1
  w2 = w2
  w3 = w3
  t1 = t1
  t2 = t2
  NULL = NULL
  Slots <- TwoSlots
  Websocks <- ThreeWebsocks
  Tasks <- OneTask
  ListSize = 2
  AppCloses = 1
  SendsOnClosed = 1
SYMMETRY Symmetric
INVARIANTS
  TypeOK
  Accounted
  OwnConnection
  OpenIsListed
