\* Handlers send anything and return DONE with a buffer of any fill.
SPECIFICATION Spec
CONSTANTS
  Size <- MCSize
  MaxFill <- MCMaxFill
  SendSizes <- MCSendSizes
INVARIANTS
  TypeOK
  BufferBound
  ChunkLengthExact
  NothingDropped
  EndIsSeen
PROPERTIES
  FramingSpec
