SPECIFICATION Spec
CONSTANTS
  Nibble = 2
  Group = 16
  Byte = 2
  MinCopy = 2
  InsertMax = 2
  Object = {1, 2, 3, 4, 5}
  Unknown = 6
  Kind <- MCKind
  Content <- MCContent
  First <- MCFirst
  LastByte = 2
  HeaderLen = 1
  HashLen = 2
  Far = 18
  Window = {0, 1, 2}
  Wanted <- MCWanted
  Sent <- MCSent
INVARIANTS TypeOK PackHoldsObjects IndexTrue UnpackTrue Accepts
CHECK_DEADLOCK FALSE
