CONSTANTS
  Frames = 6
  Begin <- MCBegin
  Byte <- MCByte
  DataType = 8
  ConnectionTypes = {9, 10}
  Readable = {1, 2, 3, 5, 6}
  BufferSize = 30
  Pieces = {2, 5, 8, 14}
SPECIFICATION FairSpec
INVARIANTS TypeOK HandedOnInOrder
PROPERTIES EverythingHandedOn
CHECK_DEADLOCK FALSE
