SPECIFICATION Spec
CONSTANTS
  Bytes <- MCBytes
  Messages <- AnyBytes
  Numbers <- MCNumbers
  SizeModulus = 4
  MaxChunk = 3
  MaxBytes = 4
  MaxWire = 3
  MaxKeys = 1
  Paced = TRUE
  KeepTogether = 1
INVARIANTS NothingLeaks RequestSafe BufferBounded
CHECK_DEADLOCK FALSE
