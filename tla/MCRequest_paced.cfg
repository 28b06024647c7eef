SPECIFICATION HFairSpec
CONSTANTS
  Bytes <- MCBytes
  Messages <- AllMessages
  Meaning <- AllMeanings
  Numbers <- MCNumbers
  SizeModulus = 16
  MaxChunk = 20
  MaxBytes = 0
  MaxWire = 20
  MaxKeys = 4
  Paced = TRUE
  KeepTogether = 3
  MaxSent = 3
INVARIANTS ParsedAsSent
PROPERTIES EveryRequestHandled
CHECK_DEADLOCK FALSE
