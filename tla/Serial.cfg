SPECIFICATION SerialSpec
CONSTANTS
  CDC_TXRX_EPSIZE = 2
  Bytes <- SomeBytes
  EndOfLine = 13
  MaxText = 3
INVARIANTS
  LineTypeOK
  NoGaps
PROPERTIES
  LineKept
  TypedIsHeard
  SaidIsShown
