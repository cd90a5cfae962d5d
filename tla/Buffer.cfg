CONSTANTS
  Radix = 2
  Data <- Strings
  Widths = {1, 2}
  Numbers <- TwoWide
  kCRLF <- CRLF
  kCheapPrepend = 1
  kInitialSize = 2
  kExtraBufSize = 2
  SizeMax = 5
SPECIFICATION Spec
INVARIANTS
  IndexOrder
  LinesWhole
  IntRoundTrip
PROPERTIES
  ImplementsQueue
