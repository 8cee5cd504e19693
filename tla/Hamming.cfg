SPECIFICATION ByteSpec
CONSTANTS
  Bytes <- AllBytes
  MaxFlips = 1
INVARIANTS
  ByteCorrected
  EopOnlyNearFifteen
CHECK_DEADLOCK FALSE
