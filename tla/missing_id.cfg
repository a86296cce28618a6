SPECIFICATION AdapterSpec
CONSTANTS
  None = none
  none = none
  Absent = absent
  absent = absent
  MaxDecimalPlaces = 2
  MaxIntegerDigits = 3
  MaxMicros = 511
  Ten <- MCTen
  Length <- MCLength
  Strip <- MCStrip
  Digest <- MCDigest
  SafeSuffix <- MCSafeSuffix
  Callers = {1, 2}
  Presentations <- MCPresentations
CHECK_DEADLOCK FALSE
INVARIANTS
  TransactionIsRequired
