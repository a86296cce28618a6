SPECIFICATION Spec
CONSTANTS
  None = none
  none = none
  Absent = absent
  absent = absent
  g1 = g1
  g2 = g2
  Guards = {g1, g2}
  MaxDecimalPlaces = 1
  MaxIntegerDigits = 1
  MaxMicros = 7
  Ten <- MCTen
  Length <- MCLength
  Strip <- MCStrip
  Digest <- MCDigest
  SafeSuffix <- MCSafeSuffix
  Configs <- LockConfigs
  Overrides = {}
  FieldNames = {}
  FieldValues = {}
  Texts = {}
  ExcNames = {"Declined"}
CHECK_DEADLOCK FALSE
PROPERTIES
  ImplementsLock
INVARIANTS
  ReportsAgree
