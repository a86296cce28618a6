SPECIFICATION Spec
CONSTANTS
  None = none
  none = none
  Absent = absent
  absent = absent
  g1 = g1
  g2 = g2
  Guards = {g1, g2}
  MaxDecimalPlaces = 1
  MaxIntegerDigits = 1
  MaxMicros = 7
  Ten <- MCTen
  Length <- MCLength
  Strip <- MCStrip
  Digest <- MCDigest
  SafeSuffix <- MCSafeSuffix
  Configs <- ReusedConfigs
  Overrides = {}
  FieldNames = {}
  FieldValues = {}
  Texts = {}
  ExcNames = {"Declined"}
SYMMETRY Symmetry
CHECK_DEADLOCK FALSE
INVARIANTS
  CompletionCommits
