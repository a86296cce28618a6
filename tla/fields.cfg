SPECIFICATION Spec
CONSTANTS
  None = none
  none = none
  Absent = absent
  absent = absent
  g1 = g1
  g2 = g2
  Guards = {g1}
  MaxDecimalPlaces = 1
  MaxIntegerDigits = 1
  MaxMicros = 7
  Ten <- MCTen
  Length <- MCLength
  Strip <- MCStrip
  Digest <- MCDigest
  SafeSuffix <- MCSafeSuffix
  Configs <- FieldConfigs
  Overrides = {}
  FieldNames = {"psp_ref", "note"}
  FieldValues = {"psp", number}
  Texts = {"psp"}
  ExcNames = {"Declined"}
CHECK_DEADLOCK FALSE
INVARIANTS
  SilenceMeansSettled
  ReceiptIsTruthful
