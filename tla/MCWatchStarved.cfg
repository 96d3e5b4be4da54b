CONSTANTS
  s1 = s1
  s2 = s2
  s3 = s3
  Partial = Partial
  Snapshot <- MCSnapshot
  MaxFlight = 2
SPECIFICATION LiveSpec
PROPERTIES
  KeepsReconciling
