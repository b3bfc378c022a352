\* Does failed work stay failed until it is reopened?
SPECIFICATION Spec
CONSTANTS
  Entries = {e1, e2}
  MaxAttempts = 2
  Snapshots = {s1, s2}
  NoFile = NoFile
PROPERTIES
  FailedUntilReopened
CHECK_DEADLOCK TRUE
