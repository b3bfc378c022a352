\* Liveness: restarts bring the import to its end.
SPECIFICATION CalmSpec
CONSTANTS
  Entries = {e1, e2}
  MaxAttempts = 2
  Snapshots = {s1, s2}
  NoFile = NoFile
PROPERTIES
  ResumesToTheEnd
CHECK_DEADLOCK TRUE
