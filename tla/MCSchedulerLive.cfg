\* Liveness of one transfer phase: two entries, two workers, two attempts,
\* no symmetry.
SPECIFICATION FairSpec
CONSTANTS
  Entries = {e1, e2}
  Workers = 2
  MaxAttempts = 2
  Messages = {m1}
  NoError = NoError
PROPERTIES
  Terminates
  ResultRecorded
CHECK_DEADLOCK TRUE
