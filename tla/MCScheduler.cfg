\* Safety of one transfer phase: three entries, two workers, two attempts.
SPECIFICATION Spec
CONSTANTS
  Entries = {e1, e2, e3}
  Workers = 2
  MaxAttempts = 2
  Messages = {m1, m2}
  NoError = NoError
SYMMETRY Symmetry
INVARIANTS
  TypeOK
  OneRsyncPerEntry
  OpenWorkInPlay
  RecordedMeansCopied
  RetryBudget
  ErrorIsLive
PROPERTIES
  RetryHistoryKept
  NoWorkAfterStop
  AbsSpec
CHECK_DEADLOCK TRUE
