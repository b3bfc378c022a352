\* Does TRUE mean that the transfer phase is complete?
SPECIFICATION Spec
CONSTANTS
  Entries = {e1, e2}
  Workers = 2
  MaxAttempts = 2
  Messages = {m1}
  NoError = NoError
INVARIANTS
  TrueMeansComplete
CHECK_DEADLOCK TRUE
