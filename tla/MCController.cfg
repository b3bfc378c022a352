\* Safety of an import over any number of runs, crashes, stops and resets.
SPECIFICATION Spec
CONSTANTS
  Entries = {e1, e2, e3}
  MaxAttempts = 2
  Snapshots = {s1, s2}
  NoFile = NoFile
SYMMETRY Symmetry
INVARIANTS
  TypeOK
  DigestsAgree
  CompletedIsVerified
  ReconcileAfterTransfer
  AttemptBudget
PROPERTIES
  StartsScheduler
  FailedIsSticky
CHECK_DEADLOCK TRUE
