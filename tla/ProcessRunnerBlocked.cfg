\* Can a stop block the process?
SPECIFICATION Spec
CONSTANTS
  Workers = {w1, w2}
  Main = main
  Free = free
  MaxSignals = 1
INVARIANTS
  CancellationIsGraceful
CHECK_DEADLOCK FALSE
