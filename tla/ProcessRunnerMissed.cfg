\* Does a stop reach every child?
SPECIFICATION Spec
CONSTANTS
  Workers = {w1, w2}
  Main = main
  Free = free
  MaxSignals = 1
INVARIANTS
  StopReachesEveryChild
CHECK_DEADLOCK FALSE
