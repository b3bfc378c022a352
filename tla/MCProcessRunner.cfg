\* The runner with two pool threads, the main thread and two signals.
\* A main thread that blocks itself on its own lock is a deadlock of the
\* system: CancellationIsGraceful is the run that shows it.
SPECIFICATION FairSpec
CONSTANTS
  Workers = {w1, w2}
  Main = main
  Free = free
  MaxSignals = 2
INVARIANTS
  TypeOK
  NothingLeftBehind
PROPERTIES
  RegisteredAreReached
  StartsNoMore
CHECK_DEADLOCK FALSE
