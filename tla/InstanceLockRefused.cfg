\* Is it always a controller that the lock is refused for?
SPECIFICATION Spec
CONSTANTS
  Controllers = {c1, c2}
  Probes = {p1}
  Nobody = nobody
PROPERTIES
  RefusedByController
CHECK_DEADLOCK TRUE
