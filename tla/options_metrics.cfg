\* Two sockets that nobody has set anything of, and their metrics.
SPECIFICATION Spec
CONSTANTS
  Sockets = {s1, s2}
  Objects = {j1, j2}
  Ptrs = {p1, p2, p3, p4}
  Counts = {}
  OtherValues <- SomeValues
  DefaultOf <- SomeDefaults
  Word = 16
  DurationWord = 8
  MaxFailures = 0
  None = None
INVARIANT MetricsAsDocumented
\* Both sockets destroyed and all objects collected, nothing is left to do.
CHECK_DEADLOCK FALSE
