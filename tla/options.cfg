\* Two sockets, two options or metrics objects, counts at both ends of the
\* range, one failing constructor; a size_t of 4 bits, a duration of 3.
SPECIFICATION Spec
CONSTANTS
  Sockets = {s1, s2}
  Objects = {j1, j2}
  Ptrs = {p1, p2, p3}
  Counts <- SomeCounts
  OtherValues <- SomeValues
  DefaultOf <- SomeDefaults
  Word = 16
  DurationWord = 8
  MaxFailures = 1
  None = None
INVARIANTS
  TypeOK
  OneOwner
  OptionsOfCreation
  ReadsBack
  MetricsOfNegotiation
SYMMETRY Symmetry
\* Both sockets destroyed and all objects collected, nothing is left to do.
CHECK_DEADLOCK FALSE
