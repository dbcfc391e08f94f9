\* Two sockets whose callbacks may call either socket, as DcSctpSocketCallbacks
\* allows: each of two threads can hold one monitor and want the other.
SPECIFICATION Spec
CONSTANTS
  s1 = s1
  s2 = s2
  Sockets = {s1, s2}
  Threads = {t1, t2}
  NoThread = NoThread
  CleanerThread = cleaner
  MayCall <- Everything
  Forgettable = {}
  MaxDepth = 3
SYMMETRY Symmetry
INVARIANTS
  NoWaitCycle
CHECK_DEADLOCK FALSE
