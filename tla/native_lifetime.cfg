\* Two sockets whose callbacks call them in one order only, two threads, calls
\* nested in calls, under fairness of the collector and the cleaner.
SPECIFICATION FairSpec
CONSTANTS
  s1 = s1
  s2 = s2
  Sockets = {s1, s2}
  Threads = {t1, t2}
  NoThread = NoThread
  CleanerThread = cleaner
  MayCall <- Descending
  Forgettable = {"socket", "callbacks", "timeout", "box"}
  MaxDepth = 2
INVARIANTS
  TypeOK
  NoUseAfterFree
  OneThreadInside
  ReferencesResolve
  LinkedSocketStays
  NoWaitCycle
  IInv
PROPERTIES
  Reclaimed
  ImplementsOwnership
\* Every reference dropped and every socket deleted: the system may stop.
CHECK_DEADLOCK FALSE
