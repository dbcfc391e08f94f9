\* Every thread starts with a factory, as the tests do; loading may fail; the
\* level of the logger changes at any time.
SPECIFICATION LogFairSpec
CONSTANTS
  Threads = {t1, t2, t3}
  NoThread = NoThread
  Loader = DcSctp4j
  Users = {DcSctpSocketFactory, DcSctpOptions}
  FirstUses = {DcSctpSocketFactory}
  Outcomes = {"ok", "exception", "error"}
  Levels = {500, 900, 1000, 2147483647}
INVARIANTS
  TypeOK
  LogTypeOK
  ObjectsMeanLoaded
  NeverTooEarly
  SameOutcome
PROPERTIES
  ConstructorsEnd
  SteadilyWantedArrives
  PublishedWasWanted
\* Once every constructor has returned only logging is left to do.
CHECK_DEADLOCK FALSE
