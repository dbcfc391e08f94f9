\* Threads start with either class; loading succeeds.
SPECIFICATION FairSpec
CONSTANTS
  Threads = {t1, t2}
  NoThread = NoThread
  Loader = DcSctp4j
  Users = {DcSctpSocketFactory, DcSctpOptions}
  FirstUses = {DcSctpSocketFactory, DcSctpOptions}
  Outcomes = {"ok"}
PROPERTY ConstructorsEnd
\* Once every constructor has returned nothing is left to do.
CHECK_DEADLOCK FALSE
