\* Threads start with either class.
SPECIFICATION Spec
CONSTANTS
  Threads = {t1, t2}
  NoThread = NoThread
  Loader = DcSctp4j
  Users = {DcSctpSocketFactory, DcSctpOptions}
  FirstUses = {DcSctpSocketFactory, DcSctpOptions}
  Outcomes = {"ok"}
INVARIANT NeverTooEarly
\* Once every constructor has returned nothing is left to do.
CHECK_DEADLOCK FALSE
