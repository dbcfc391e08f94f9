\* Both ends reset streams: the peer's resets are reported as this end's own.
SPECIFICATION Spec
CONSTANTS
  Ends = {client, server}
  Streams = {st1, st2}
  Resetters = {client, server}
  MaxRequests = 2
INVARIANT PerformedMeansReset
\* No end makes more than MaxRequests requests.
CHECK_DEADLOCK FALSE
