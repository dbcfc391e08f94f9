\* Only the client resets streams.
SPECIFICATION FairSpec
CONSTANTS
  Ends = {client, server}
  Streams = {st1, st2}
  Resetters = {client}
  MaxRequests = 3
INVARIANTS
  TypeOK
  PerformedMeansReset
  ReportedOnce
  RefusedHasNoEffect
PROPERTY ResultsArrive
\* No end makes more than MaxRequests requests.
CHECK_DEADLOCK FALSE
