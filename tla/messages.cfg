\* One array of each size, a buffer of two messages, limits only with send.
SPECIFICATION FairSpec
CONSTANTS
  empty = empty
  fitting = fitting
  large = large
  Arrays = {empty, fitting, large}
  EmptyArrays = {empty}
  LargeArrays = {large}
  Contents = {old, new}
  Messages <- SomeMessages
  Options <- Every
  ManyOptions <- Plain
  Longs = {2, 9}
  DurationWord = 8
  SizeWord = 16
  Capacity = 2
  MaxMessages = 3
  MaxBatch = 2
  None = None
INVARIANTS
  TypeOK
  StatusTellsFate
  ErrorsMatchStatuses
  DeliveredAsSent
  OrderedInOrder
PROPERTIES
  ImplementsChannel
  UnlimitedArrive
\* Once the association is over nothing is left to do.
CHECK_DEADLOCK FALSE
