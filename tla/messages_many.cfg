\* sendMany with a lifetime.
SPECIFICATION Spec
CONSTANTS
  empty = empty
  fitting = fitting
  large = large
  Arrays = {empty, fitting, large}
  EmptyArrays = {empty}
  LargeArrays = {large}
  Contents = {old, new}
  Messages <- SomeMessages
  Options <- Plain
  ManyOptions <- Limited
  Longs = {2, 9}
  DurationWord = 8
  SizeWord = 16
  Capacity = 2
  MaxMessages = 2
  MaxBatch = 2
  None = None
INVARIANT OptionsAsGiven
\* Once the association is over nothing is left to do.
CHECK_DEADLOCK FALSE
