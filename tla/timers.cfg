\* Two sockets on one executor thread; another thread calls one of them, too.
SPECIFICATION FairSpec
CONSTANTS
  Sockets = {client, server}
  Shared = {client}
  MaxGen = 3
INVARIANTS
  TypeOK
  ConfinedNeverEarly
  OneTask
  RunningIsArmed
PROPERTY Expires
