SPECIFICATION Spec
CONSTANTS
  Sockets = {s1, s2}
  BufferSize = 1
  FirstDelay = 1
  MaxDelay = 2
  Retries = 1
  MaxVersion = 2
  MaxHealth = 1
  MaxFaults = 1
  MaxMoves = 1
INVARIANTS
  TypeOK
  HubSendsOnOpenChannels
  OneFeed
PROPERTIES
  MutationIsShown
  IsFresh
