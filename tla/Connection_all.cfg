CONSTANTS
  Threads = {t1, t2, t3}
  MaxEndpoints = 2
SPECIFICATION FairSpec
INVARIANTS
  TypeOK
  ConnectedHasSocket
  OneCoroutine
  NoLostWakeup
PROPERTIES
  ImplementsLife
  ConnectReturns
  AttemptEnds
