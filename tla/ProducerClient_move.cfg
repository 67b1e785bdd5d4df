SPECIFICATION Spec
CONSTANTS
  Threads = {t1}
  Partitions = {p1}
  Nodes = {0, 1}
  Addrs = {0, 1, 2}
  Objs = {1, 2, 3}
  Bootstrap = {0, 1}
  RetryAttempts = 1
  Ops = {"produce"}
  MaxFaults = 0
  MaxChanges = 0
  MaxMoves = 1
INVARIANTS NoNullBroker
