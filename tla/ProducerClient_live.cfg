SPECIFICATION FairSpec
CONSTANTS
  Threads = {t1, t2}
  Partitions = {p1}
  Nodes = {0}
  Addrs = {0}
  Objs = {1, 2, 3}
  Bootstrap = {0}
  RetryAttempts = 1
  Ops = {"produce"}
  MaxFaults = 1
  MaxChanges = 1
  MaxMoves = 0
PROPERTIES CallReturns
