SPECIFICATION BusySpec
CONSTANTS
  Threads = {t1}
  Partitions = {p1}
  Nodes = {0, 1}
  Addrs = {0, 1}
  Objs = {1, 2, 3}
  Bootstrap = {0, 1}
  RetryAttempts = 1
  Ops = {"produce"}
  MaxFaults = 1
  MaxChanges = 3
  MaxMoves = 0
PROPERTIES Recovers
