SPECIFICATION Spec
CONSTANTS
  Threads = {t1, t2}
  Partitions = {p1}
  Nodes = {0, 1}
  Addrs = {0, 1}
  Objs = {1, 2, 3, 4}
  Bootstrap = {0, 1}
  RetryAttempts = 1
  Ops = {"produce"}
  MaxFaults = 1
  MaxChanges = 1
  MaxMoves = 0
SYMMETRY ThreadSymmetry
INVARIANTS TypeOK KnownLeaders PointersMatch LocksInOrder
PROPERTIES LostByItsUser
