SPECIFICATION Spec
CONSTANTS
  Threads = {t1}
  Partitions = {p1, p2}
  Nodes = {0, 1}
  Addrs = {0, 1, 2}
  Objs = {1, 2, 3}
  Bootstrap = {0, 1}
  RetryAttempts = 1
  Ops = {"produce", "check"}
  MaxFaults = 1
  MaxChanges = 2
  MaxMoves = 1
INVARIANTS SuccessIsStored CrashOnlyByMove
CHECK_DEADLOCK FALSE
