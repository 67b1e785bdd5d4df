SPECIFICATION FairClientSpec
CONSTANTS
  Users = {u1, u2}
  NumIo = 2
  MaxCloses = 2
INVARIANTS NoIoAfterClose TerminatedOnlyAfterClose
PROPERTIES ClosesEnd CallsEnd
CHECK_DEADLOCK FALSE
