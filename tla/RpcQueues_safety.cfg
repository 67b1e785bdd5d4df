CONSTANTS
  Calls = {c1, c2, c3}
  Replies = {"good", "garbled", "alien", "short", "empty", "none"}
  Headers = {TRUE}
SPECIFICATION Spec
SYMMETRY CallSymmetry
CHECK_DEADLOCK FALSE
INVARIANTS
  TypeOK
  NoCallForgotten
  QueuesAreServed
  NoMisresume
  OwnResponse
PROPERTIES ImplementsSyncCalls
