CONSTANTS
  Calls = {c1, c2}
  Replies = {"good"}
  Headers = {TRUE}
SPECIFICATION Spec
CHECK_DEADLOCK FALSE
INVARIANTS
  BrokerOutlivesHandlers
