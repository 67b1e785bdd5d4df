CONSTANTS
  Calls = {c1, c2}
  Replies = {"good", "alien", "none"}
  Headers = {TRUE, FALSE}
SPECIFICATION CallerFairSpec
CHECK_DEADLOCK FALSE
PROPERTIES
  FailureReleasesCallers
  CallsReturn
