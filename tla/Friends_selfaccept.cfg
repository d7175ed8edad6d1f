SPECIFICATION Spec
CONSTANTS
  Users = {"a", "b"}
  Viewers = {}
  Nobody = "nobody"
  MaxCalls = 2
  MaxFlags = 0
  FlagLimit = 1
INVARIANTS AcceptedByBoth
CHECK_DEADLOCK FALSE
