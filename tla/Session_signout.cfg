SPECIFICATION Spec
CONSTANTS
  Users = {"u"}
  Nobody = "nobody"
  Pending = "pending"
PROPERTIES SignOutLeavesNothing
CHECK_DEADLOCK FALSE
