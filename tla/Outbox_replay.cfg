SPECIFICATION FairSpec
CONSTANTS
  None = None
  Slack = Slack Issue = Issue Update = Update Comment = Comment
  StormIssue = StormIssue StormNote = StormNote StormClose = StormClose
  Inc = Inc Storm = Storm
  Workers = {w1, w2}
  Kind <- KindOf
  Dep <- DepOf
  Owner <- OwnerOf
CHECK_DEADLOCK FALSE
CONSTANTS
  Rows = {Issue}
  Incidents = {Inc}
  MaxAttempts = 2
  MaxReplays = 1
  Overrun = FALSE
PROPERTIES ReplayUsesNewTaskName
