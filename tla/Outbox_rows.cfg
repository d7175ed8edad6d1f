SPECIFICATION ScopedSpec
CONSTANTS
  None = None
  Slack = Slack Issue = Issue Update = Update Comment = Comment
  StormIssue = StormIssue StormNote = StormNote StormClose = StormClose
  Inc = Inc Storm = Storm
  Workers = {w1, w2}
  Kind <- KindOf
  Dep <- DepOf
  Owner <- OwnerOf
  Rows = {Slack, Issue, Update, StormIssue, StormNote, StormClose}
  Incidents = {Inc, Storm}
  MaxAttempts = 1
  MaxReplays = 1
  Overrun = TRUE
CHECK_DEADLOCK FALSE
SYMMETRY WorkerSymmetry
INVARIANTS TypeOK SentIsTrue IssueIsAnnounced DependencyOrder
PROPERTIES StaleIsHarmless
