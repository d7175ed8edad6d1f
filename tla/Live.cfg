SPECIFICATION LiveSpec
CONSTANTS
  None = None
  Slack = Slack Issue = Issue Update = Update Comment = Comment
  StormIssue = StormIssue StormNote = StormNote StormClose = StormClose
  Inc = Inc Storm = Storm
  Workers = {w1, w2}
  Kind <- KindOf
  Dep <- DepOf
  Owner <- OwnerOf
  Rows = {Issue, Comment}
  Incidents = {Inc}
  MaxAttempts = 2
  MaxReplays = 1
  Overrun = FALSE
  m1 = m1 k1 = k1 i1 = i1 i2 = i2 q1 = q1 q2 = q2
CHECK_DEADLOCK FALSE
INVARIANTS AtMostOnce
PROPERTIES ImplementsDelivery Settles LeaseIsRespected Converges
