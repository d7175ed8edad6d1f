SPECIFICATION Spec
CONSTANTS
  Events = {e1, e2}
  Incidents = {Inc}
  Inc = Inc
  Thread <- ThreadOf
  Workers = {w1, w2}
  None = None
  MaxAttempts = 2
SYMMETRY Symmetry
CHECK_DEADLOCK FALSE
INVARIANTS OutcomeIsOne RunsAreCharged OneFollowup AnsweredIsSettled
