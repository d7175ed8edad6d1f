------------------------------ MODULE MCOutbox ------------------------------
(* Small instances of Outbox: which rows exist and how they depend on each *)
(* other.  The cfg files choose the rows; the functions cover them all.    *)
EXTENDS Outbox, TLC

CONSTANTS Slack, Issue, Update, Comment, StormIssue, StormNote, StormClose
CONSTANTS Inc, Storm

KindOf == [r \in Rows |->
    CASE r = Slack -> "slack"
      [] r = Update -> "slack_update"
      [] r \in {Issue, StormIssue} -> "github_issue"
      [] r \in {Comment, StormNote} -> "github_comment"
      [] r = StormClose -> "github_close"]

\* A repeated alert comments on its incident's Issue; the storm's comment on
\* a merged Issue waits for the storm's Issue, its close for the comment.
DepOf == [r \in Rows |->
    CASE r = Update -> Slack
      [] r = Comment -> Issue
      [] r = StormNote -> StormIssue
      [] r = StormClose -> StormNote
      [] OTHER -> None]

\* Requests are interchangeable (used by runs without liveness).
WorkerSymmetry == Permutations(Workers)

OwnerOf == [r \in Rows |-> IF r = StormIssue THEN Storm ELSE Inc]
=============================================================================
