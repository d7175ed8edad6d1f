------------------------------- MODULE Outbox -------------------------------
(***************************************************************************)
(* The transactional outbox of services/incident-agent: rows of ops.outbox *)
(* (app/outbox.py), the dispatcher job that turns rows into Cloud Tasks    *)
(* (app/dispatcher.py), and the worker requests that claim a row, talk to  *)
(* Slack or GitHub and commit the result (app/worker.py, app/external.py). *)
(*                                                                         *)
(* Each database transaction is one step; each HTTP call to Slack or       *)
(* GitHub is one step; a request may die between any two of them.  A reply *)
(* that changes nothing (a busy or blocked claim answers 503, and Cloud    *)
(* Tasks delivers the task again) is a stuttering step.                    *)
(***************************************************************************)
EXTENDS Naturals, FiniteSets

CONSTANTS
    Rows,         \* outbox rows, one per idempotency_key
    Incidents,
    Workers,      \* worker requests that can be in progress at once
    Kind,         \* [Rows -> Kinds]: destination, and payload.operation
    Dep,          \* [Rows -> Rows \cup {None}]: depends_on
    Owner,        \* [Rows -> Incidents]: incident_id
    None,         \* SQL NULL
    MaxAttempts,  \* MAX_OUTBOX_ATTEMPTS
    MaxReplays,   \* bound of the model: operator replays of one row
    Overrun       \* may a request outlive its lease (660 s against a 600 s
                  \* request timeout: FALSE as deployed)

Kinds == {"slack", "slack_update", "github_issue", "github_comment",
          "github_close"}

\* Destinations whose sender first searches for its marker, then posts.
ByMarker == {"github_issue", "github_comment"}

Refs == Rows \X Nat   \* the n-th object that exists for a row

ASSUME OutboxConstants ==
    /\ Kind \in [Rows -> Kinds]
    /\ None \notin Rows \cup Refs
    /\ Dep \in [Rows -> Rows \cup {None}]
    /\ \A r \in Rows : Kind[r] \in {"slack_update", "github_comment", "github_close"}
                           => Dep[r] # None
    /\ Owner \in [Rows -> Incidents]
    /\ MaxAttempts \in Nat \ {0}
    /\ MaxReplays \in Nat
    /\ Overrun \in BOOLEAN

VARIABLES
    row,       \* the rows of ops.outbox
    incident,  \* the references the incident row carries
    world,     \* [Rows -> Nat]: effects of the row that exist outside
    tasks,     \* Cloud Tasks by name: free, queued, or spent (name retained)
    worker     \* the worker requests in progress

vars == <<row, incident, world, tasks, worker>>

Numbers == 0 .. (MaxReplays + MaxAttempts)

RowRecords == [status : {"absent", "pending", "sending", "sent", "failed"},
               attempts : 0 .. MaxAttempts,
               generation : 0 .. MaxReplays,
               lease : {"none", "live", "expired"},
               token : Nat,
               ref : Refs \cup {None}]

Stages == {"idle", "claimed", "posting", "called", "errored", "rejected"}

WorkerRecords == [stage : Stages, row : Rows \cup {None}, number : Numbers,
                  token : Nat, issue : Refs \cup {None}, ref : Refs \cup {None}]

Absent == [status |-> "absent", attempts |-> 0, generation |-> 0,
           lease |-> "none", token |-> 0, ref |-> None]

Fresh == [Absent EXCEPT !.status = "pending"]

Idle == [stage |-> "idle", row |-> None, number |-> 0, token |-> 0,
         issue |-> None, ref |-> None]

Init == /\ row = [r \in Rows |-> Absent]
        /\ incident = [i \in Incidents |-> [issue |-> None, slack |-> None]]
        /\ world = [r \in Rows |-> 0]
        /\ tasks = [t \in Rows \X Numbers |-> "free"]
        /\ worker = [w \in Workers |-> Idle]

-----------------------------------------------------------------------------
(* Recording an intention: the INSERTs of the ingest, owner and follow-up  *)
(* transactions.                                                           *)

Recorded(r) == row[r].status # "absent"
DepRecorded(r) == IF Dep[r] = None THEN TRUE ELSE Recorded(Dep[r])
DepSentIgnored(r) == DepRecorded(r)
DepSent(r) == IF Dep[r] = None THEN TRUE ELSE row[Dep[r]].status = "sent"

\* A storm-merge comment goes to the merged incident's Issue once the storm's
\* Issue exists; it is only created for incidents that already have an Issue.
StormComment(r) == Kind[r] = "github_comment" /\ Owner[Dep[r]] # Owner[r]

\* Rows inserted by one transaction: an incident's first Slack post and its
\* Issue; the close of a merged Issue and the comment that precedes it.
Primary == {r \in Rows : Kind[r] \in {"slack", "github_issue"}}
Batch(r) == IF r \in Primary
            THEN {x \in Primary : Owner[x] = Owner[r]}
            ELSE {r} \cup {c \in Rows : Kind[c] = "github_close" /\ Dep[c] = r}

Insert(R) == [r \in Rows |-> IF r \in R THEN Fresh ELSE row[r]]

Record(r) ==
    /\ ~Recorded(r)
    /\ Kind[r] \notin {"slack_update", "github_close"}
    /\ DepRecorded(r)
    /\ StormComment(r) => incident[Owner[r]].issue # None
    /\ row' = Insert({b \in Batch(r) : ~Recorded(b)})
    /\ UNCHANGED <<incident, world, tasks, worker>>

-----------------------------------------------------------------------------
(* The dispatcher job enqueues one task per dispatchable row.  A name read  *)
(* from the table and enqueued a moment later is a task that waits: the    *)
(* claim decides from the row as it is then, whatever the task's name.     *)

PendingOnly(r) == row[r].status = "pending" /\ DepSent(r)
Dispatchable(r) ==
    /\ \/ row[r].status = "pending"
       \/ row[r].status = "sending" /\ row[r].lease = "expired"
    /\ DepSent(r)

TaskNumber(r) ==
    IF row[r].status = "sending" THEN row[r].generation + row[r].attempts
                                 ELSE row[r].generation

\* A name in use or retained answers ALREADY_EXISTS, which counts as success;
\* any other enqueue error leaves the row to the next scan.  Neither changes
\* anything.
Dispatch(r) ==
    /\ Dispatchable(r)
    /\ tasks[<<r, TaskNumber(r)>>] = "free"
    /\ tasks' = [tasks EXCEPT ![<<r, TaskNumber(r)>>] = "queued"]
    /\ UNCHANGED <<row, incident, world, worker>>

-----------------------------------------------------------------------------
(* Cloud Tasks.  A queued task is delivered at least once and again after  *)
(* a reply other than 2xx, a lost reply or the dispatch deadline, until    *)
(* the queue's retry limits end it.  The name of a finished task is kept   *)
(* for a while: creating it again answers ALREADY_EXISTS.                  *)

Active(w) == worker[w].stage # "idle"

RetriesEnd(r, n) ==
    /\ tasks[<<r, n>>] = "queued"
    /\ tasks' = [tasks EXCEPT ![<<r, n>>] = "spent"]
    /\ UNCHANGED <<row, incident, world, worker>>

\* Names are kept far longer than a request can last.
NameFreed(r, n) ==
    /\ tasks[<<r, n>>] = "spent"
    /\ \A w \in Workers : Active(w) => <<worker[w].row, worker[w].number>> # <<r, n>>
    /\ tasks' = [tasks EXCEPT ![<<r, n>>] = "free"]
    /\ UNCHANGED <<row, incident, world, worker>>

\* A 2xx reply ends the task, unless the reply is lost.
Answered200(r, n) ==
    \/ tasks[<<r, n>>] = "queued" /\ tasks' = [tasks EXCEPT ![<<r, n>>] = "spent"]
    \/ UNCHANGED tasks

-----------------------------------------------------------------------------
(* A worker request: claim_outbox, the external calls, and the commit.     *)

LeaseLive(r) == row[r].status = "sending" /\ row[r].lease = "live"

\* "busy": another delivery holds a lease that has not expired.
NeverBusy(r) == FALSE
Busy(r) == LeaseLive(r)

Claimable(r) ==
    /\ row[r].status \in {"pending", "sending"}
    /\ DepSent(r)
    /\ ~Busy(r)

OneAttemptMore(r) == row[r].attempts <= MaxAttempts
AttemptsLeft(r) == row[r].attempts < MaxAttempts

ClaimedRow(r) == [row[r] EXCEPT !.status = "sending", !.attempts = @ + 1,
                                !.lease = "live", !.token = @ + 1]

\* What the claim returns: the delivery, the new token, the incident's Issue.
Holder(r, n) == [stage |-> "claimed", row |-> r, number |-> n,
                 token |-> ClaimedRow(r).token,
                 issue |-> incident[Owner[r]].issue, ref |-> None]

Claim(w, r, n) ==
    /\ ~Active(w)
    /\ tasks[<<r, n>>] = "queued"
    /\ Claimable(r)
    /\ AttemptsLeft(r)
    /\ row' = [row EXCEPT ![r] = ClaimedRow(r)]
    /\ worker' = [worker EXCEPT ![w] = Holder(r, n)]
    /\ UNCHANGED <<incident, world, tasks>>

FailedRow(r) == [row[r] EXCEPT !.status = "failed", !.lease = "none"]

\* The claim that finds the attempts used up fails the row.
Exhaust(r, n) ==
    /\ tasks[<<r, n>>] = "queued"
    /\ Claimable(r)
    /\ ~AttemptsLeft(r)
    /\ row' = [row EXCEPT ![r] = FailedRow(r)]
    /\ Answered200(r, n)
    /\ UNCHANGED <<incident, world, worker>>

\* A delivery of a settled row.
AlreadySettled(r, n) ==
    /\ tasks[<<r, n>>] = "queued"
    /\ row[r].status \in {"sent", "failed"}
    /\ tasks' = [tasks EXCEPT ![<<r, n>>] = "spent"]
    /\ UNCHANGED <<row, incident, world, worker>>

At(w, stage) == [worker[w] EXCEPT !.stage = stage]
Answer(w, ref) == [worker[w] EXCEPT !.stage = "called", !.ref = ref]

\* An object carrying the marker of this row exists.
NeverFound(r) == FALSE
Found(r) == world[r] > 0

\* GitHub: look for the marker of this row's idempotency key.
Lookup(w) ==
    /\ worker[w].stage = "claimed"
    /\ LET r == worker[w].row IN
       /\ Kind[r] \in ByMarker
       /\ Kind[r] = "github_comment" => worker[w].issue # None
       /\ worker' = [worker EXCEPT ![w] =
              IF Found(r) THEN Answer(w, <<r, world[r]>>) ELSE At(w, "posting")]
    /\ UNCHANGED <<row, incident, world, tasks>>

MayCall(w) ==
    LET r == worker[w].row IN
    \/ worker[w].stage = "posting"
    \/ /\ worker[w].stage = "claimed"
       /\ Kind[r] \notin ByMarker
       /\ Kind[r] = "github_close" => worker[w].issue # None
       /\ Kind[r] = "slack_update" => row[Dep[r]].ref # None

\* Posting by marker adds an object.  chat.postMessage carries a client_msg_id
\* derived from the key; chat.update and closing an Issue are idempotent.
Effect(r) == IF Kind[r] \in ByMarker THEN world[r] + 1 ELSE 1

\* The reference the call answers with: the object itself, or the one it acts on.
RefOf(w, r) == CASE Kind[r] = "github_close" -> worker[w].issue
                 [] Kind[r] = "slack_update" -> row[Dep[r]].ref
                 [] OTHER -> <<r, Effect(r)>>

Call(w) ==
    /\ MayCall(w)
    /\ LET r == worker[w].row IN
       /\ world' = [world EXCEPT ![r] = Effect(r)]
       /\ \/ worker' = [worker EXCEPT ![w] = Answer(w, RefOf(w, r))]
          \/ worker' = [worker EXCEPT ![w] = At(w, "errored")]  \* answer lost
    /\ UNCHANGED <<row, incident, tasks>>

Calling == {"claimed", "posting", "called"}

\* SecretScanError: the scanner refuses the payload, the body or the reference.
Refused(w) ==
    /\ worker[w].stage \in Calling
    /\ worker' = [worker EXCEPT ![w] = At(w, "rejected")]
    /\ UNCHANGED <<row, incident, world, tasks>>

\* Any other exception: HTTP error before the effect, missing reference, database.
Errs(w) ==
    /\ worker[w].stage \in Calling
    /\ worker' = [worker EXCEPT ![w] = At(w, "errored")]
    /\ UNCHANGED <<row, incident, world, tasks>>

\* The compare-and-set of every write that ends a delivery.
HoldsToken(w) == row[worker[w].row].token = worker[w].token
Holds(w) == LET r == worker[w].row IN
    row[r].status = "sending" /\ row[r].token = worker[w].token

\* ReferenceConflictError: the incident carries another reference already.
Conflict(w) == LET r == worker[w].row
                   i == incident[Owner[r]] IN
    \/ Kind[r] = "github_issue" /\ i.issue \notin {None, worker[w].ref}
    \/ Kind[r] \in {"slack", "slack_update"} /\ i.slack \notin {None, worker[w].ref}

NoFollowers(r) == {}

\* The Slack update that links to a new Issue, when the primary post is recorded.
Followers(r) == {u \in Rows : /\ Kind[r] = "github_issue"
                              /\ Kind[u] = "slack_update"
                              /\ Owner[u] = Owner[r]
                              /\ ~Recorded(u)
                              /\ Recorded(Dep[u])}

NotReferenced(r, ref) == incident
Referenced(r, ref) == LET i == Owner[r] IN
    CASE Kind[r] = "github_issue" -> [incident EXCEPT ![i].issue = ref]
      [] Kind[r] \in {"slack", "slack_update"} -> [incident EXCEPT ![i].slack = ref]
      [] OTHER -> incident

SentRow(w) == [row[worker[w].row] EXCEPT !.status = "sent", !.lease = "none",
                                         !.ref = worker[w].ref]

\* mark_outbox_sent: the row, the incident's reference and the follow-up row
\* commit together or not at all.
Mark(w) ==
    /\ worker[w].stage = "called"
    /\ Holds(w)
    /\ LET r == worker[w].row IN
       IF Conflict(w)
       THEN /\ worker' = [worker EXCEPT ![w] = At(w, "rejected")]
            /\ UNCHANGED <<row, incident, tasks>>
       ELSE /\ row' = [Insert(Followers(r)) EXCEPT ![r] = SentRow(w)]
            /\ incident' = Referenced(r, worker[w].ref)
            /\ worker' = [worker EXCEPT ![w] = Idle]
            /\ Answered200(r, worker[w].number)
    /\ UNCHANGED world

\* Another claim replaced the token: answer 200 and leave the row to it.
MarkStale(w) ==
    /\ worker[w].stage = "called"
    /\ ~Holds(w)
    /\ worker' = [worker EXCEPT ![w] = Idle]
    /\ Answered200(worker[w].row, worker[w].number)
    /\ UNCHANGED <<row, incident, world>>

AfterRelease(r) ==
    [row[r] EXCEPT !.lease = "none",
                   !.status = IF row[r].attempts >= MaxAttempts THEN "failed"
                                                                ELSE "pending"]

\* release_or_fail_outbox, then 503.
Release(w) ==
    /\ worker[w].stage = "errored"
    /\ LET r == worker[w].row IN
       row' = IF Holds(w) THEN [row EXCEPT ![r] = AfterRelease(r)] ELSE row
    /\ worker' = [worker EXCEPT ![w] = Idle]
    /\ UNCHANGED <<incident, world, tasks>>

\* fail_outbox_safety, then 200 for the holder and 503 for a stale worker.
FailSafety(w) ==
    /\ worker[w].stage = "rejected"
    /\ LET r == worker[w].row IN
       IF Holds(w)
       THEN /\ row' = [row EXCEPT ![r] = FailedRow(r)]
            /\ Answered200(r, worker[w].number)
       ELSE UNCHANGED <<row, tasks>>
    /\ worker' = [worker EXCEPT ![w] = Idle]
    /\ UNCHANGED <<incident, world>>

\* The request dies (instance restart, request timeout); its lease remains.
Crash(w) ==
    /\ Active(w)
    /\ worker' = [worker EXCEPT ![w] = Idle]
    /\ UNCHANGED <<row, incident, world, tasks>>

-----------------------------------------------------------------------------
(* Time and the operator.                                                  *)

InProgress(r) == \E w \in Workers :
    Active(w) /\ worker[w].row = r /\ worker[w].token = row[r].token

ExpiredRow(r) == [row[r] EXCEPT !.lease = "expired"]

LeaseExpires(r) ==
    /\ LeaseLive(r)
    /\ Overrun \/ ~InProgress(r)
    /\ row' = [row EXCEPT ![r] = ExpiredRow(r)]
    /\ UNCHANGED <<incident, world, tasks, worker>>

Replayable(r) == row[r].status = "failed"

ReplayedRow(r) == [row[r] EXCEPT !.status = "pending", !.attempts = 0, !.lease = "none",
                                 !.generation = @ + 1, !.token = @ + 1]

\* replay_failed_outbox.
Replay(r) ==
    /\ Replayable(r)
    /\ row[r].generation < MaxReplays
    /\ row' = [row EXCEPT ![r] = ReplayedRow(r)]
    /\ UNCHANGED <<incident, world, tasks, worker>>

-----------------------------------------------------------------------------

RowStep(r) == Record(r) \/ Dispatch(r) \/ LeaseExpires(r) \/ Replay(r)

TaskStep(r, n) == \/ RetriesEnd(r, n) \/ NameFreed(r, n)
                  \/ Exhaust(r, n) \/ AlreadySettled(r, n)
                  \/ \E w \in Workers : Claim(w, r, n)

WorkerStep(w) == \/ Lookup(w) \/ Call(w) \/ Refused(w) \/ Errs(w)
                 \/ Mark(w) \/ MarkStale(w) \/ Release(w) \/ FailSafety(w)
                 \/ Crash(w)

Next == \/ \E r \in Rows : RowStep(r)
        \/ \E r \in Rows, n \in Numbers : TaskStep(r, n)
        \/ \E w \in Workers : WorkerStep(w)

Spec == Init /\ [][Next]_vars

(* Fairness.  Cloud Scheduler starts the dispatcher every minute, and an   *)
(* enqueue or a delivery that is possible again and again happens in the   *)
(* end; leases and retained names run out by themselves; a request takes   *)
(* its next step or dies.  Nothing makes a call succeed, and no operator   *)
(* is obliged to replay.                                                   *)
Fairness ==
    /\ \A r \in Rows :
        /\ SF_vars(Dispatch(r))
        /\ SF_vars(\E n \in Numbers : Exhaust(r, n) \/ \E w \in Workers : Claim(w, r, n))
        /\ WF_vars(LeaseExpires(r))
        /\ WF_vars(\E n \in Numbers : NameFreed(r, n))
    /\ \A w \in Workers : WF_vars(WorkerStep(w))

FairSpec == Spec /\ Fairness

-----------------------------------------------------------------------------
(* Properties.                                                             *)

\* Every variable keeps its type; in particular the attempts stay within the
\* CHECK of the attempt_count column.
TypeOK ==
    /\ row \in [Rows -> RowRecords]
    /\ incident \in [Incidents -> [issue : Refs \cup {None}, slack : Refs \cup {None}]]
    /\ world \in [Rows -> Nat]
    /\ tasks \in [Rows \X Numbers -> {"free", "queued", "spent"}]
    /\ worker \in [Workers -> WorkerRecords]

\* However often a task is delivered, a request dies or an operator replays,
\* the row's effect exists at most once in Slack or GitHub.
AtMostOnce == \A r \in Rows : world[r] <= 1

\* depends_on orders the effects themselves: a comment never precedes its
\* Issue, a close never precedes the comment that explains it.
DependencyOrder ==
    \A r \in Rows : world[r] > 0 /\ Dep[r] # None
        => world[Dep[r]] > 0 /\ row[Dep[r]].status = "sent"

\* A row marked sent has its effect outside, and the reference an incident
\* carries is the one its sent row recorded: the two rows commit together.
SentIsTrue ==
    /\ \A r \in Rows : row[r].status = "sent" =>
        /\ world[r] > 0 /\ row[r].ref # None
        /\ Kind[r] = "github_issue" => incident[Owner[r]].issue = row[r].ref
        /\ Kind[r] \in {"slack", "slack_update"} => incident[Owner[r]].slack = row[r].ref
    /\ \A i \in Incidents : incident[i].issue # None =>
        \E r \in Rows : /\ Owner[r] = i /\ Kind[r] = "github_issue"
                        /\ row[r].status = "sent" /\ row[r].ref = incident[i].issue

\* An incident that got its Issue has, recorded, the Slack update that links
\* to it, although the update's own dependency may still be unsent.
IssueIsAnnounced ==
    \A r, u \in Rows :
        /\ row[r].status = "sent" /\ Kind[r] = "github_issue"
        /\ Kind[u] = "slack_update" /\ Owner[u] = Owner[r]
        => Recorded(u)

\* A task for a row always finds the row's dependency sent: no delivery is
\* spent on a blocked row.
NeverBlocked ==
    \A r \in Rows, n \in Numbers : tasks[<<r, n>>] = "queued" => DepSent(r)

\* Sent is final, reference included: no late worker, expired lease or replay
\* takes it back.
SentIsFinal ==
    [][\A r \in Rows : row[r].status = "sent" => row'[r] = row[r]]_vars

\* A worker whose row was claimed again, settled or replayed behind its back
\* ends without a trace in the database.
StaleIsHarmless ==
    [][\A w \in Workers :
          /\ Active(w) /\ ~Active(w)'
          /\ LET r == worker[w].row IN
             row[r].token # worker[w].token \/ row[r].status # "sending"
          => UNCHANGED <<row, incident>>]_vars

\* While a request works under a live lease, its row changes only by that
\* request's own ending, or when the lease runs out.
LeaseIsRespected ==
    [][\A r \in Rows :
          LeaseLive(r) /\ InProgress(r) /\ row'[r] # row[r] =>
              \/ row'[r].lease = "expired"
              \/ \E w \in Workers : /\ Active(w) /\ worker[w].row = r
                                     /\ worker[w].token = row[r].token
                                     /\ worker'[w] = Idle]_vars

Phase == [r \in Rows |-> IF row[r].status \in {"pending", "sending"}
                         THEN "open" ELSE row[r].status]
Performed == [r \in Rows |-> world[r] > 0]

Delivery == INSTANCE OutboxDelivery WITH phase <- Phase, performed <- Performed

\* The outbox keeps the promise stated in OutboxDelivery: behind the leases,
\* tokens and task names, an intention is only ever performed, confirmed,
\* given up or reopened in that order.
ImplementsDelivery == Delivery!Spec

\* A recorded row whose dependency is sent is sent or failed in the end.
Settles == Delivery!Settles

\* docs/incident-agent.md, recovery of a failed outbox row: the row is sent
\* again under the same idempotency key and a new task name.
ReplayUsesNewTaskName ==
    [][\A r \in Rows : row'[r].generation > row[r].generation
          => tasks[<<r, row'[r].generation>>] = "free"]_vars
=============================================================================
