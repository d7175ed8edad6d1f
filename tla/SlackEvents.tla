----------------------------- MODULE SlackEvents -----------------------------
(***************************************************************************)
(* Mentions of the bot in an incident's Slack thread: the public ingress   *)
(* that records an event and enqueues its task (app/slack_ingress.py), the *)
(* rows of ops.slack_events (app/slack_events.py), the worker requests     *)
(* that claim a row, run the model once more and answer in the thread      *)
(* (app/slack_worker.py), and the retention job (jobs/slack_retention.py). *)
(*                                                                         *)
(* Each database transaction is one step, each call to Slack or to the     *)
(* model is one step, and a request may die between any two of them.  An   *)
(* answer that changes nothing (a busy row answers 503, a duplicate of a   *)
(* recorded event is acknowledged) is a stuttering step.                   *)
(***************************************************************************)
EXTENDS Naturals, FiniteSets

CONSTANTS
    Events,       \* event_ids that pass signature, shape and allowlists
    Incidents,
    Thread,       \* [Events -> Incidents]: whose thread the mention is in
    Workers,      \* worker requests that can be in progress at once
    None,         \* SQL NULL
    MaxAttempts   \* MAX_SLACK_EVENT_ATTEMPTS

ASSUME SlackConstants ==
    /\ Thread \in [Events -> Incidents]
    /\ None \notin Incidents
    /\ IsFiniteSet(Events) /\ IsFiniteSet(Workers)
    /\ MaxAttempts \in Nat \ {0}

VARIABLES
    event,      \* the rows of ops.slack_events
    incident,   \* what the lookup by thread finds of an incident
    comment,    \* events with a row slack-followup:<event_id> in ops.outbox
    charged,    \* investigations reserved by follow-ups in ops.budget_usage
    task,       \* the Cloud Task slack-<event_id>
    worker,     \* the worker requests in progress
    runs,       \* model runs begun for an event
    told,       \* answers and failure notices that reached the thread
    outlived    \* has a request gone on working after its lease ran out?

vars == <<event, incident, comment, charged, task, worker, runs, told,
          outlived>>

EventRecords ==
    [status : {"absent", "pending", "processing", "completed", "failed", "deleted"},
     attempts : 0 .. MaxAttempts,
     lease : {"none", "live", "expired"},
     incident : Incidents \cup {None},
     reserved : BOOLEAN]

Stages == {"idle", "found", "claimed", "fetch", "run", "running", "reply", "fixed",
           "complete", "undelivered", "errored", "notice"}

WorkerRecords == [stage : Stages, event : Events \cup {None},
                  incident : Incidents \cup {None}, linked : BOOLEAN, unsafe : BOOLEAN]

Absent == [status |-> "absent", attempts |-> 0, lease |-> "none", incident |-> None,
           reserved |-> FALSE]

Idle == [stage |-> "idle", event |-> None, incident |-> None, linked |-> FALSE,
         unsafe |-> FALSE]

Init == /\ event = [e \in Events |-> Absent]
        /\ incident \in [Incidents -> {"unknown", "open", "linked", "closed"}]
        /\ comment = {}
        /\ charged = 0
        /\ task = [e \in Events |-> "free"]
        /\ worker = [w \in Workers |-> Idle]
        /\ runs = [e \in Events |-> 0]
        /\ told = [e \in Events |-> 0]
        /\ outlived = FALSE

-----------------------------------------------------------------------------
(* Incidents, as the outbox and the intake move them: the thread is known  *)
(* when the Slack post is marked sent, the Issue when its row is; resolved *)
(* and merged incidents are no longer found by their thread.               *)

Later(i) == CASE incident[i] = "unknown" -> {"open", "linked", "closed"}
              [] incident[i] = "open" -> {"linked", "closed"}
              [] incident[i] = "linked" -> {"closed"}
              [] OTHER -> {}

IncidentMoves(i) ==
    /\ \E state \in Later(i) : incident' = [incident EXCEPT ![i] = state]
    /\ UNCHANGED <<event, comment, charged, task, worker, runs, told, outlived>>

-----------------------------------------------------------------------------
(* The ingress.  Slack delivers an event again until it is acknowledged in *)
(* time, so several requests may carry one event, pending or settled.      *)

\* register_slack_event, a new row or another try for a pending one, and then the
\* enqueue: a name in use or retained answers ALREADY_EXISTS, which counts as
\* success.  An enqueue that fails (503), or a request that dies before it, leaves
\* the row pending without a task.  Nobody acts on the row between the two, unless
\* a task exists already.  An event over the user's rate limit gets no row.
Receive(e) ==
    /\ event[e].status \in {"absent", "pending"}
    /\ event' = [event EXCEPT ![e].status = "pending"]
    /\ \/ task' = [task EXCEPT ![e] = IF @ = "free" THEN "queued" ELSE @]
       \/ UNCHANGED task
    /\ UNCHANGED <<incident, comment, charged, worker, runs, told, outlived>>

-----------------------------------------------------------------------------
(* Cloud Tasks.  A queued task is delivered at least once and again after  *)
(* a reply other than 2xx or a lost reply, until max_attempts or           *)
(* max_retry_duration: from then on it is just not delivered any more.  The *)
(* name of a task is kept for longer than Slack delivers an event again.   *)

Serves(w, e) == worker[w].stage # "idle" /\ worker[w].event = e
Served(e) == \E w \in Workers : Serves(w, e)

\* A 2xx reply ends the task, unless the reply is lost or comes too late; after a
\* 503 the queue delivers it again.
Answered200(e) ==
    \/ task[e] = "queued" /\ task' = [task EXCEPT ![e] = "answered"]
    \/ UNCHANGED task
Answered503(e) == UNCHANGED task

-----------------------------------------------------------------------------
(* A worker request.                                                       *)

At(w, stage) == [worker[w] EXCEPT !.stage = stage]
GoTo(w, stage) == worker' = [worker EXCEPT ![w] = At(w, stage)]
Ends(w) == worker' = [worker EXCEPT ![w] = Idle]

\* Requests between their claim and the write that ends it.
Holding == {"claimed", "fetch", "run", "running", "fixed", "complete", "undelivered",
            "errored"}
Holds(w) == worker[w].stage \in Holding

Settled(e) == event[e].status \in {"completed", "failed", "deleted"}
LeaseLive(e) == event[e].status = "processing" /\ event[e].lease = "live"

\* lookup_incident_for_thread: only an incident that is open and not merged, and
\* what the request knows of it from then on.
FoundOf(e) == LET i == Thread[e] IN
    [stage |-> "found", event |-> e, unsafe |-> FALSE,
     incident |-> IF incident[i] \in {"open", "linked"} THEN i ELSE None,
     linked |-> incident[i] = "linked"]

Lookup(w, e) ==
    /\ worker[w].stage = "idle"
    /\ task[e] = "queued"
    /\ worker' = [worker EXCEPT ![w] = FoundOf(e)]
    /\ UNCHANGED <<event, incident, comment, charged, task, runs, told, outlived>>

Busy(e) == LeaseLive(e)

\* Another event of the incident is being followed up (under the advisory lock).
NoneElse(e, i) == FALSE
IncidentBusy(e, i) ==
    /\ i # None
    /\ \E other \in Events \ {e} : event[other].incident = i /\ LeaseLive(other)

Claimable(e) == event[e].status \in {"pending", "processing"} /\ ~Busy(e)

OneAttemptMore(e) == event[e].attempts <= MaxAttempts
AttemptsLeft(e) == event[e].attempts < MaxAttempts

ClaimedRow(w, e) ==
    [event[e] EXCEPT !.status = "processing", !.attempts = @ + 1, !.lease = "live",
                     !.incident = IF worker[w].incident # None
                                  THEN worker[w].incident ELSE @]

\* claim_slack_event.
Claim(w) ==
    LET e == worker[w].event IN
    /\ worker[w].stage = "found"
    /\ Claimable(e)
    /\ AttemptsLeft(e)
    /\ ~IncidentBusy(e, worker[w].incident)
    /\ event' = [event EXCEPT ![e] = ClaimedRow(w, e)]
    /\ GoTo(w, "claimed")
    /\ UNCHANGED <<incident, comment, charged, task, runs, told, outlived>>

FailedRow(e) == [event[e] EXCEPT !.status = "failed", !.lease = "none"]

\* The claim that finds the attempts used up fails the event and says so.
Exhaust(w) ==
    LET e == worker[w].event IN
    /\ worker[w].stage = "found"
    /\ Claimable(e)
    /\ ~AttemptsLeft(e)
    /\ event' = [event EXCEPT ![e] = FailedRow(e)]
    /\ GoTo(w, "notice")
    /\ UNCHANGED <<incident, comment, charged, task, runs, told, outlived>>

\* A row that is settled or gone answers 200.
AlreadySettled(w) ==
    /\ worker[w].stage = "found"
    /\ Settled(worker[w].event)
    /\ Ends(w)
    /\ Answered200(worker[w].event)
    /\ UNCHANGED <<event, incident, comment, charged, runs, told, outlived>>

\* A request over the lease of another answers 503, as one whose incident is busy.
TurnedAway(w) ==
    /\ worker[w].stage = "found"
    /\ \/ Busy(worker[w].event)
       \/ /\ Claimable(worker[w].event)
          /\ AttemptsLeft(worker[w].event)
          /\ IncidentBusy(worker[w].event, worker[w].incident)
    /\ Ends(w)
    /\ Answered503(worker[w].event)
    /\ UNCHANGED <<event, incident, comment, charged, runs, told, outlived>>

-----------------------------------------------------------------------------
(* What the holder of an event does: SlackFollowupWorker._process.         *)

\* Denied by an allowlist: completed in silence.  Not linked, or over the rate
\* of the thread: a fixed reply.
Decide(w) ==
    /\ worker[w].stage = "claimed"
    /\ \E next \in {"complete", "fixed"} \cup (IF worker[w].linked THEN {"fetch"} ELSE {}) :
          GoTo(w, next)
    /\ UNCHANGED <<event, incident, comment, charged, task, runs, told, outlived>>

ChargeAgain(e) == FALSE
Reserved(e) == event[e].reserved

\* The thread's messages are read and sanitized, then reserve_followup_budget: an
\* event is charged once, whatever its attempts.  The budget is shared with the
\* intake, which may use it up at any time.
Reserve(w) ==
    LET e == worker[w].event IN
    /\ worker[w].stage = "fetch"
    /\ \/ Reserved(e) /\ GoTo(w, "run") /\ UNCHANGED <<event, charged>>
       \/ /\ ~Reserved(e)
          /\ event' = [event EXCEPT ![e].reserved = TRUE]
          /\ charged' = charged + 1
          /\ GoTo(w, "run")
       \/ ~Reserved(e) /\ GoTo(w, "fixed") /\ UNCHANGED <<event, charged>>
    /\ UNCHANGED <<incident, comment, task, runs, told, outlived>>

\* The model is called.
Run(w) ==
    /\ worker[w].stage = "run"
    /\ runs' = [runs EXCEPT ![worker[w].event] = @ + 1]
    /\ GoTo(w, "running")
    /\ UNCHANGED <<event, incident, comment, charged, task, told, outlived>>

\* SecretScanError, of the thread, the tools' scope or the answer.
Unsafe(w) ==
    /\ worker[w].stage \in {"fetch", "run", "running"}
    /\ worker' = [worker EXCEPT ![w] = [At(w, "fixed") EXCEPT !.unsafe = TRUE]]
    /\ UNCHANGED <<event, incident, comment, charged, task, runs, told, outlived>>

\* Any other exception: Slack, the model, its timeout, the database.  One raised
\* while a SecretScanError is handled leaves the request instead.
Errs(w) ==
    /\ worker[w].stage \in {"claimed", "fetch", "run", "running", "complete", "undelivered"}
    /\ ~worker[w].unsafe
    /\ GoTo(w, "errored")
    /\ UNCHANGED <<event, incident, comment, charged, task, runs, told, outlived>>

\* Completing and releasing require a row in processing; no token says whose.
AnyRow(e) == event[e].status \in {"processing", "pending", "failed"}
InProcess(e) == event[e].status = "processing"

CompletedRow(e) == [event[e] EXCEPT !.status = "completed", !.lease = "none"]

\* The model has answered.  save_followup_comment_and_complete: the comment for the
\* Issue and the end of the event commit together, or the comment is rolled back.
\* A commit whose answer is lost looks like a failure (503).
Save(w) ==
    LET e == worker[w].event IN
    /\ worker[w].stage = "running"
    /\ \/ /\ InProcess(e)
          /\ event' = [event EXCEPT ![e] = CompletedRow(e)]
          /\ comment' = comment \cup {e}
          /\ GoTo(w, "reply") \/ Ends(w)
          /\ UNCHANGED task
       \/ ~InProcess(e) /\ Ends(w) /\ Answered200(e) /\ UNCHANGED <<event, comment>>
    /\ UNCHANGED <<incident, charged, runs, told, outlived>>

\* The answer in the thread, after the durable record; failing is accepted.
Reply(w) ==
    LET e == worker[w].event IN
    /\ worker[w].stage = "reply"
    /\ told' = [told EXCEPT ![e] = @ + 1] \/ UNCHANGED told
    /\ Ends(w)
    /\ Answered200(e)
    /\ UNCHANGED <<event, incident, comment, charged, runs, outlived>>

\* _finish_fixed: the fixed reply, then the completion.
PostFixed(w) ==
    /\ worker[w].stage = "fixed"
    /\ GoTo(w, "complete") \/ GoTo(w, "undelivered")
    /\ UNCHANGED <<event, incident, comment, charged, task, runs, told, outlived>>

\* complete_slack_event, whose result nobody reads.
Complete(w) ==
    LET e == worker[w].event IN
    /\ worker[w].stage = "complete"
    /\ event' = IF InProcess(e) THEN [event EXCEPT ![e] = CompletedRow(e)] ELSE event
    /\ Ends(w)
    /\ Answered200(e)
    /\ UNCHANGED <<incident, comment, charged, runs, told, outlived>>

ReleasedRow(e) ==
    IF ~AttemptsLeft(e) THEN FailedRow(e)
    ELSE [event[e] EXCEPT !.status = "pending", !.lease = "none"]

\* release_slack_event.  A third failure is told in the thread, unless it was a
\* fixed reply that could not be posted; every other outcome answers 503.
Release(w) ==
    LET e == worker[w].event IN
    /\ worker[w].stage \in {"errored", "undelivered"}
    /\ event' = IF InProcess(e) THEN [event EXCEPT ![e] = ReleasedRow(e)] ELSE event
    /\ IF /\ worker[w].stage = "errored" /\ InProcess(e)
          /\ ~AttemptsLeft(e)
       THEN GoTo(w, "notice") /\ UNCHANGED task
       ELSE Ends(w) /\ Answered503(e)
    /\ UNCHANGED <<incident, comment, charged, runs, told, outlived>>

\* _post_failure_notice, best effort.
Notice(w) ==
    LET e == worker[w].event IN
    /\ worker[w].stage = "notice"
    /\ told' = [told EXCEPT ![e] = @ + 1] \/ UNCHANGED told
    /\ Ends(w)
    /\ Answered200(e)
    /\ UNCHANGED <<event, incident, comment, charged, runs, outlived>>

\* The request dies, is cut by its timeout, or ends with an exception nobody
\* catches (500); saving fails (503): the lease stays as it is.
Drop(w) ==
    /\ worker[w].stage # "idle"
    /\ Ends(w)
    /\ UNCHANGED <<event, incident, comment, charged, task, runs, told, outlived>>

-----------------------------------------------------------------------------
(* Time.                                                                   *)

Held(e) == \E w \in Workers : Holds(w) /\ worker[w].event = e

\* A lease of 600 s starts with the claim and a request is given 600 s, so that no
\* lease runs out on a request, unless the instance works on after the timeout.
LeaseExpires(e) ==
    /\ LeaseLive(e)
    /\ event' = [event EXCEPT ![e].lease = "expired"]
    /\ outlived' = (outlived \/ Held(e))
    /\ UNCHANGED <<incident, comment, charged, task, worker, runs, told>>

\* delete_expired_slack_events: seven days later, when Slack and Cloud Tasks have
\* long stopped delivering the event.
Purge(e) ==
    /\ event[e].status \in {"completed", "failed"}
    /\ ~Served(e)
    /\ event' = [event EXCEPT ![e].status = "deleted"]
    /\ UNCHANGED <<incident, comment, charged, task, worker, runs, told, outlived>>

-----------------------------------------------------------------------------
EventStep(e) == \/ Receive(e) \/ LeaseExpires(e) \/ Purge(e)
                \/ \E w \in Workers : Lookup(w, e)

ClaimStep(w) == Claim(w) \/ Exhaust(w) \/ AlreadySettled(w) \/ TurnedAway(w) \/ Drop(w)

HolderStep(w) == \/ Decide(w) \/ Reserve(w) \/ Run(w)
                 \/ Unsafe(w) \/ Errs(w) \/ Save(w) \/ Reply(w) \/ PostFixed(w)
                 \/ Complete(w) \/ Release(w) \/ Notice(w)

Next == \/ \E i \in Incidents : IncidentMoves(i)
        \/ \E e \in Events : EventStep(e)
        \/ \E w \in Workers : ClaimStep(w) \/ HolderStep(w)

Spec == Init /\ [][Next]_vars

-----------------------------------------------------------------------------
(* Properties.                                                             *)

\* Every variable keeps its type; in particular the attempts stay within the CHECK
\* of the attempt_count column.
TypeOK ==
    /\ event \in [Events -> EventRecords]
    /\ incident \in [Incidents -> {"unknown", "open", "linked", "closed"}]
    /\ comment \subseteq Events
    /\ charged \in Nat
    /\ task \in [Events -> {"free", "queued", "answered"}]
    /\ worker \in [Workers -> WorkerRecords]
    /\ runs \in [Events -> Nat]
    /\ told \in [Events -> Nat]
    /\ outlived \in BOOLEAN

\* A mention is told one thing at most: its answer, which is on its way to the
\* Issue and paid for, or that it failed, and then no comment follows it.
OutcomeIsOne ==
    \A e \in Events :
        /\ told[e] <= 1
        /\ told[e] > 0 => Settled(e)
        /\ e \in comment => event[e].status \in {"completed", "deleted"} /\ runs[e] > 0
        /\ told[e] > 0 /\ event[e].status = "completed" => e \in comment

\* No attempt runs the model twice, no run is free, and no event is charged twice,
\* however often Slack and Cloud Tasks deliver it.
RunsAreCharged ==
    /\ \A e \in Events : runs[e] <= event[e].attempts /\ (runs[e] > 0 => event[e].reserved)
    /\ charged = Cardinality({e \in Events : event[e].reserved})

\* docs/incident-agent.md: one follow-up per incident at a time, as long as no request
\* outlives its lease.
OneFollowup ==
    ~outlived => \A v, w \in Workers :
        /\ Holds(v) /\ Holds(w)
        /\ \/ worker[v].incident # None /\ worker[v].incident = worker[w].incident
           \/ worker[v].event = worker[w].event
        => v = w

\* A mention whose task was answered for good is settled: no 200 drops one.  (Completing
\* asks for no token: after an overrun it answers 200 for an event released meanwhile.)
AnsweredIsSettled == ~outlived => \A e \in Events : task[e] = "answered" => Settled(e)
=============================================================================
