--------------------------- MODULE BudgetNotifier ---------------------------
(***************************************************************************)
(* The Cloud Function that forwards budget alerts to Slack                 *)
(* (terraform/functions/budget-slack-notifier).  Cloud Billing publishes   *)
(* the state of a budget again and again; an object per budget and period  *)
(* holds the highest thresholds already posted.  The object is read,       *)
(* the post is made and the object is written in steps of their own, by    *)
(* instances that run side by side (budget_slack.tf allows three), may end *)
(* at any step, and are handed the same message again.                     *)
(*                                                                         *)
(* A period is a budget in one of its periods, the path of an object.  A   *)
(* threshold is a rank among those of the budget, and Null stands for one  *)
(* that a message lacks or that is no number.  Wording is left out.        *)
(***************************************************************************)
EXTENDS Naturals, Sequences

CONSTANTS
    Messages,     \* what Cloud Billing publishes
    Instances,    \* of the function, one request at a time each
    Periods,
    Thresholds,
    Said          \* the content of each message

Null == 0
Levels == Thresholds \cup {Null}

Contents == [period : Periods, actual : Levels, forecast : Levels, test : BOOLEAN]

BudgetConstants ==
    /\ Thresholds \subseteq Nat \ {Null}
    /\ Said \in [Messages -> Contents]

VARIABLES
    acked,       \* messages that were answered without an error
    object,      \* the highest thresholds recorded, per period
    request,     \* what each instance is at
    posts,       \* the messages posted to Slack, in their order
    irregular    \* periods in which requests overlapped, or a post was not recorded

vars == <<acked, object, request, posts, irregular>>

Marks == [actual : Levels, forecast : Levels]
NothingSent == [actual |-> Null, forecast |-> Null]

Idle == [at |-> "idle"]
At(i) == request[i].at
MessageOf(i) == Said[request[i].message]
PeriodOf(i) == MessageOf(i).period

\* A request that reads or writes the object of period p.
Works(i, p) == At(i) # "idle" /\ ~MessageOf(i).test /\ PeriodOf(i) = p

Init ==
    /\ acked = {} /\ posts = <<>> /\ irregular = {}
    /\ object = [p \in Periods |-> NothingSent]
    /\ request = [i \in Instances |-> Idle]

Ends(i) == request' = [request EXCEPT ![i] = Idle]
Acked(i) == acked' = acked \cup {request[i].message}

\* No data, no JSON, or no threshold exceeded.
Skipped(c) == ~c.test /\ c.actual = Null /\ c.forecast = Null

Overlaps(c) ==
    IF ~c.test /\ \E i \in Instances : Works(i, c.period) THEN {c.period} ELSE {}

\* Pub/Sub hands a message to an instance, at least once.
Deliver(i, m) ==
    LET c == Said[m] IN
    /\ At(i) = "idle"
    /\ IF Skipped(c)
       THEN acked' = acked \cup {m} /\ UNCHANGED <<request, irregular>>
       ELSE /\ request' = [request EXCEPT ![i] =
                 [at |-> IF c.test THEN "posting" ELSE "evaluating",
                  message |-> m, state |-> NothingSent]]
            /\ irregular' = irregular \cup Overlaps(c)
            /\ UNCHANGED acked
    /\ UNCHANGED <<object, posts>>

\* The state to be recorded: a threshold replaces a lower one.
Raised(state, c) ==
    [actual |-> IF c.actual > state.actual THEN c.actual ELSE state.actual,
     forecast |-> IF c.forecast > state.forecast THEN c.forecast ELSE state.forecast]

\* evaluateNotification: the object is read; nothing new ends the request.
EvaluateNotification(i) ==
    LET state == Raised(object[PeriodOf(i)], MessageOf(i)) IN
    /\ At(i) = "evaluating"
    /\ IF state = object[PeriodOf(i)]
       THEN Ends(i) /\ Acked(i)
       ELSE /\ request' = [request EXCEPT ![i].at = "posting", ![i].state = state]
            /\ UNCHANGED acked
    /\ UNCHANGED <<object, posts, irregular>>

PostToSlack(i) ==
    /\ At(i) = "posting"
    /\ posts' = Append(posts, request[i].message)
    /\ request' = [request EXCEPT ![i].at = "committing"]
    /\ UNCHANGED <<acked, object, irregular>>

\* What was posted by a request that ends now is not recorded.
Unrecorded(i) == IF MessageOf(i).test THEN {} ELSE {PeriodOf(i)}

\* Slack has the post, the function an error.
PostIsLost(i) ==
    /\ At(i) = "posting"
    /\ posts' = Append(posts, request[i].message)
    /\ Ends(i)
    /\ irregular' = irregular \cup Unrecorded(i)
    /\ UNCHANGED <<acked, object>>

\* saveState writes what evaluateNotification computed, whatever the object holds now.
Saved(i) ==
    IF MessageOf(i).test THEN object
    ELSE [object EXCEPT ![PeriodOf(i)] = request[i].state]

CommitDedupeState(i) ==
    /\ At(i) = "committing"
    /\ object' = Saved(i)
    /\ Ends(i) /\ Acked(i)
    /\ UNCHANGED <<posts, irregular>>

\* The object is written, but the function fails or its answer is lost.
CommitIsLost(i) ==
    /\ At(i) = "committing"
    /\ object' = Saved(i)
    /\ Ends(i)
    /\ UNCHANGED <<acked, posts, irregular>>

\* Mutated form of Failed: an error is answered like a success.
Swallowed(i) == Acked(i)

\* The message of a request that failed is not acknowledged.
Failed(i) == UNCHANGED acked

\* Cloud Storage or Slack refuses, or the instance ends.
Fails(i) ==
    /\ At(i) # "idle"
    /\ Ends(i) /\ Failed(i)
    /\ irregular' = irregular \cup (IF At(i) = "committing" THEN Unrecorded(i) ELSE {})
    /\ UNCHANGED <<object, posts>>

Next ==
    \E i \in Instances :
        \/ \E m \in Messages : Deliver(i, m)
        \/ EvaluateNotification(i)
        \/ PostToSlack(i) \/ PostIsLost(i)
        \/ CommitDedupeState(i) \/ CommitIsLost(i)
        \/ Fails(i)

Spec == Init /\ [][Next]_vars

-----------------------------------------------------------------------------
\* The values the variables take.
TypeOK ==
    /\ acked \subseteq Messages /\ irregular \subseteq Periods
    /\ object \in [Periods -> Marks]
    /\ posts \in Seq(Messages)
    /\ request \in [Instances ->
           {Idle} \cup [at : {"evaluating", "posting", "committing"},
                        message : Messages, state : Marks]]

Posted(p) == {k \in DOMAIN posts : Said[posts[k]].period = p /\ ~Said[posts[k]].test}

\* A threshold of either kind, or a higher one of its kind, was posted for period p.
ActualPosted(p, level) ==
    level # Null => \E k \in Posted(p) : Said[posts[k]].actual >= level
ForecastPosted(p, level) ==
    level # Null => \E k \in Posted(p) : Said[posts[k]].forecast >= level

\* No alert is lost (dedupe.js prefers a duplicate): a message that was answered without
\* an error was posted, or its thresholds were by messages of the same period, whatever
\* overlaps, ends early or overwrites a newer record.
AnsweredIsPosted ==
    \A m \in acked :
        LET c == Said[m] IN
        IF c.test THEN \E k \in DOMAIN posts : posts[k] = m
        ELSE ActualPosted(c.period, c.actual) /\ ForecastPosted(c.period, c.forecast)

\* "Stops duplicate Slack posts on periodic Pub/Sub": while no two requests of a period
\* overlapped and every post was recorded, each post of it has a threshold above all that
\* the posts before it had.
NothingTwice ==
    \A p \in Periods \ irregular : \A k \in Posted(p) :
        \/ \A j \in Posted(p) : j < k => Said[posts[j]].actual < Said[posts[k]].actual
        \/ \A j \in Posted(p) : j < k => Said[posts[j]].forecast < Said[posts[k]].forecast

BudgetIsTold == AnsweredIsPosted /\ NothingTwice
=============================================================================
