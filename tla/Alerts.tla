------------------------------- MODULE Alerts -------------------------------
(***************************************************************************)
(* Alert intake of services/incident-agent for one resource and one alert  *)
(* policy: Pub/Sub pushes (app/ingest.py), the noise control that folds an *)
(* alert into an open incident or opens one (app/noise.py), and the owner  *)
(* of an investigation (app/owner.py, agent/service.py).                   *)
(*                                                                         *)
(* Each database transaction is one step, except that an aggregation reads *)
(* the incident in one step and writes in the next: it holds the advisory  *)
(* lock of the resource and the row lock of the delivery, but the owner    *)
(* that saves its analysis takes neither.  Calls to the embedding model    *)
(* and to the agent lie between steps.  A request may end anywhere (Drop): *)
(* a crash, the deadline, or an answer other than 2xx that changes         *)
(* nothing.                                                                *)
(***************************************************************************)
EXTENDS Naturals, FiniteSets

CONSTANTS
    Messages,     \* Pub/Sub messages, one alert each
    Keys,         \* incident_key values of masked alerts
    Key,          \* [Messages -> Keys]
    Incidents,    \* incident rows that can be created (bound of the model)
    Requests,     \* push requests that can be in progress at once
    None,
    Threshold,    \* l3_storm_threshold
    MaxAttempts,  \* embedding attempts of a delivery, owner attempts of an incident
    MaxEmbedding, MaxInvestigation,  \* daily budgets (one day is modelled)
    Overrun       \* may a request outlive its lease (60 s against a 30 s API
                  \* timeout, 600 s against a 540 s deadline: FALSE as deployed)

ASSUME AlertsConstants ==
    /\ Key \in [Messages -> Keys]
    /\ None \notin Messages \cup Incidents \cup Keys
    /\ Messages \cap Incidents = {} /\ Keys \cap Messages = {}
    /\ "storm" \notin Keys \cup Messages
    /\ Threshold \in Nat
    /\ MaxAttempts \in Nat \ {0}
    /\ MaxEmbedding \in Nat /\ MaxInvestigation \in Nat
    /\ Overrun \in BOOLEAN

VARIABLES
    delivery,       \* ops.alert_deliveries
    incident,       \* ops.incidents, with what its outbox rows say
    embeddings,     \* ops.budget_usage.embedding_count
    investigations, \* ops.budget_usage.investigation_count
    request,        \* push requests in progress
    answered        \* messages answered 200: Pub/Sub need not push them again

vars == <<delivery, incident, embeddings, investigations, request, answered>>
budget == <<embeddings, investigations>>

\* A token is named after what minted it: the n-th embedding attempt of a
\* message or the n-th owner of an incident.
Tokens == {None} \cup ((Messages \cup Incidents) \X (0 .. MaxAttempts))

Leases == {"none", "live", "expired"}

DeliveryRecords ==
    [status : {"absent", "received", "embedding", "processing", "completed"},
     masked : BOOLEAN, incident : Incidents \cup {None}, owner : BOOLEAN,
     token : Tokens, lease : Leases, reserved : BOOLEAN,
     attempts : 0 .. MaxAttempts, embedded : BOOLEAN]

Statuses == {"absent", "investigating", "analyzed", "escalated", "merged", "resolved"}

IncidentRecords ==
    [status : Statuses, kind : {"normal", "storm"},
     key : Keys \cup Messages \cup {"storm", None}, mergedInto : Incidents \cup {None},
     token : Tokens, lease : Leases, attempts : 1 .. MaxAttempts, alerts : Nat,
     embedded : BOOLEAN, issue : {"none", "pending", "sent"},
     commented : SUBSET Messages, closing : BOOLEAN]

Stages == {"idle", "mask", "maskfail", "triage", "storm", "resume", "reserve",
           "embed", "calling", "post", "l4", "declare", "aggregate", "owner",
           "renew", "investigate"}

RequestRecords ==
    [stage : Stages, msg : Messages \cup {None}, hot : BOOLEAN,
     incident : Incidents \cup {None}, token : Tokens, itoken : Tokens,
     seen : Statuses, spent : BOOLEAN]

NoDelivery == [status |-> "absent", masked |-> FALSE, incident |-> None,
               owner |-> FALSE, token |-> None, lease |-> "none",
               reserved |-> FALSE, attempts |-> 0, embedded |-> FALSE]

NoIncident == [status |-> "absent", kind |-> "normal", key |-> None,
               mergedInto |-> None, token |-> None, lease |-> "none",
               attempts |-> 1, alerts |-> 0, embedded |-> FALSE,
               issue |-> "none", commented |-> {}, closing |-> FALSE]

Idle == [stage |-> "idle", msg |-> None, hot |-> FALSE, incident |-> None,
         token |-> None, itoken |-> None, seen |-> "absent", spent |-> FALSE]

Init == /\ delivery = [m \in Messages |-> NoDelivery]
        /\ incident = [i \in Incidents |-> NoIncident]
        /\ embeddings = 0
        /\ investigations = 0
        /\ request = [q \in Requests |-> Idle]
        /\ answered = {}

-----------------------------------------------------------------------------
(* What the queries of app/noise.py find.                                  *)

Open(i) == incident[i].status \in {"investigating", "analyzed", "escalated"}
OpenStorms == {i \in Incidents : Open(i) /\ incident[i].kind = "storm"}
OpenNormals == {i \in Incidents : Open(i) /\ incident[i].kind = "normal"}
SameKey(m) == {i \in Incidents : Open(i) /\ incident[i].key = Key[m]}
Similar == {i \in Incidents : Open(i) /\ incident[i].embedded}

\* Whether the count of recent deliveries exceeds the threshold: recent is a
\* matter of time, so at most what is recorded counts.
Surges == {FALSE} \cup
    {Cardinality({m \in Messages : delivery[m].status # "absent"}) > Threshold}

\* The unique indexes on open incidents: an INSERT that violates one rolls back.
Insertable(kind, key) ==
    IF kind = "storm" THEN OpenStorms = {}
                      ELSE \A i \in Incidents : Open(i) => incident[i].key # key

-----------------------------------------------------------------------------
(* Requests.                                                               *)

Active(q) == request[q].stage # "idle"
On(q) == request[q].msg
To(q, stage) == [request EXCEPT ![q].stage = stage]
Enter(q, m, stage) ==
    [request EXCEPT ![q] = [Idle EXCEPT !.stage = stage, !.msg = m,
                                        !.token = delivery[m].token,
                                        !.incident = delivery[m].incident]]

\* The advisory lock of the resource, and the row lock of one delivery.
ScopeFree == \A q \in Requests : request[q].stage # "aggregate"
RowFree(m) == \A q \in Requests : request[q].stage = "aggregate" => On(q) # m

\* The answer 200.
Done(q) == /\ request' = [request EXCEPT ![q] = Idle]
           /\ answered' = answered \cup {On(q)}

Drop(q) == /\ Active(q)
           /\ request' = [request EXCEPT ![q] = Idle]
           /\ UNCHANGED <<delivery, incident, budget, answered>>

Received(m) == [NoDelivery EXCEPT !.status = "received", !.token = <<m, 0>>,
                                  !.lease = "live"]

\* The first push records the message, before masking.
Checkpoint(q, m) ==
    /\ ~Active(q)
    /\ delivery[m].status = "absent"
    /\ delivery' = [delivery EXCEPT ![m] = Received(m)]
    /\ request' = [request EXCEPT ![q] = [Idle EXCEPT !.stage = "mask", !.msg = m,
                                                      !.token = <<m, 0>>]]
    /\ UNCHANGED <<incident, budget, answered>>

\* Where a further push of m goes; nowhere (503) while a lease is live.
Route(m) ==
    CASE delivery[m].status = "embedding" -> "resume"
      [] delivery[m].status = "processing" -> "owner"
      [] ~delivery[m].masked -> "maskfail"
      [] OTHER -> "triage"

Redeliver(q, m) ==
    /\ ~Active(q)
    /\ delivery[m].status \in {"received", "embedding", "processing"}
    /\ delivery[m].lease # "live"
    /\ request' = Enter(q, m, Route(m))
    /\ UNCHANGED <<delivery, incident, budget, answered>>

\* A push of a completed delivery is answered 200 at once.
Acknowledge(m) ==
    /\ delivery[m].status = "completed"
    /\ answered' = answered \cup {m}
    /\ UNCHANGED <<delivery, incident, budget, request>>

\* So is a request that finds its delivery completed when it locks the row.
Completed(q) ==
    /\ request[q].stage \in {"mask", "maskfail", "triage", "storm", "resume",
                             "reserve", "post", "l4", "declare"}
    /\ delivery[On(q)].status = "completed"
    /\ Done(q)
    /\ UNCHANGED <<delivery, incident, budget>>

-----------------------------------------------------------------------------
(* Rows written by more than one path.                                     *)

\* One message more on incident i; the delivery is completed.
Attached(m, i) == [delivery[m] EXCEPT !.status = "completed", !.incident = i,
                                      !.owner = FALSE, !.token = None,
                                      !.lease = "none"]

Owned(m, i, n) == [delivery[m] EXCEPT !.status = "processing", !.incident = i,
                                      !.owner = TRUE, !.token = <<i, n>>,
                                      !.lease = "live"]

NewIncident(i, kind, key, status, embedded) ==
    [NoIncident EXCEPT !.status = status, !.kind = kind, !.key = key,
                       !.token = <<i, 1>>, !.alerts = 1, !.embedded = embedded,
                       !.lease = IF status = "investigating" THEN "live" ELSE "expired",
                       !.issue = IF status = "escalated" THEN "pending" ELSE "none"]

\* merge_normals_into_storm: every open normal incident of table f.
MergeInto(f, s) ==
    [i \in Incidents |->
        IF f[i].kind = "normal" /\ f[i].status \in {"investigating", "analyzed", "escalated"}
        THEN [f[i] EXCEPT !.status = "merged", !.mergedInto = s,
                          !.token = <<s, 1>>, !.lease = "expired"]
        ELSE f[i]]

\* ... and the deliveries that own them.
NotRelieved(d, s) == d
Relieved(d, s) ==
    [m \in Messages |->
        IF d[m].status = "processing" /\ d[m].owner /\ d[m].incident \in OpenNormals
        THEN [d[m] EXCEPT !.status = "completed", !.owner = FALSE,
                          !.token = <<s, 1>>, !.lease = "none"]
        ELSE d[m]]

\* create_storm_merge_outboxes: comment and close for each merged Issue.
CloseMerged(f, s) ==
    [i \in Incidents |->
        IF f[i].mergedInto = s /\ f[i].issue = "sent"
        THEN [f[i] EXCEPT !.closing = TRUE] ELSE f[i]]

\* _escalate_in_transaction: an escalated incident with its outbox rows.
Escalate(q, kind, key, embedded) ==
    \E i \in Incidents :
        LET m == On(q)
            opened == [incident EXCEPT ![i] =
                          NewIncident(i, kind, key, "escalated", embedded)]
            attached == [delivery EXCEPT ![m] = Attached(m, i)]
        IN /\ incident[i].status = "absent"
           /\ Insertable(kind, key)
           /\ incident' = IF kind = "storm" THEN CloseMerged(MergeInto(opened, i), i)
                                            ELSE opened
           /\ delivery' = IF kind = "storm" THEN Relieved(attached, i) ELSE attached
           /\ Done(q)

EscalateAs(q, embedded) ==
    IF request[q].hot THEN Escalate(q, "storm", "storm", embedded)
                      ELSE Escalate(q, "normal", Key[On(q)], embedded)

\* Reading, under the locks, the incident that takes the message.
Choose(q, i) ==
    /\ request' = [request EXCEPT ![q].stage = "aggregate", ![q].incident = i,
                                  ![q].seen = incident[i].status]
    /\ UNCHANGED <<delivery, incident, budget, answered>>

CommentsOn(status) == status \in {"analyzed", "escalated"}

\* The row of an incident that takes message m, by the status that was read.
CountedOrCommented(row, m, seen) ==
    IF CommentsOn(seen) THEN [row EXCEPT !.commented = @ \cup {m}]
                        ELSE [row EXCEPT !.alerts = @ + 1]
Joined(row, m, seen) ==
    [row EXCEPT !.alerts = @ + 1,
                !.commented = IF CommentsOn(seen) THEN @ \cup {m} ELSE @]

\* aggregate_to_incident.
Aggregate(q) ==
    LET m == On(q)
        i == request[q].incident
    IN /\ request[q].stage = "aggregate"
       /\ incident' = [incident EXCEPT ![i] = Joined(@, m, request[q].seen)]
       /\ delivery' = [delivery EXCEPT ![m] = Attached(m, i)]
       /\ Done(q)
       /\ UNCHANGED budget

-----------------------------------------------------------------------------
(* Masking.                                                                *)

Mask(q) ==
    LET m == On(q) IN
    /\ request[q].stage = "mask"
    /\ RowFree(m)
    /\ delivery[m].status = "received" /\ ~delivery[m].masked
    /\ delivery[m].token = request[q].token
    /\ delivery' = [delivery EXCEPT ![m].masked = TRUE, ![m].lease = "none"]
    /\ request' = To(q, "triage")
    /\ UNCHANGED <<incident, budget, answered>>

MaskingError(q) ==
    /\ request[q].stage = "mask"
    /\ request' = To(q, "maskfail")
    /\ UNCHANGED <<delivery, incident, budget, answered>>

\* The alert is reported under a key of its own, without its text.
MaskingFailureEscalation(q) ==
    /\ request[q].stage = "maskfail"
    /\ delivery[On(q)].status # "completed"
    /\ ~delivery[On(q)].masked
    /\ Escalate(q, "normal", On(q), FALSE)
    /\ UNCHANGED budget

-----------------------------------------------------------------------------
(* Noise control.                                                          *)

Claimable(q) == ScopeFree /\ delivery[On(q)].status = "received"

\* An open storm takes every alert; a surge goes to the storm branch; then
\* the same key, then a recent normal incident; otherwise `next`.
Sift(q, next) ==
    /\ Claimable(q)
    /\ IF OpenStorms # {}
       THEN \E s \in OpenStorms : Choose(q, s)
       ELSE \/ /\ TRUE \in Surges
               /\ request' = To(q, "storm")
               /\ UNCHANGED <<delivery, incident, budget, answered>>
            \/ IF SameKey(On(q)) # {}
               THEN \E i \in SameKey(On(q)) : Choose(q, i)
               ELSE \/ \E i \in OpenNormals : Choose(q, i)
                    \/ /\ request' = To(q, next)
                       /\ UNCHANGED <<delivery, incident, budget, answered>>

RunAfterMasking(q) == request[q].stage = "triage" /\ Sift(q, "reserve")

PostEmbedding(q) == request[q].stage = "post" /\ Sift(q, "l4")

\* The storm branch looks for its own key, which changes every five minutes:
\* it may miss a storm that is open under an older key.
StormBranch(q) ==
    /\ request[q].stage = "storm"
    /\ Claimable(q)
    /\ \/ \E s \in OpenStorms : Choose(q, s)
       \/ /\ request' = [request EXCEPT ![q].stage = "reserve", ![q].hot = TRUE]
          /\ UNCHANGED <<delivery, incident, budget, answered>>

\* The redelivery of an embedding whose lease ran out.
ResumeEmbedding(q) ==
    /\ request[q].stage = "resume"
    /\ ScopeFree
    /\ delivery[On(q)].status = "embedding"
    /\ IF OpenStorms # {}
       THEN \E s \in OpenStorms : Choose(q, s)
       ELSE \E hot \in Surges :
              /\ request' = [request EXCEPT ![q].stage = "reserve", ![q].hot = hot]
              /\ UNCHANGED <<delivery, incident, budget, answered>>

AfterEmbedding(q) == IF request[q].hot THEN "declare" ELSE "post"

ChargedUnmarked(d) == d
Charged(d) == [d EXCEPT !.reserved = TRUE]

\* _ensure_embedding, first transaction.  Only the storm branch holds the
\* lock of the resource here.
ReserveEmbedding(q) ==
    LET m == On(q) IN
    /\ request[q].stage = "reserve"
    /\ RowFree(m) /\ (request[q].hot => ScopeFree)
    /\ delivery[m].status \in {"received", "embedding"}
    /\ \/ /\ delivery[m].embedded
          /\ request' = To(q, AfterEmbedding(q))
          /\ UNCHANGED <<delivery, incident, budget, answered>>
       \/ /\ ~delivery[m].embedded /\ request[q].hot
          /\ \E s \in OpenStorms : Choose(q, s)
       \/ /\ ~delivery[m].embedded /\ delivery[m].reserved
          /\ request' = To(q, "embed")
          /\ UNCHANGED <<delivery, incident, budget, answered>>
       \/ /\ ~delivery[m].embedded /\ ~delivery[m].reserved
          /\ embeddings < MaxEmbedding
          /\ embeddings' = embeddings + 1
          /\ delivery' = [delivery EXCEPT ![m] = Charged(@)]
          /\ request' = To(q, "embed")
          /\ UNCHANGED <<incident, investigations, answered>>
       \/ /\ ~delivery[m].embedded /\ ~delivery[m].reserved
          /\ embeddings >= MaxEmbedding
          /\ EscalateAs(q, FALSE)
          /\ UNCHANGED budget

EmbeddableOnceMore(d) ==
    /\ d.status \in {"received", "embedding"} /\ ~d.embedded
    /\ d.attempts <= MaxAttempts /\ d.lease # "live"
Embeddable(d) ==
    /\ d.status \in {"received", "embedding"} /\ ~d.embedded
    /\ d.attempts < MaxAttempts /\ d.lease # "live"

\* The compare-and-set before the API call.
ClaimEmbedding(q) ==
    LET m == On(q)
        d == delivery[m] IN
    /\ request[q].stage = "embed"
    /\ RowFree(m)
    /\ IF Embeddable(d)
       THEN /\ delivery' = [delivery EXCEPT ![m] = [d EXCEPT
                   !.status = "embedding", !.attempts = @ + 1,
                   !.token = <<m, d.attempts + 1>>, !.lease = "live"]]
            /\ request' = [request EXCEPT ![q].stage = "calling",
                                          ![q].token = <<m, d.attempts + 1>>]
       ELSE /\ d.embedded
            /\ request' = To(q, AfterEmbedding(q))
            /\ UNCHANGED delivery
    /\ UNCHANGED <<incident, budget, answered>>

SaveEmbedding(q) ==
    LET m == On(q) IN
    /\ request[q].stage = "calling"
    /\ RowFree(m)
    /\ delivery[m].status = "embedding" /\ delivery[m].token = request[q].token
    /\ delivery' = [delivery EXCEPT ![m].embedded = TRUE, ![m].status = "received",
                                    ![m].lease = "none"]
    /\ request' = To(q, AfterEmbedding(q))
    /\ UNCHANGED <<incident, budget, answered>>

\* The API call raised: neither branch looks at the delivery's status or token.
\* Before the last attempt the answer is 500 (Drop).
EmbeddingFailed(q) ==
    LET m == On(q) IN
    /\ request[q].stage = "calling"
    /\ RowFree(m) /\ (request[q].hot => ScopeFree)
    /\ \/ request[q].hot /\ \E s \in OpenStorms : Choose(q, s)
       \/ /\ delivery[m].attempts >= MaxAttempts
          /\ EscalateAs(q, FALSE)
          /\ UNCHANGED budget

-----------------------------------------------------------------------------
(* Opening an investigation.                                               *)

Investigating(q, i) ==
    [request EXCEPT ![q].stage = "investigate", ![q].incident = i,
                    ![q].token = <<i, 1>>, ![q].itoken = <<i, 1>>]

\* L4 and, when nothing is similar, a new incident owned by this delivery.
\* The lock was released since PostEmbedding looked for a storm.
SimilarOrNew(q) ==
    LET m == On(q) IN
    /\ request[q].stage = "l4"
    /\ Claimable(q)
    /\ \/ \E i \in Similar : Choose(q, i)
       \/ /\ investigations < MaxInvestigation
          /\ Insertable("normal", Key[m])
          /\ \E i \in Incidents :
              /\ incident[i].status = "absent"
              /\ incident' = [incident EXCEPT ![i] =
                     NewIncident(i, "normal", Key[m], "investigating", TRUE)]
              /\ delivery' = [delivery EXCEPT ![m] = Owned(m, i, 1)]
              /\ request' = Investigating(q, i)
          /\ investigations' = investigations + 1
          /\ UNCHANGED <<embeddings, answered>>
       \/ /\ investigations >= MaxInvestigation
          /\ Escalate(q, "normal", Key[m], TRUE)
          /\ UNCHANGED budget

\* The second transaction of the storm branch.
DeclareStorm(q) ==
    LET m == On(q) IN
    /\ request[q].stage = "declare"
    /\ Claimable(q)
    /\ \/ \E s \in OpenStorms : Choose(q, s)
       \/ /\ investigations < MaxInvestigation
          /\ Insertable("storm", "storm")
          /\ \E s \in Incidents :
              LET opened == [incident EXCEPT ![s] =
                                NewIncident(s, "storm", "storm", "investigating", TRUE)]
              IN /\ incident[s].status = "absent"
                 /\ incident' = MergeInto(opened, s)
                 /\ delivery' = [Relieved(delivery, s) EXCEPT ![m] = Owned(m, s, 1)]
                 /\ request' = Investigating(q, s)
          /\ investigations' = investigations + 1
          /\ UNCHANGED <<embeddings, answered>>
       \/ /\ investigations >= MaxInvestigation
          /\ Escalate(q, "storm", "storm", TRUE)
          /\ UNCHANGED budget

-----------------------------------------------------------------------------
(* The owner of an investigation.                                          *)

\* The pair of compare-and-sets over incident and delivery.
HoldsIncident(q) ==
    LET i == request[q].incident IN
    incident[i].status = "investigating" /\ incident[i].token = request[q].itoken
HoldsDeliveryRow(q) ==
    LET d == delivery[On(q)] IN
    /\ d.status = "processing" /\ d.owner
    /\ d.incident = request[q].incident
HoldsDelivery(q) ==
    LET d == delivery[On(q)] IN
    /\ d.status = "processing" /\ d.owner
    /\ d.incident = request[q].incident /\ d.token = request[q].token
Holds(q) == HoldsIncident(q) /\ HoldsDelivery(q)

\* save_owner_analysis: outcome, outbox rows and delivery in one transaction.
SaveAs(q, outcome) ==
    LET i == request[q].incident
        saved == [incident EXCEPT ![i].status = outcome, ![i].lease = "expired",
                                  ![i].issue = "pending"]
    IN /\ Holds(q)
       /\ incident' = IF incident[i].kind = "storm" THEN CloseMerged(saved, i) ELSE saved
       /\ delivery' = [delivery EXCEPT ![On(q)].status = "completed",
                                       ![On(q)].owner = FALSE, ![On(q)].lease = "none"]
       /\ Done(q)
       /\ UNCHANGED budget

SaveOwnerAnalysis(q) ==
    /\ request[q].stage = "investigate"
    /\ \E outcome \in {"analyzed", "escalated"} : SaveAs(q, outcome)

\* The incident was merged into a storm meanwhile: nothing is left to do.
MergedMeanwhile(q) ==
    /\ \/ request[q].stage = "investigate"
       \/ request[q].stage = "renew" /\ request[q].spent
    /\ incident[request[q].incident].status = "merged"
    /\ delivery[On(q)].status = "completed"
    /\ delivery[On(q)].incident = request[q].incident
    /\ Done(q)
    /\ UNCHANGED <<delivery, incident, budget>>

ExpireAndAnswer(q) ==
    /\ request[q].stage = "investigate"
    /\ Holds(q)
    /\ incident' = [incident EXCEPT ![request[q].incident].lease = "expired"]
    /\ delivery' = [delivery EXCEPT ![On(q)].lease = "expired"]
    /\ Done(q)
    /\ UNCHANGED budget
\* The investigation failed: give both leases up at once, so that a
\* redelivery may start over.
ExpireOwnerLease(q) ==
    /\ request[q].stage = "investigate"
    /\ Holds(q)
    /\ incident' = [incident EXCEPT ![request[q].incident].lease = "expired"]
    /\ delivery' = [delivery EXCEPT ![On(q)].lease = "expired"]
    /\ request' = [request EXCEPT ![q] = Idle]
    /\ UNCHANGED <<budget, answered>>

NeverSpent(i) == FALSE
Spent(i) == incident[i].attempts >= MaxAttempts

\* A redelivery to the owner, after its own snapshot of the delivery, reads
\* the incident.
ResumeOwner(q) ==
    LET i == request[q].incident IN
    /\ request[q].stage = "owner"
    /\ IF incident[i].status # "investigating"
       THEN Done(q)
       ELSE /\ request' = [request EXCEPT ![q].stage = "renew",
                                          ![q].itoken = incident[i].token,
                                          ![q].spent = Spent(i)]
            /\ UNCHANGED answered
    /\ UNCHANGED <<delivery, incident, budget>>

Renewable(q) ==
    LET i == incident[request[q].incident] IN
    i.lease = "expired" /\ i.attempts < MaxAttempts

RenewOwnerLease(q) ==
    LET i == request[q].incident
        n == incident[i].attempts + 1
    IN /\ request[q].stage = "renew"
       /\ Holds(q) /\ Renewable(q)
       /\ incident' = [incident EXCEPT ![i].token = <<i, n>>, ![i].lease = "live",
                                       ![i].attempts = n]
       /\ delivery' = [delivery EXCEPT ![On(q)].token = <<i, n>>, ![On(q)].lease = "live"]
       /\ request' = [request EXCEPT ![q].stage = "investigate",
                                     ![q].token = <<i, n>>, ![q].itoken = <<i, n>>]
       /\ UNCHANGED <<budget, answered>>

\* The renewal failed and the snapshot says that the attempts are used up.
SaveFinalEscalation(q) ==
    /\ request[q].stage = "renew"
    /\ request[q].spent
    /\ ~(HoldsIncident(q) /\ Renewable(q))
    /\ SaveAs(q, "escalated")

-----------------------------------------------------------------------------
(* Around the requests.                                                    *)

\* A delivery's lease, while it masks or embeds.
WorkLeaseExpires(m) ==
    /\ delivery[m].lease = "live" /\ delivery[m].status # "processing"
    /\ Overrun \/ \A q \in Requests :
           Active(q) /\ On(q) = m => request[q].token # delivery[m].token
    /\ delivery' = [delivery EXCEPT ![m].lease = "expired"]
    /\ UNCHANGED <<incident, budget, request, answered>>

\* The owner's lease: the same instant on both rows.
OwnerLeaseExpires(i) ==
    /\ incident[i].lease = "live"
    /\ Overrun \/ \A q \in Requests :
           request[q].stage = "investigate" => request[q].itoken # incident[i].token
    /\ incident' = [incident EXCEPT ![i].lease = "expired"]
    /\ delivery' = [m \in Messages |->
           IF delivery[m].token = incident[i].token /\ delivery[m].lease = "live"
           THEN [delivery[m] EXCEPT !.lease = "expired"] ELSE delivery[m]]
    /\ UNCHANGED <<budget, request, answered>>

\* The outbox worker commits the Issue's reference (mark_outbox_sent).
IssueSent(i) ==
    /\ incident[i].issue = "pending"
    /\ incident' = [incident EXCEPT ![i].issue = "sent"]
    /\ UNCHANGED <<delivery, budget, request, answered>>

\* review_incident.
ReviewIncident(i) ==
    /\ incident[i].status \in {"analyzed", "escalated"}
    /\ incident' = [incident EXCEPT ![i].status = "resolved", ![i].token = None,
                                    ![i].lease = "expired"]
    /\ UNCHANGED <<delivery, budget, request, answered>>

-----------------------------------------------------------------------------

Progress(q) ==
    \/ Completed(q)
    \/ Mask(q) \/ MaskingError(q) \/ MaskingFailureEscalation(q)
    \/ RunAfterMasking(q) \/ StormBranch(q) \/ ResumeEmbedding(q)
    \/ ReserveEmbedding(q) \/ ClaimEmbedding(q) \/ SaveEmbedding(q) \/ EmbeddingFailed(q)
    \/ PostEmbedding(q) \/ SimilarOrNew(q) \/ DeclareStorm(q) \/ Aggregate(q)
    \/ SaveOwnerAnalysis(q) \/ MergedMeanwhile(q) \/ ExpireOwnerLease(q)
    \/ ResumeOwner(q) \/ RenewOwnerLease(q) \/ SaveFinalEscalation(q)

Next ==
    \/ \E q \in Requests : Progress(q) \/ Drop(q)
    \/ \E q \in Requests, m \in Messages : Checkpoint(q, m) \/ Redeliver(q, m)
    \/ \E m \in Messages : Acknowledge(m) \/ WorkLeaseExpires(m)
    \/ \E i \in Incidents : OwnerLeaseExpires(i) \/ IssueSent(i) \/ ReviewIncident(i)

Spec == Init /\ [][Next]_vars

(* Fairness.  Pub/Sub pushes a message until it is answered 200, leases    *)
(* run out by themselves, and a request takes its next step or ends.       *)
(* Nothing makes a call succeed, but from some time on a request ends      *)
(* without an answer only where the code gives it no step.                 *)
Fairness ==
    /\ \A m \in Messages :
        /\ SF_vars(\E q \in Requests : Redeliver(q, m))
        /\ WF_vars(Acknowledge(m))
        /\ WF_vars(WorkLeaseExpires(m))
    /\ \A i \in Incidents : WF_vars(OwnerLeaseExpires(i))
    /\ \A q \in Requests : WF_vars(Progress(q) \/ Drop(q))
    /\ <>[][\A q \in Requests : ENABLED Progress(q) => ~Drop(q)]_vars

FairSpec == Spec /\ Fairness

-----------------------------------------------------------------------------
(* Properties.                                                             *)

\* Every variable keeps its type; in particular both attempt counters stay
\* within the CHECKs of their columns and both budgets within their limits.
TypeOK ==
    /\ delivery \in [Messages -> DeliveryRecords]
    /\ incident \in [Incidents -> IncidentRecords]
    /\ embeddings \in 0 .. MaxEmbedding
    /\ investigations \in 0 .. MaxInvestigation
    /\ request \in [Requests -> RequestRecords]
    /\ answered \subseteq Messages

\* The owner's token and lease are mirrored: an investigating incident has one
\* owner delivery, with its token and its lease, and no delivery owns anything
\* else.
OwnerMirrored ==
    /\ \A i \in Incidents : incident[i].status = "investigating" =>
        \E m \in Messages : /\ delivery[m].owner /\ delivery[m].incident = i
                             /\ delivery[m].token = incident[i].token
                             /\ delivery[m].lease = incident[i].lease
    /\ \A m \in Messages : delivery[m].owner <=> delivery[m].status = "processing"
    /\ \A m \in Messages : delivery[m].owner =>
        incident[delivery[m].incident].status = "investigating"
    /\ \A m, n \in Messages : delivery[m].owner /\ delivery[n].owner /\ m # n
        => delivery[m].incident # delivery[n].incident

\* Where a message ended up.
Home(m) == LET i == delivery[m].incident IN
           IF incident[i].mergedInto = None THEN i ELSE incident[i].mergedInto

\* An alert that was answered 200, and will not be pushed again, is on an
\* incident, or on the storm that took it over, which either has its outbox
\* rows or is owned by a message that Pub/Sub still has to push.
NoAlertLost ==
    \A m \in answered :
        /\ delivery[m].status = "completed"
        /\ LET i == Home(m) IN
           \/ incident[i].issue # "none"
           \/ /\ incident[i].status = "investigating"
              /\ \E n \in Messages \ answered :
                    delivery[n].owner /\ delivery[n].incident = i

\* alert_count leaves no message out: at least the deliveries that name the
\* incident are counted.
CountIsComplete ==
    \A i \in Incidents : incident[i].alerts >=
        Cardinality({m \in Messages : delivery[m].incident = i})

\* A delivery is charged to the embedding budget once, however often its
\* embedding is tried again.
ChargedOnce ==
    /\ embeddings = Cardinality({m \in Messages : delivery[m].reserved})
    /\ \A m \in Messages : delivery[m].attempts > 0 => delivery[m].reserved

\* While the lease of a working owner is live, the incident changes
\* hands or state only by that owner's own save, or by a merge into a storm: a
\* redelivery with an older snapshot of the delivery takes nothing over.
OwnerIsRespected ==
    [][\A q \in Requests :
          LET i == request[q].incident IN
          /\ request[q].stage = "investigate"
          /\ incident[i].status = "investigating"
          /\ incident[i].token = request[q].itoken /\ incident[i].lease = "live"
          => \/ /\ incident'[i].status = "investigating"
                /\ incident'[i].token = incident[i].token
             \/ incident'[i].status = "merged"
             \/ request'[q] = Idle]_vars

\* The last embedding attempt of m ended without saving or failing.
LastAttemptDied(m) == /\ delivery[m].status = "embedding"
                      /\ delivery[m].attempts = MaxAttempts
                      /\ \A q \in Requests : On(q) = m => request[q].stage # "calling"

\* Every recorded alert is answered 200 in the end, whatever requests die on
\* the way, unless the request of its last embedding attempt does.
Converges ==
    \A m \in Messages : delivery[m].status # "absent" ~>
        m \in answered \/ LastAttemptDied(m)

\* docs/incident-agent.md, section 9 step 6: three failed attempts always lead
\* to an escalation.
AlwaysConverges ==
    \A m \in Messages : delivery[m].status # "absent" ~> m \in answered

\* Section 9 step 6 and section 10: once the storm is reported, the Issue of an
\* incident it merged is going to be closed, so that one Issue stays open.
MergedIssuesClose ==
    \A i \in Incidents :
        /\ incident[i].status = "merged" /\ incident[i].issue = "sent"
        /\ incident[incident[i].mergedInto].issue # "none"
        => incident[i].closing
=============================================================================
