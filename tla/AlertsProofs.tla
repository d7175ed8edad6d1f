---------------------------- MODULE AlertsProofs ----------------------------
(***************************************************************************)
(* Theorems about Alerts for any number of messages, incidents, requests,  *)
(* attempts and any budgets: first types and the embedding budget, then    *)
(* who owns an investigation and that an answered alert is not lost, the   *)
(* latter for instances in which no request outlives its lease.            *)
(***************************************************************************)
EXTENDS Alerts, FiniteSetTheorems, TLAPS

-----------------------------------------------------------------------------
(* Types.  A delivery that is processed names its incident, and a request  *)
(* in progress names its message and, where it works on one, its incident. *)

Deliveries == {d \in DeliveryRecords : d.status = "processing" => d.incident \in Incidents}

OnIncident == {"owner", "renew", "investigate", "aggregate"}

Pushes == {r \in RequestRecords :
              /\ r.stage # "idle" => r.msg \in Messages
              /\ r.stage \in OnIncident => r.incident \in Incidents}

Typed ==
    /\ delivery \in [Messages -> Deliveries]
    /\ incident \in [Incidents -> IncidentRecords]
    /\ embeddings \in 0 .. MaxEmbedding
    /\ investigations \in 0 .. MaxInvestigation
    /\ request \in [Requests -> Pushes]
    /\ answered \subseteq Messages

LEMMA TokenValues ==
    /\ None \in Tokens
    /\ \A m \in Messages \cup Incidents, n \in 0 .. MaxAttempts : <<m, n>> \in Tokens
    /\ 0 \in 0 .. MaxAttempts /\ 1 \in 0 .. MaxAttempts /\ 1 \in 1 .. MaxAttempts
  BY AlertsConstants DEF Tokens

\* Every delivery a step writes.
LEMMA DeliveryValues ==
    ASSUME NEW m \in Messages, delivery \in [Messages -> Deliveries]
    PROVE  /\ NoDelivery \in Deliveries
           /\ Received(m) \in Deliveries
           /\ Charged(delivery[m]) \in Deliveries
           /\ \A i \in Incidents : Attached(m, i) \in Deliveries
           /\ \A i \in Incidents, n \in 0 .. MaxAttempts : Owned(m, i, n) \in Deliveries
  <1> USE DEF Deliveries, DeliveryRecords, Leases
  <1>1. NoDelivery \in Deliveries /\ Received(m) \in Deliveries
    BY TokenValues DEF NoDelivery, Received
  <1>2. Charged(delivery[m]) \in Deliveries
    BY ZenonT(60) DEF Charged
  <1>3. ASSUME NEW i \in Incidents PROVE Attached(m, i) \in Deliveries
    BY TokenValues, ZenonT(60) DEF Attached
  <1>4. ASSUME NEW i \in Incidents, NEW n \in 0 .. MaxAttempts
        PROVE  Owned(m, i, n) \in Deliveries
    BY TokenValues, ZenonT(60) DEF Owned
  <1> QED BY <1>1, <1>2, <1>3, <1>4

\* Every incident a step writes.
LEMMA IncidentValues ==
    ASSUME NEW i \in Incidents, incident \in [Incidents -> IncidentRecords]
    PROVE  /\ NoIncident \in IncidentRecords
           /\ \A kind \in {"normal", "storm"}, key \in Keys \cup Messages \cup {"storm"},
                 status \in {"investigating", "escalated"}, embedded \in BOOLEAN :
                 NewIncident(i, kind, key, status, embedded) \in IncidentRecords
           /\ \A m \in Messages, seen \in Statuses :
                 Joined(incident[i], m, seen) \in IncidentRecords
  <1> USE DEF IncidentRecords, Statuses, Leases
  <1>1. NoIncident \in IncidentRecords
    BY TokenValues DEF NoIncident
  <1>2. ASSUME NEW kind \in {"normal", "storm"}, NEW key \in Keys \cup Messages \cup {"storm"},
               NEW status \in {"investigating", "escalated"}, NEW embedded \in BOOLEAN
        PROVE  NewIncident(i, kind, key, status, embedded) \in IncidentRecords
    <2>1. <<i, 1>> \in Tokens
      BY TokenValues
    <2> QED BY <2>1, TokenValues DEF NewIncident, NoIncident
  <1>3. ASSUME NEW m \in Messages, NEW seen \in Statuses
        PROVE  Joined(incident[i], m, seen) \in IncidentRecords
    <2>1. incident[i] \in IncidentRecords
      OBVIOUS
    <2>2. [incident[i] EXCEPT !.alerts = @ + 1] \in IncidentRecords
      BY <2>1
    <2>3. [incident[i] EXCEPT !.alerts = @ + 1, !.commented = @ \cup {m}] \in IncidentRecords
      <3>1. ASSUME NEW row \in IncidentRecords, NEW comments \in SUBSET Messages
            PROVE  [row EXCEPT !.commented = comments] \in IncidentRecords
        OBVIOUS
      <3>2. incident[i].commented \cup {m} \in SUBSET Messages
        BY <2>1
      <3>3. [[incident[i] EXCEPT !.alerts = @ + 1] EXCEPT
                !.commented = incident[i].commented \cup {m}] \in IncidentRecords
        BY <2>2, <3>1, <3>2
      <3> QED BY <3>3, <2>1
    <2>4. CASE CommentsOn(seen)
      BY <2>3, <2>4 DEF Joined
    <2>5. CASE ~CommentsOn(seen)
      <3>1. Joined(incident[i], m, seen) = [incident[i] EXCEPT !.alerts = @ + 1]
        BY <2>1, <2>5 DEF Joined
      <3> QED BY <2>2, <3>1
    <2> QED BY <2>4, <2>5
  <1> QED BY <1>1, <1>2, <1>3

\* A merge keeps the tables' types.
LEMMA MergeTypes ==
    ASSUME NEW s \in Incidents
    PROVE  /\ \A f \in [Incidents -> IncidentRecords] :
                 /\ MergeInto(f, s) \in [Incidents -> IncidentRecords]
                 /\ CloseMerged(f, s) \in [Incidents -> IncidentRecords]
           /\ \A d \in [Messages -> Deliveries] : Relieved(d, s) \in [Messages -> Deliveries]
  <1>1. ASSUME NEW f \in [Incidents -> IncidentRecords], NEW i \in Incidents
        PROVE  MergeInto(f, s)[i] \in IncidentRecords /\ CloseMerged(f, s)[i] \in IncidentRecords
    <2>1. f[i] \in IncidentRecords /\ <<s, 1>> \in Tokens
      BY TokenValues
    <2>2. [f[i] EXCEPT !.status = "merged", !.mergedInto = s, !.token = <<s, 1>>,
                       !.lease = "expired"] \in IncidentRecords
      BY <2>1 DEF IncidentRecords, Statuses, Leases
    <2>3. [f[i] EXCEPT !.closing = TRUE] \in IncidentRecords
      BY <2>1 DEF IncidentRecords
    <2> QED BY <2>1, <2>2, <2>3 DEF MergeInto, CloseMerged
  <1>2. ASSUME NEW d \in [Messages -> Deliveries], NEW m \in Messages
        PROVE  Relieved(d, s)[m] \in Deliveries
    <2>1. d[m] \in Deliveries /\ <<s, 1>> \in Tokens
      BY TokenValues
    <2>2. [d[m] EXCEPT !.status = "completed", !.owner = FALSE, !.token = <<s, 1>>,
                       !.lease = "none"] \in Deliveries
      BY <2>1 DEF Deliveries, DeliveryRecords, Leases
    <2> QED BY <2>1, <2>2 DEF Relieved
  <1> QED BY <1>1, <1>2 DEF MergeInto, CloseMerged, Relieved

\* A request that starts, moves to another stage, or ends.
LEMMA RequestValues ==
    ASSUME Typed, NEW q \in Requests
    PROVE  /\ Idle \in Pushes
           /\ \A m \in Messages, s \in Stages :
                 (s \in OnIncident => delivery[m].incident \in Incidents)
                 => Enter(q, m, s) \in [Requests -> Pushes]
           /\ \A s \in Stages :
                 /\ s # "idle" => On(q) \in Messages
                 /\ s \in OnIncident => request[q].incident \in Incidents
                 => To(q, s) \in [Requests -> Pushes]
  <1> USE DEF Pushes, RequestRecords
  <1>1. Idle \in Pushes
    BY TokenValues DEF Idle, Stages, Statuses, OnIncident
  <1>2. ASSUME NEW m \in Messages, NEW s \in Stages,
               s \in OnIncident => delivery[m].incident \in Incidents
        PROVE  Enter(q, m, s) \in [Requests -> Pushes]
    <2>1. delivery[m].token \in Tokens /\ delivery[m].incident \in Incidents \cup {None}
      BY DEF Typed, Deliveries, DeliveryRecords
    <2> QED BY <1>1, <1>2, <2>1 DEF Enter, Idle, Typed, Statuses
  <1>3. ASSUME NEW s \in Stages, s # "idle" => On(q) \in Messages,
               s \in OnIncident => request[q].incident \in Incidents
        PROVE  To(q, s) \in [Requests -> Pushes]
    BY <1>3 DEF To, On, Typed
  <1> QED BY <1>1, <1>2, <1>3

-----------------------------------------------------------------------------
(* The parts that several actions share.                                   *)

LEMMA Finishes ==
    ASSUME Typed, NEW q \in Requests, On(q) \in Messages, Done(q)
    PROVE  request' \in [Requests -> Pushes] /\ answered' \subseteq Messages
  BY RequestValues DEF Done, Typed

LEMMA Chooses ==
    ASSUME Typed, NEW q \in Requests, NEW i \in Incidents, On(q) \in Messages, Choose(q, i)
    PROVE  Typed'
  <1>1. request[q] \in Pushes /\ incident[i].status \in Statuses
    BY DEF Typed, IncidentRecords
  <1>2. [request[q] EXCEPT !.stage = "aggregate", !.incident = i,
                           !.seen = incident[i].status] \in Pushes
    BY <1>1 DEF Pushes, RequestRecords, Stages, On
  <1>3. request' = [request EXCEPT ![q] =
           [request[q] EXCEPT !.stage = "aggregate", !.incident = i,
                              !.seen = incident[i].status]]
    BY DEF Choose, Typed
  <1> QED BY <1>2, <1>3 DEF Choose, Typed, budget

LEMMA Escalates ==
    ASSUME Typed, NEW q \in Requests, On(q) \in Messages,
           NEW kind \in {"normal", "storm"}, NEW key \in Keys \cup Messages \cup {"storm"},
           NEW embedded \in BOOLEAN,
           Escalate(q, kind, key, embedded), UNCHANGED budget
    PROVE  Typed'
  <1> DEFINE row(i) == NewIncident(i, kind, key, "escalated", embedded)
             opened(i) == [incident EXCEPT ![i] = row(i)]
             attached(i) == [delivery EXCEPT ![On(q)] = Attached(On(q), i)]
  <1>1. PICK i \in Incidents :
           /\ incident' = IF kind = "storm" THEN CloseMerged(MergeInto(opened(i), i), i)
                                            ELSE opened(i)
           /\ delivery' = IF kind = "storm" THEN Relieved(attached(i), i) ELSE attached(i)
           /\ Done(q)
    BY DEF Escalate
  <1>2. opened(i) \in [Incidents -> IncidentRecords]
    <2>1. row(i) \in IncidentRecords
      BY IncidentValues DEF Typed
    <2> HIDE DEF row
    <2> QED BY <2>1 DEF Typed
  <1>3. attached(i) \in [Messages -> Deliveries]
    BY DeliveryValues DEF Typed
  <1> HIDE DEF opened, attached
  <1>4. incident' \in [Incidents -> IncidentRecords] /\ delivery' \in [Messages -> Deliveries]
    BY <1>1, <1>2, <1>3, MergeTypes
  <1> QED BY <1>1, <1>4, Finishes DEF Typed, budget

LEMMA Moves ==
    ASSUME Typed, NEW q \in Requests, On(q) \in Messages, NEW s \in Stages \ OnIncident,
           request' = To(q, s), UNCHANGED <<delivery, incident, budget, answered>>
    PROVE  Typed'
  BY RequestValues DEF Typed, budget

\* Whoever is past its first step is on a message.
LEMMA OnMessage ==
    ASSUME Typed, NEW q \in Requests, request[q].stage # "idle"
    PROVE  On(q) \in Messages /\ Key[On(q)] \in Keys /\ delivery[On(q)] \in Deliveries
  BY AlertsConstants DEF Typed, Pushes, RequestRecords, On

LEMMA Sifts ==
    ASSUME Typed, NEW q \in Requests, On(q) \in Messages, NEW next \in Stages \ OnIncident,
           Sift(q, next)
    PROVE  Typed'
  <1>1. CASE \E i \in Incidents : Choose(q, i)
    BY <1>1, Chooses
  <1>2. CASE /\ \E s \in {"storm", next} : request' = To(q, s)
             /\ UNCHANGED <<delivery, incident, budget, answered>>
    BY <1>2, Moves DEF Stages, OnIncident
  <1> QED BY <1>1, <1>2 DEF Sift, OpenStorms, SameKey, OpenNormals

LEMMA Saves ==
    ASSUME Typed, NEW q \in Requests, On(q) \in Messages, request[q].incident \in Incidents,
           NEW outcome \in {"analyzed", "escalated"}, SaveAs(q, outcome)
    PROVE  Typed'
  <1> DEFINE i == request[q].incident
             saved == [incident EXCEPT ![i].status = outcome, ![i].lease = "expired",
                                       ![i].issue = "pending"]
  <1>1. saved \in [Incidents -> IncidentRecords]
    <2>1. incident \in [Incidents -> IncidentRecords]
      BY DEF Typed
    <2>2. [incident[i] EXCEPT !.status = outcome, !.lease = "expired", !.issue = "pending"]
             \in IncidentRecords
      <3>1. incident[i] \in IncidentRecords
        BY <2>1
      <3> QED BY <3>1 DEF IncidentRecords, Statuses, Leases
    <2>3. saved = [incident EXCEPT ![i] =
             [incident[i] EXCEPT !.status = outcome, !.lease = "expired", !.issue = "pending"]]
      BY <2>1
    <2> QED BY <2>1, <2>2, <2>3
  <1> HIDE DEF saved
  <1>2. incident' \in [Incidents -> IncidentRecords]
    <2>1. incident' = IF incident[i].kind = "storm" THEN CloseMerged(saved, i) ELSE saved
      BY DEF SaveAs, saved
    <2> QED BY <1>1, <2>1, MergeTypes
  <1>3. delivery' \in [Messages -> Deliveries]
    <2>1. [delivery[On(q)] EXCEPT !.status = "completed", !.owner = FALSE, !.lease = "none"]
             \in Deliveries
      <3>1. delivery[On(q)] \in Deliveries
        BY DEF Typed
      <3> QED BY <3>1 DEF Deliveries, DeliveryRecords, Leases
    <2>2. delivery' = [delivery EXCEPT ![On(q)] =
             [delivery[On(q)] EXCEPT !.status = "completed", !.owner = FALSE, !.lease = "none"]]
      BY DEF SaveAs, Typed
    <2> QED BY <2>1, <2>2 DEF Typed
  <1>4. Done(q) /\ UNCHANGED budget
    BY DEF SaveAs
  <1> QED BY <1>2, <1>3, <1>4, Finishes DEF Typed, budget

-----------------------------------------------------------------------------
(* One step per action.                                                    *)

LEMMA TypedInit == Init => Typed
  BY AlertsConstants, TokenValues
  DEF Init, Typed, NoDelivery, NoIncident, Idle, Deliveries, DeliveryRecords,
      IncidentRecords, Statuses, Leases, Pushes, RequestRecords, Stages, OnIncident

\* The steps of a request up to the choice of an incident.
LEMMA TypedIntake ==
    ASSUME Typed, NEW q \in Requests,
           \/ Completed(q) \/ Mask(q) \/ MaskingError(q) \/ MaskingFailureEscalation(q)
           \/ RunAfterMasking(q) \/ StormBranch(q) \/ ResumeEmbedding(q)
           \/ ReserveEmbedding(q) \/ ClaimEmbedding(q) \/ SaveEmbedding(q)
           \/ EmbeddingFailed(q) \/ PostEmbedding(q)
    PROVE  Typed'
  <1> DEFINE m == On(q)
  <1>0. /\ m \in Messages /\ Key[m] \in Keys /\ delivery[m] \in Deliveries
        /\ request[q] \in Pushes
    BY OnMessage DEF Completed, Mask, MaskingError, MaskingFailureEscalation, RunAfterMasking,
       StormBranch, ResumeEmbedding, ReserveEmbedding, ClaimEmbedding, SaveEmbedding,
       EmbeddingFailed, PostEmbedding, Typed
  <1> HIDE DEF m
  <1>a. {"maskfail", "storm", "reserve", "embed", "post", "l4", "declare", "triage"}
          \subseteq Stages \ OnIncident
    BY DEF Stages, OnIncident
  <1>b. AfterEmbedding(q) \in Stages \ OnIncident
    BY <1>a DEF AfterEmbedding
  <1>c. ASSUME NEW hot \in BOOLEAN,
               request' = [request EXCEPT ![q].stage = "reserve", ![q].hot = hot],
               UNCHANGED <<delivery, incident, budget, answered>>
        PROVE  Typed'
    <2>1. [request[q] EXCEPT !.stage = "reserve", !.hot = hot] \in Pushes
      BY <1>0 DEF m, On, Pushes, RequestRecords, Stages, OnIncident
    <2>2. request' = [request EXCEPT ![q] =
             [request[q] EXCEPT !.stage = "reserve", !.hot = hot]]
      BY <1>c DEF Typed
    <2> QED BY <1>c, <2>1, <2>2 DEF Typed, budget
  <1>d. ASSUME NEW embedded \in BOOLEAN, EscalateAs(q, embedded), UNCHANGED budget
        PROVE  Typed'
    BY <1>d, <1>0, Escalates DEF EscalateAs, m
  <1>1. CASE Completed(q)
    BY <1>1, <1>0, Finishes DEF Completed, Typed, budget, m
  <1>2. CASE Mask(q)
    <2>1. [delivery[m] EXCEPT !.masked = TRUE, !.lease = "none"] \in Deliveries
      BY <1>0 DEF Deliveries, DeliveryRecords, Leases
    <2>2. delivery' = [delivery EXCEPT ![m] =
             [delivery[m] EXCEPT !.masked = TRUE, !.lease = "none"]]
      BY <1>0, <1>2 DEF Mask, m, Typed
    <2>3. request' \in [Requests -> Pushes]
      BY <1>0, <1>2, <1>a, RequestValues DEF Mask, m
    <2> QED BY <1>2, <2>1, <2>2, <2>3 DEF Mask, Typed, budget
  <1>3. CASE MaskingError(q)
    BY <1>0, <1>3, <1>a, Moves DEF MaskingError, m
  <1>4. CASE MaskingFailureEscalation(q)
    BY <1>0, <1>4, Escalates DEF MaskingFailureEscalation, m
  <1>5. CASE RunAfterMasking(q)
    BY <1>0, <1>5, <1>a, Sifts DEF RunAfterMasking, m
  <1>6. CASE StormBranch(q)
    BY <1>0, <1>6, <1>c, Chooses DEF StormBranch, OpenStorms, m
  <1>7. CASE ResumeEmbedding(q)
    <2>1. Surges \subseteq BOOLEAN
      BY DEF Surges
    <2>2. CASE \E s \in Incidents : Choose(q, s)
      BY <1>0, <2>2, Chooses DEF m
    <2>3. CASE \E hot \in Surges :
                 /\ request' = [request EXCEPT ![q].stage = "reserve", ![q].hot = hot]
                 /\ UNCHANGED <<delivery, incident, budget, answered>>
      BY <2>1, <2>3, <1>c
    <2> QED BY <1>7, <2>2, <2>3 DEF ResumeEmbedding, OpenStorms
  <1>8. CASE ReserveEmbedding(q)
    <2>1. CASE \/ \E s \in Incidents : Choose(q, s)
               \/ /\ \E s \in {AfterEmbedding(q), "embed"} : request' = To(q, s)
                  /\ UNCHANGED <<delivery, incident, budget, answered>>
      BY <1>0, <2>1, <1>a, <1>b, Chooses, Moves DEF m
    <2>2. CASE /\ embeddings < MaxEmbedding
               /\ embeddings' = embeddings + 1
               /\ delivery' = [delivery EXCEPT ![m] = Charged(@)]
               /\ request' = To(q, "embed")
               /\ UNCHANGED <<incident, investigations, answered>>
      <3>1. embeddings' \in 0 .. MaxEmbedding
        BY <2>2, AlertsConstants DEF Typed
      <3>2. delivery' \in [Messages -> Deliveries]
        BY <1>0, <2>2, DeliveryValues DEF Typed
      <3>3. request' \in [Requests -> Pushes]
        BY <1>0, <2>2, <1>a, RequestValues DEF m
      <3> QED BY <2>2, <3>1, <3>2, <3>3 DEF Typed
    <2>3. CASE EscalateAs(q, FALSE) /\ UNCHANGED budget
      BY <2>3, <1>d
    <2> QED BY <1>8, <2>1, <2>2, <2>3 DEF ReserveEmbedding, OpenStorms, m
  <1>9. CASE ClaimEmbedding(q)
    <2> DEFINE d == delivery[m]
               t == <<m, d.attempts + 1>>
    <2>1. CASE Embeddable(d)
      <3>1. d.attempts + 1 \in 0 .. MaxAttempts /\ t \in Tokens
        <4>1. d.attempts \in 0 .. MaxAttempts /\ d.attempts < MaxAttempts
          BY <1>0, <2>1 DEF Embeddable, Deliveries, DeliveryRecords
        <4>2. d.attempts + 1 \in 0 .. MaxAttempts
          BY <4>1, AlertsConstants
        <4> QED BY <1>0, <4>2, TokenValues
      <3>2. [d EXCEPT !.status = "embedding", !.attempts = @ + 1, !.token = t,
                      !.lease = "live"] \in Deliveries
        BY <1>0, <3>1 DEF Deliveries, DeliveryRecords, Leases
      <3>3. [request[q] EXCEPT !.stage = "calling", !.token = t] \in Pushes
        BY <1>0, <3>1 DEF m, On, Pushes, RequestRecords, Stages, OnIncident
      <3>4. /\ delivery' = [delivery EXCEPT ![m] =
                  [d EXCEPT !.status = "embedding", !.attempts = @ + 1, !.token = t,
                            !.lease = "live"]]
            /\ request' = [request EXCEPT ![q] =
                  [request[q] EXCEPT !.stage = "calling", !.token = t]]
        BY <1>9, <2>1 DEF ClaimEmbedding, Typed, m
      <3> QED BY <1>9, <3>2, <3>3, <3>4 DEF ClaimEmbedding, Typed, budget
    <2>2. CASE ~Embeddable(d)
      BY <1>0, <1>9, <2>2, <1>b, Moves DEF ClaimEmbedding, m
    <2> QED BY <2>1, <2>2
  <1>10. CASE SaveEmbedding(q)
    <2>1. [delivery[m] EXCEPT !.embedded = TRUE, !.status = "received", !.lease = "none"]
             \in Deliveries
      BY <1>0 DEF Deliveries, DeliveryRecords, Leases
    <2>2. delivery' = [delivery EXCEPT ![m] =
             [delivery[m] EXCEPT !.embedded = TRUE, !.status = "received", !.lease = "none"]]
      BY <1>0, <1>10 DEF SaveEmbedding, m, Typed
    <2>3. request' \in [Requests -> Pushes]
      BY <1>0, <1>10, <1>b, RequestValues DEF SaveEmbedding, m
    <2> QED BY <1>10, <2>1, <2>2, <2>3 DEF SaveEmbedding, Typed, budget
  <1>11. CASE EmbeddingFailed(q)
    BY <1>0, <1>11, <1>d, Chooses DEF EmbeddingFailed, OpenStorms, m
  <1>12. CASE PostEmbedding(q)
    BY <1>0, <1>12, <1>a, Sifts DEF PostEmbedding, m
  <1> QED BY <1>1, <1>2, <1>3, <1>4, <1>5, <1>6, <1>7, <1>8, <1>9, <1>10, <1>11, <1>12

\* An incident opened for investigation, and its owner's request.
LEMMA Opens ==
    ASSUME Typed, NEW q \in Requests, On(q) \in Messages, NEW i \in Incidents,
           NEW kind \in {"normal", "storm"}, NEW key \in Keys \cup Messages \cup {"storm"}
    PROVE  /\ [incident EXCEPT ![i] = NewIncident(i, kind, key, "investigating", TRUE)]
                 \in [Incidents -> IncidentRecords]
           /\ \A d \in [Messages -> Deliveries] :
                 [d EXCEPT ![On(q)] = Owned(On(q), i, 1)] \in [Messages -> Deliveries]
           /\ Investigating(q, i) \in [Requests -> Pushes]
  <1>1. NewIncident(i, kind, key, "investigating", TRUE) \in IncidentRecords
    BY IncidentValues DEF Typed
  <1>2. Owned(On(q), i, 1) \in Deliveries
    BY DeliveryValues, TokenValues DEF Typed
  <1>3. <<i, 1>> \in Tokens /\ request[q] \in Pushes
    BY TokenValues DEF Typed
  <1>4. [request[q] EXCEPT !.stage = "investigate", !.incident = i, !.token = <<i, 1>>,
                           !.itoken = <<i, 1>>] \in Pushes
    BY <1>3 DEF On, Pushes, RequestRecords, Stages, OnIncident
  <1>5. Investigating(q, i) = [request EXCEPT ![q] =
           [request[q] EXCEPT !.stage = "investigate", !.incident = i, !.token = <<i, 1>>,
                              !.itoken = <<i, 1>>]]
    BY DEF Investigating, Typed
  <1> QED BY <1>1, <1>2, <1>4, <1>5 DEF Typed

\* The steps that open an incident, add to one, or own one.
LEMMA TypedOwner ==
    ASSUME Typed, NEW q \in Requests,
           \/ SimilarOrNew(q) \/ DeclareStorm(q) \/ Aggregate(q)
           \/ SaveOwnerAnalysis(q) \/ MergedMeanwhile(q) \/ ExpireOwnerLease(q)
           \/ ResumeOwner(q) \/ RenewOwnerLease(q) \/ SaveFinalEscalation(q)
    PROVE  Typed'
  <1> DEFINE m == On(q)
             i == request[q].incident
  <1>0. /\ m \in Messages /\ Key[m] \in Keys /\ delivery[m] \in Deliveries
        /\ request[q] \in Pushes
    BY OnMessage DEF SimilarOrNew, DeclareStorm, Aggregate, SaveOwnerAnalysis, MergedMeanwhile,
       ExpireOwnerLease, ResumeOwner, RenewOwnerLease, SaveFinalEscalation, Typed
  <1> HIDE DEF m
  <1>a. request[q].stage \in OnIncident => i \in Incidents /\ incident[i] \in IncidentRecords
    BY <1>0 DEF Pushes, Typed
  <1>b. Idle \in Pushes
    BY RequestValues
  <1> HIDE DEF i
  <1>1. CASE SimilarOrNew(q)
    <2>1. CASE \E j \in Incidents : Choose(q, j)
      BY <1>0, <2>1, Chooses DEF m
    <2>2. CASE \E j \in Incidents :
                 /\ incident' = [incident EXCEPT ![j] =
                        NewIncident(j, "normal", Key[m], "investigating", TRUE)]
                 /\ delivery' = [delivery EXCEPT ![m] = Owned(m, j, 1)]
                 /\ request' = Investigating(q, j)
                 /\ investigations < MaxInvestigation
                 /\ investigations' = investigations + 1
                 /\ UNCHANGED <<embeddings, answered>>
      <3>1. investigations' \in 0 .. MaxInvestigation
        BY <2>2, AlertsConstants DEF Typed
      <3>2. PICK j \in Incidents :
               /\ incident' = [incident EXCEPT ![j] =
                      NewIncident(j, "normal", Key[m], "investigating", TRUE)]
               /\ delivery' = [delivery EXCEPT ![m] = Owned(m, j, 1)]
               /\ request' = Investigating(q, j)
        BY <2>2
      <3>3. incident' \in [Incidents -> IncidentRecords]
        BY <1>0, <3>2, Opens DEF m
      <3>4. delivery' \in [Messages -> Deliveries] /\ request' \in [Requests -> Pushes]
        BY <1>0, <3>2, Opens DEF Typed, m
      <3> QED BY <2>2, <3>1, <3>3, <3>4 DEF Typed
    <2>3. CASE Escalate(q, "normal", Key[m], TRUE) /\ UNCHANGED budget
      BY <1>0, <2>3, Escalates DEF m
    <2> QED BY <1>1, <2>1, <2>2, <2>3 DEF SimilarOrNew, Similar, m
  <1>2. CASE DeclareStorm(q)
    <2>1. CASE \E s \in Incidents : Choose(q, s)
      BY <1>0, <2>1, Chooses DEF m
    <2>2. CASE \E s \in Incidents :
                 /\ incident' = MergeInto([incident EXCEPT ![s] =
                        NewIncident(s, "storm", "storm", "investigating", TRUE)], s)
                 /\ delivery' = [Relieved(delivery, s) EXCEPT ![m] = Owned(m, s, 1)]
                 /\ request' = Investigating(q, s)
                 /\ investigations < MaxInvestigation
                 /\ investigations' = investigations + 1
                 /\ UNCHANGED <<embeddings, answered>>
      <3>1. investigations' \in 0 .. MaxInvestigation
        BY <2>2, AlertsConstants DEF Typed
      <3>2. PICK s \in Incidents :
               /\ incident' = MergeInto([incident EXCEPT ![s] =
                      NewIncident(s, "storm", "storm", "investigating", TRUE)], s)
               /\ delivery' = [Relieved(delivery, s) EXCEPT ![m] = Owned(m, s, 1)]
               /\ request' = Investigating(q, s)
        BY <2>2
      <3>3. incident' \in [Incidents -> IncidentRecords]
        <4>1. [incident EXCEPT ![s] = NewIncident(s, "storm", "storm", "investigating", TRUE)]
                \in [Incidents -> IncidentRecords]
          BY <1>0, Opens DEF m
        <4> QED BY <3>2, <4>1, MergeTypes
      <3>4. delivery' \in [Messages -> Deliveries] /\ request' \in [Requests -> Pushes]
        <4>1. Relieved(delivery, s) \in [Messages -> Deliveries]
          BY MergeTypes DEF Typed
        <4> QED BY <1>0, <3>2, <4>1, Opens DEF m
      <3> QED BY <2>2, <3>1, <3>3, <3>4 DEF Typed
    <2>3. CASE Escalate(q, "storm", "storm", TRUE) /\ UNCHANGED budget
      BY <1>0, <2>3, Escalates DEF m
    <2> QED BY <1>2, <2>1, <2>2, <2>3 DEF DeclareStorm, OpenStorms, m
  <1>3. CASE Aggregate(q)
    <2>1. Joined(incident[i], m, request[q].seen) \in IncidentRecords /\ i \in Incidents
      BY <1>0, <1>3, <1>a, IncidentValues
      DEF Aggregate, OnIncident, Pushes, RequestRecords, Typed
    <2>2. Attached(m, i) \in Deliveries
      BY <1>0, <2>1, DeliveryValues DEF Typed
    <2>3. /\ incident' = [incident EXCEPT ![i] = Joined(incident[i], m, request[q].seen)]
          /\ delivery' = [delivery EXCEPT ![m] = Attached(m, i)]
          /\ Done(q) /\ UNCHANGED budget
      BY <1>3, <2>1 DEF Aggregate, m, i, Typed
    <2> QED BY <1>0, <2>1, <2>2, <2>3, Finishes DEF Typed, budget, m
  <1>4. CASE SaveOwnerAnalysis(q)
    BY <1>0, <1>4, <1>a, Saves DEF SaveOwnerAnalysis, OnIncident, m, i
  <1>5. CASE MergedMeanwhile(q)
    BY <1>0, <1>5, Finishes DEF MergedMeanwhile, Typed, budget, m
  <1>6. CASE ExpireOwnerLease(q)
    <2>1. i \in Incidents /\ incident[i] \in IncidentRecords
      BY <1>6, <1>a DEF ExpireOwnerLease, OnIncident
    <2>2. /\ [incident[i] EXCEPT !.lease = "expired"] \in IncidentRecords
          /\ [delivery[m] EXCEPT !.lease = "expired"] \in Deliveries
      BY <1>0, <2>1 DEF IncidentRecords, Deliveries, DeliveryRecords, Leases
    <2>3. /\ incident' = [incident EXCEPT ![i] = [incident[i] EXCEPT !.lease = "expired"]]
          /\ delivery' = [delivery EXCEPT ![m] = [delivery[m] EXCEPT !.lease = "expired"]]
      BY <1>0, <1>6, <2>1 DEF ExpireOwnerLease, Typed, m, i
    <2> QED BY <1>6, <1>b, <2>2, <2>3 DEF ExpireOwnerLease, Typed, budget
  <1>7. CASE ResumeOwner(q)
    <2>1. i \in Incidents /\ incident[i] \in IncidentRecords
      BY <1>7, <1>a DEF ResumeOwner, OnIncident
    <2>2. CASE Done(q)
      BY <1>0, <1>7, <2>2, Finishes DEF ResumeOwner, Typed, budget, m
    <2>3. CASE /\ request' = [request EXCEPT ![q].stage = "renew",
                                            ![q].itoken = incident[i].token,
                                            ![q].spent = Spent(i)]
               /\ UNCHANGED answered
      <3>1. incident[i].token \in Tokens /\ Spent(i) \in BOOLEAN
        BY <2>1 DEF IncidentRecords, Spent
      <3>2. [request[q] EXCEPT !.stage = "renew", !.itoken = incident[i].token,
                               !.spent = Spent(i)] \in Pushes
        BY <1>0, <2>1, <3>1 DEF m, i, On, Pushes, RequestRecords, Stages, OnIncident
      <3>3. request' = [request EXCEPT ![q] =
               [request[q] EXCEPT !.stage = "renew", !.itoken = incident[i].token,
                                  !.spent = Spent(i)]]
        BY <2>3 DEF Typed
      <3> QED BY <1>7, <2>3, <3>2, <3>3 DEF ResumeOwner, Typed, budget
    <2> QED BY <1>7, <2>2, <2>3 DEF ResumeOwner, i
  <1>8. CASE RenewOwnerLease(q)
    <2> DEFINE n == incident[i].attempts + 1
    <2>1. i \in Incidents /\ incident[i] \in IncidentRecords
      BY <1>8, <1>a DEF RenewOwnerLease, OnIncident
    <2>2. n \in 1 .. MaxAttempts /\ <<i, n>> \in Tokens
      <3>1. incident[i].attempts \in 1 .. MaxAttempts /\ incident[i].attempts < MaxAttempts
        BY <1>8, <2>1 DEF RenewOwnerLease, Renewable, IncidentRecords, i
      <3>2. n \in 1 .. MaxAttempts /\ n \in 0 .. MaxAttempts
        BY <3>1, AlertsConstants
      <3> QED BY <2>1, <3>2, TokenValues
    <2>3. /\ incident' = [incident EXCEPT ![i] =
                [incident[i] EXCEPT !.token = <<i, n>>, !.lease = "live", !.attempts = n]]
          /\ delivery' = [delivery EXCEPT ![m] =
                [delivery[m] EXCEPT !.token = <<i, n>>, !.lease = "live"]]
          /\ request' = [request EXCEPT ![q] =
                [request[q] EXCEPT !.stage = "investigate", !.token = <<i, n>>,
                                   !.itoken = <<i, n>>]]
      BY <1>0, <1>8, <2>1 DEF RenewOwnerLease, Typed, m, i
    <2> HIDE DEF n
    <2>4. [incident[i] EXCEPT !.token = <<i, n>>, !.lease = "live", !.attempts = n]
            \in IncidentRecords
      BY <2>1, <2>2 DEF IncidentRecords, Leases
    <2>5. [delivery[m] EXCEPT !.token = <<i, n>>, !.lease = "live"] \in Deliveries
      BY <1>0, <2>2 DEF Deliveries, DeliveryRecords, Leases
    <2>6. [request[q] EXCEPT !.stage = "investigate", !.token = <<i, n>>,
                             !.itoken = <<i, n>>] \in Pushes
      BY <1>0, <2>1, <2>2 DEF m, i, On, Pushes, RequestRecords, Stages, OnIncident
    <2>7. incident' \in [Incidents -> IncidentRecords]
      BY <2>3, <2>4 DEF Typed
    <2>8. delivery' \in [Messages -> Deliveries]
      BY <2>3, <2>5 DEF Typed
    <2>9. request' \in [Requests -> Pushes]
      BY <2>3, <2>6 DEF Typed
    <2> QED BY <1>8, <2>7, <2>8, <2>9 DEF RenewOwnerLease, Typed, budget
  <1>9. CASE SaveFinalEscalation(q)
    BY <1>0, <1>9, <1>a, Saves DEF SaveFinalEscalation, OnIncident, m, i
  <1> QED BY <1>1, <1>2, <1>3, <1>4, <1>5, <1>6, <1>7, <1>8, <1>9

\* Pushes, leases that run out, and what the other services do.
LEMMA TypedSurroundings ==
    ASSUME Typed,
           \/ \E q \in Requests : Drop(q)
           \/ \E q \in Requests, m \in Messages : Checkpoint(q, m) \/ Redeliver(q, m)
           \/ \E m \in Messages : Acknowledge(m) \/ WorkLeaseExpires(m)
           \/ \E i \in Incidents : OwnerLeaseExpires(i) \/ IssueSent(i) \/ ReviewIncident(i)
    PROVE  Typed'
  <1>1. ASSUME NEW q \in Requests, Drop(q) PROVE Typed'
    BY <1>1, RequestValues DEF Drop, Typed, budget
  <1>2. ASSUME NEW q \in Requests, NEW m \in Messages, Checkpoint(q, m) PROVE Typed'
    <2>1. Received(m) \in Deliveries
      BY DeliveryValues DEF Typed
    <2>2. [Idle EXCEPT !.stage = "mask", !.msg = m, !.token = <<m, 0>>] \in Pushes
      BY TokenValues DEF Idle, Pushes, RequestRecords, Stages, OnIncident, Statuses
    <2> QED BY <1>2, <2>1, <2>2 DEF Checkpoint, Typed, budget
  <1>3. ASSUME NEW q \in Requests, NEW m \in Messages, Redeliver(q, m) PROVE Typed'
    <2>1. Route(m) \in Stages
      BY DEF Route, Stages
    <2>2. Route(m) \in OnIncident => delivery[m].incident \in Incidents
      BY <1>3 DEF Route, OnIncident, Typed, Deliveries
    <2> QED BY <1>3, <2>1, <2>2, RequestValues DEF Redeliver, Typed, budget
  <1>4. ASSUME NEW m \in Messages, Acknowledge(m) PROVE Typed'
    BY <1>4 DEF Acknowledge, Typed, budget
  <1>5. ASSUME NEW m \in Messages, WorkLeaseExpires(m) PROVE Typed'
    <2>1. [delivery[m] EXCEPT !.lease = "expired"] \in Deliveries
      BY DEF Typed, Deliveries, DeliveryRecords, Leases
    <2> QED BY <1>5, <2>1 DEF WorkLeaseExpires, Typed, budget
  <1>6. ASSUME NEW i \in Incidents, OwnerLeaseExpires(i) PROVE Typed'
    <2>1. ASSUME NEW m \in Messages
          PROVE  delivery[m] \in Deliveries
                 /\ [delivery[m] EXCEPT !.lease = "expired"] \in Deliveries
      BY DEF Typed, Deliveries, DeliveryRecords, Leases
    <2>2. [incident[i] EXCEPT !.lease = "expired"] \in IncidentRecords
      BY DEF Typed, IncidentRecords, Leases
    <2>3. delivery' \in [Messages -> Deliveries]
      BY <1>6, <2>1 DEF OwnerLeaseExpires
    <2> QED BY <1>6, <2>2, <2>3 DEF OwnerLeaseExpires, Typed, budget
  <1>7. ASSUME NEW i \in Incidents, IssueSent(i) PROVE Typed'
    <2>1. [incident[i] EXCEPT !.issue = "sent"] \in IncidentRecords
      BY DEF Typed, IncidentRecords
    <2> QED BY <1>7, <2>1 DEF IssueSent, Typed, budget
  <1>8. ASSUME NEW i \in Incidents, ReviewIncident(i) PROVE Typed'
    <2>1. incident[i] \in IncidentRecords
      BY DEF Typed
    <2>2. [incident[i] EXCEPT !.status = "resolved", !.token = None, !.lease = "expired"]
             \in IncidentRecords
      BY <2>1, TokenValues DEF IncidentRecords, Statuses, Leases
    <2>3. incident' = [incident EXCEPT ![i] =
             [incident[i] EXCEPT !.status = "resolved", !.token = None, !.lease = "expired"]]
      BY <1>8 DEF ReviewIncident, Typed
    <2>4. incident' \in [Incidents -> IncidentRecords]
      BY <2>2, <2>3 DEF Typed
    <2> QED BY <1>8, <2>4 DEF ReviewIncident, Typed, budget
  <1> QED BY <1>1, <1>2, <1>3, <1>4, <1>5, <1>6, <1>7, <1>8

LEMMA TypedNext == Typed /\ [Next]_vars => Typed'
  <1> SUFFICES ASSUME Typed, [Next]_vars PROVE Typed'
    OBVIOUS
  <1>1. ASSUME NEW q \in Requests, Progress(q) PROVE Typed'
    BY <1>1, TypedIntake, TypedOwner DEF Progress
  <1>2. CASE UNCHANGED vars
    BY <1>2 DEF Typed, vars
  <1> QED BY <1>1, <1>2, TypedSurroundings DEF Next

\* Rows, budgets and requests keep their types however pushes, crashes and
\* expiring leases interleave; in particular neither an alert's embedding nor
\* an incident's owner is tried more often than the columns' CHECKs admit, and
\* no budget is exceeded (claim_embedding, renew_owner_lease, noise control).
THEOREM TypeCorrect == Spec => []TypeOK
  <1>1. Typed => TypeOK
    BY DEF Typed, TypeOK, Deliveries, Pushes
  <1> QED BY TypedInit, TypedNext, <1>1, PTL DEF Spec
-----------------------------------------------------------------------------
(***************************************************************************)
(* The daily embedding budget of Alerts: what it counts is what the rows   *)
(* say was charged, for any number of messages, pushes and attempts.       *)
(***************************************************************************)

Reserved == {m \in Messages : delivery[m].reserved}

\* A row that does not exist yet is not charged, and a push that goes on to
\* claim an attempt is on a charged row.
Charges ==
    /\ IsFiniteSet(Reserved)
    /\ embeddings = Cardinality(Reserved)
    /\ \A m \in Messages : delivery[m].attempts > 0 => delivery[m].reserved
    /\ \A m \in Messages : delivery[m].status = "absent" =>
          ~delivery[m].reserved /\ delivery[m].attempts = 0
    /\ \A q \in Requests : request[q].stage = "embed" => delivery[On(q)].reserved

\* What every step but the charge and the claim of an attempt leaves alone.
RowsQuiet ==
    \A m \in Messages :
        /\ delivery'[m].reserved = delivery[m].reserved
        /\ delivery'[m].attempts = delivery[m].attempts
        /\ delivery'[m].status = "absent" => delivery[m].status = "absent"

NobodyGoesToEmbed ==
    \A q \in Requests : request'[q].stage = "embed" => request'[q] = request[q]

Quiet == embeddings' = embeddings /\ RowsQuiet /\ NobodyGoesToEmbed

LEMMA QuietKeeps ==
    ASSUME Typed, Charges, Quiet
    PROVE  Charges'
  <1>1. Reserved' = Reserved
    BY DEF Reserved, Quiet, RowsQuiet
  <1>2. \A q \in Requests : request'[q].stage = "embed" => delivery'[On(q)'].reserved
    <2> SUFFICES ASSUME NEW q \in Requests, request'[q].stage = "embed"
                 PROVE  delivery'[On(q)'].reserved
      OBVIOUS
    <2>1. request'[q] = request[q]
      BY DEF Quiet, NobodyGoesToEmbed
    <2>2. request[q].stage # "idle" /\ request[q] \in Pushes
      BY <2>1 DEF Typed
    <2>3. On(q) \in Messages /\ On(q)' = On(q)
      BY <2>1, <2>2 DEF On, Pushes
    <2>4. delivery[On(q)].reserved
      BY <2>1 DEF Charges
    <2> QED BY <2>3, <2>4 DEF Quiet, RowsQuiet
  <1> QED BY <1>1, <1>2 DEF Charges, Quiet, RowsQuiet

-----------------------------------------------------------------------------
(* The parts that actions share.                                           *)

LEMMA QuietMoves ==
    ASSUME Typed, NEW q \in Requests, NEW s \in Stages \ {"embed"}, request' = To(q, s)
    PROVE  NobodyGoesToEmbed
  BY DEF Typed, To, NobodyGoesToEmbed, Pushes, RequestRecords

LEMMA QuietChooses ==
    ASSUME Typed, NEW q \in Requests, NEW i, Choose(q, i)
    PROVE  Quiet
  <1>1. NobodyGoesToEmbed
    BY DEF Typed, Choose, NobodyGoesToEmbed, Pushes, RequestRecords
  <1> QED BY <1>1 DEF Choose, Quiet, RowsQuiet, budget

LEMMA QuietFinishes ==
    ASSUME Typed, NEW q \in Requests, request' = [request EXCEPT ![q] = Idle]
    PROVE  NobodyGoesToEmbed
  BY DEF Typed, Idle, NobodyGoesToEmbed

\* A row written on behalf of one message, with the same charge.
LEMMA QuietWrites ==
    ASSUME Typed, NEW m \in Messages, NEW d, delivery' = [delivery EXCEPT ![m] = d],
           d.reserved = delivery[m].reserved, d.attempts = delivery[m].attempts,
           d.status # "absent"
    PROVE  RowsQuiet
  BY DEF Typed, RowsQuiet

LEMMA QuietRows ==
    ASSUME Typed, NEW m \in Messages, NEW i \in Incidents
    PROVE  /\ \A n : /\ Owned(m, i, n).reserved = delivery[m].reserved
                     /\ Owned(m, i, n).attempts = delivery[m].attempts
                     /\ Owned(m, i, n).status # "absent"
           /\ Attached(m, i).reserved = delivery[m].reserved
           /\ Attached(m, i).attempts = delivery[m].attempts
           /\ Attached(m, i).status # "absent"
  <1>1. delivery[m] \in DeliveryRecords
    BY DEF Typed, Deliveries
  <1> QED BY <1>1 DEF Owned, Attached, DeliveryRecords

\* Deliveries relieved by a storm, on top of one row that was written.
LEMMA QuietRelieves ==
    ASSUME Typed, NEW m \in Messages, NEW s \in Incidents, NEW d \in Deliveries,
           d.reserved = delivery[m].reserved, d.attempts = delivery[m].attempts,
           d.status # "absent",
           \/ delivery' = Relieved([delivery EXCEPT ![m] = d], s)
           \/ delivery' = [Relieved(delivery, s) EXCEPT ![m] = d]
    PROVE  RowsQuiet
  <1> SUFFICES ASSUME NEW n \in Messages
               PROVE  /\ delivery'[n].reserved = delivery[n].reserved
                      /\ delivery'[n].attempts = delivery[n].attempts
                      /\ delivery'[n].status = "absent" => delivery[n].status = "absent"
    BY DEF RowsQuiet
  <1>1. ASSUME NEW f \in [Messages -> Deliveries]
        PROVE  /\ Relieved(f, s)[n].reserved = f[n].reserved
               /\ Relieved(f, s)[n].attempts = f[n].attempts
               /\ Relieved(f, s)[n].status = "absent" => f[n].status = "absent"
    <2>1. f[n] \in DeliveryRecords
      BY DEF Deliveries
    <2> QED BY <2>1 DEF Relieved, DeliveryRecords
  <1>2. delivery \in [Messages -> Deliveries]
    BY DEF Typed
  <1>3. [delivery EXCEPT ![m] = d] \in [Messages -> Deliveries]
    BY <1>2
  <1>4. CASE delivery' = Relieved([delivery EXCEPT ![m] = d], s)
    BY <1>1, <1>2, <1>3, <1>4
  <1>5. CASE delivery' = [Relieved(delivery, s) EXCEPT ![m] = d]
    BY <1>1, <1>2, <1>5 DEF Relieved
  <1> QED BY <1>4, <1>5

LEMMA QuietEscalates ==
    ASSUME Typed, NEW q \in Requests, On(q) \in Messages, NEW kind, NEW key, NEW embedded,
           Escalate(q, kind, key, embedded), UNCHANGED budget
    PROVE  Quiet
  <1>1. PICK i \in Incidents :
           /\ delivery' = IF kind = "storm"
                          THEN Relieved([delivery EXCEPT ![On(q)] = Attached(On(q), i)], i)
                          ELSE [delivery EXCEPT ![On(q)] = Attached(On(q), i)]
           /\ Done(q)
    BY DEF Escalate
  <1>2. Attached(On(q), i) \in Deliveries
    BY DeliveryValues DEF Typed
  <1>3. RowsQuiet
    BY <1>1, <1>2, QuietRows, QuietWrites, QuietRelieves, ZenonT(60)
  <1> QED BY <1>1, <1>3, QuietFinishes DEF Done, Quiet, budget

LEMMA QuietEscalatesAs ==
    ASSUME Typed, NEW q \in Requests, On(q) \in Messages, NEW embedded,
           EscalateAs(q, embedded), UNCHANGED budget
    PROVE  Quiet
  BY QuietEscalates DEF EscalateAs

LEMMA QuietSifts ==
    ASSUME Typed, NEW q \in Requests, NEW next \in Stages \ {"embed"}, Sift(q, next)
    PROVE  Quiet
  <1>1. CASE \E i \in Incidents : Choose(q, i)
    BY <1>1, QuietChooses
  <1>2. CASE /\ \E s \in {"storm", next} : request' = To(q, s)
             /\ UNCHANGED <<delivery, incident, budget, answered>>
    <2>1. NobodyGoesToEmbed
      BY <1>2, QuietMoves DEF Stages
    <2> QED BY <1>2, <2>1 DEF Quiet, RowsQuiet, budget
  <1> QED BY <1>1, <1>2 DEF Sift, OpenStorms, SameKey, OpenNormals

LEMMA QuietSaves ==
    ASSUME Typed, NEW q \in Requests, On(q) \in Messages, NEW outcome, SaveAs(q, outcome)
    PROVE  Quiet
  <1>1. delivery[On(q)] \in DeliveryRecords
    BY DEF Typed, Deliveries
  <1> DEFINE d == [delivery[On(q)] EXCEPT !.status = "completed", !.owner = FALSE,
                                          !.lease = "none"]
  <1>2. delivery' = [delivery EXCEPT ![On(q)] = d]
    BY DEF SaveAs, Typed
  <1>a. /\ d.reserved = delivery[On(q)].reserved
        /\ d.attempts = delivery[On(q)].attempts
        /\ d.status # "absent"
    BY <1>1 DEF DeliveryRecords
  <1> HIDE DEF d
  <1>3. RowsQuiet
    BY <1>2, <1>a, QuietWrites
  <1> QED BY <1>3, QuietFinishes DEF SaveAs, Done, Quiet, budget

-----------------------------------------------------------------------------
(* The charge and the claim.                                               *)

LEMMA ChargedByReserve ==
    ASSUME Typed, Charges, NEW q \in Requests, ReserveEmbedding(q)
    PROVE  Charges'
  <1> DEFINE m == On(q)
  <1>0. /\ m \in Messages /\ delivery[m] \in DeliveryRecords /\ request[q] \in RequestRecords
        /\ request[q].stage = "reserve"
    BY OnMessage DEF ReserveEmbedding, Typed, Deliveries, Pushes
  <1>1. CASE /\ request' = To(q, AfterEmbedding(q))
             /\ UNCHANGED <<delivery, incident, budget, answered>>
    <2>1. NobodyGoesToEmbed
      BY <1>1, QuietMoves DEF AfterEmbedding, Stages
    <2> QED BY <1>1, <2>1, QuietKeeps DEF Quiet, RowsQuiet, budget
  <1>2. CASE \E s \in OpenStorms : Choose(q, s)
    BY <1>2, QuietChooses, QuietKeeps
  <1>3. CASE /\ delivery[m].reserved
             /\ request' = To(q, "embed")
             /\ UNCHANGED <<delivery, incident, budget, answered>>
    <2>1. ASSUME NEW r \in Requests, request'[r].stage = "embed"
          PROVE  delivery'[On(r)'].reserved
      <3>1. CASE r = q
        <4>1. On(r)' = m
          BY <1>0, <1>3, <3>1 DEF To, On, Typed, RequestRecords
        <4> QED BY <1>3, <4>1
      <3>2. CASE r # q
        <4>1. request'[r] = request[r]
          BY <1>3, <3>2 DEF To, Typed
        <4> QED BY <1>3, <2>1, <4>1 DEF Charges, On
      <3> QED BY <3>1, <3>2
    <2>2. Reserved' = Reserved
      BY <1>3 DEF Reserved
    <2> QED BY <1>3, <2>1, <2>2 DEF Charges, budget
  <1>4. CASE /\ ~delivery[m].reserved
             /\ embeddings' = embeddings + 1
             /\ delivery' = [delivery EXCEPT ![m] = Charged(delivery[m])]
             /\ request' = To(q, "embed")
    <2>0. /\ delivery \in [Messages -> Deliveries]
          /\ delivery[m].status # "absent"
          /\ Charged(delivery[m]).reserved
          /\ Charged(delivery[m]).attempts = delivery[m].attempts
          /\ Charged(delivery[m]).status = delivery[m].status
      BY <1>0 DEF ReserveEmbedding, Charged, DeliveryRecords, Typed
    <2>1. \A n \in Messages : n # m => delivery'[n] = delivery[n]
      BY <1>4, <2>0
    <2>2. delivery'[m] = Charged(delivery[m])
      BY <1>0, <1>4, <2>0
    <2> HIDE DEF m
    <2>3. Reserved' = Reserved \cup {m} /\ m \notin Reserved
      BY <1>0, <1>4, <2>0, <2>1, <2>2 DEF Reserved
    <2>4. /\ IsFiniteSet(Reserved \cup {m})
          /\ Cardinality(Reserved \cup {m}) = Cardinality(Reserved) + 1
      BY <2>3, FS_AddElement DEF Charges
    <2>5. ASSUME NEW r \in Requests, request'[r].stage = "embed"
          PROVE  delivery'[On(r)'].reserved
      <3>1. CASE r = q
        <4>1. On(r)' = m
          BY <1>0, <1>4, <3>1 DEF To, On, Typed, RequestRecords, m
        <4> QED BY <2>0, <2>2, <4>1
      <3>2. CASE r # q
        <4>1. request'[r] = request[r]
          BY <1>4, <3>2 DEF To, Typed
        <4>2. delivery[On(r)].reserved /\ On(r)' = On(r)
          BY <2>5, <4>1 DEF Charges, On
        <4>3. On(r) \in Messages
          BY <2>5, <4>1, OnMessage
        <4>4. On(r) # m
          BY <1>4, <4>2
        <4> QED BY <2>1, <4>2, <4>3, <4>4
      <3> QED BY <3>1, <3>2
    <2>6. \A n \in Messages : /\ delivery'[n].attempts > 0 => delivery'[n].reserved
                              /\ delivery'[n].status = "absent" =>
                                    ~delivery'[n].reserved /\ delivery'[n].attempts = 0
      BY <1>0, <2>0, <2>1, <2>2 DEF Charges
    <2> QED BY <1>4, <2>3, <2>4, <2>5, <2>6 DEF Charges
  <1>5. CASE EscalateAs(q, FALSE) /\ UNCHANGED budget
    BY <1>0, <1>5, QuietEscalatesAs, QuietKeeps
  <1>6. delivery' = [delivery EXCEPT ![m] = Charged(@)] =>
           delivery' = [delivery EXCEPT ![m] = Charged(delivery[m])]
    BY <1>0 DEF Typed
  <1> QED BY <1>1, <1>2, <1>3, <1>4, <1>5, <1>6 DEF ReserveEmbedding

LEMMA ChargedByClaim ==
    ASSUME Typed, Charges, NEW q \in Requests, ClaimEmbedding(q)
    PROVE  Charges'
  <1> DEFINE m == On(q)
             d == delivery[m]
  <1>0. /\ m \in Messages /\ d \in DeliveryRecords /\ request[q] \in RequestRecords
        /\ request[q].stage = "embed" /\ d.reserved
    BY OnMessage DEF ClaimEmbedding, Typed, Deliveries, Pushes, Charges
  <1>1. CASE Embeddable(d)
    <2> DEFINE e == [d EXCEPT !.status = "embedding", !.attempts = @ + 1,
                              !.token = <<m, d.attempts + 1>>, !.lease = "live"]
    <2>1. /\ delivery' = [delivery EXCEPT ![m] = e]
          /\ request' = [request EXCEPT ![q].stage = "calling",
                                        ![q].token = <<m, d.attempts + 1>>]
          /\ embeddings' = embeddings
      BY <1>1 DEF ClaimEmbedding, budget
    <2>2. e.reserved /\ e.status = "embedding"
      BY <1>0 DEF DeliveryRecords
    <2> HIDE DEF e
    <2>3. /\ delivery'[m] = e
          /\ \A n \in Messages : n # m => delivery'[n] = delivery[n]
      BY <1>0, <2>1 DEF Typed
    <2>4. Reserved' = Reserved
      BY <1>0, <2>2, <2>3 DEF Reserved
    <2>5. NobodyGoesToEmbed
      BY <1>0, <2>1 DEF NobodyGoesToEmbed, Typed, Pushes, RequestRecords
    <2>6. ASSUME NEW r \in Requests, request'[r].stage = "embed"
          PROVE  delivery'[On(r)'].reserved
      <3>1. request'[r] = request[r] /\ request[r].stage # "idle"
        BY <2>5, <2>6 DEF NobodyGoesToEmbed
      <3>2. On(r)' = On(r) /\ delivery[On(r)].reserved /\ On(r) \in Messages
        BY <2>6, <3>1, OnMessage DEF On, Charges
      <3> QED BY <2>2, <2>3, <3>2
    <2>7. \A n \in Messages : /\ delivery'[n].attempts > 0 => delivery'[n].reserved
                              /\ delivery'[n].status = "absent" =>
                                    ~delivery'[n].reserved /\ delivery'[n].attempts = 0
      BY <2>2, <2>3 DEF Charges
    <2> QED BY <2>1, <2>4, <2>6, <2>7 DEF Charges
  <1>2. CASE ~Embeddable(d)
    <2>1. /\ request' = To(q, AfterEmbedding(q))
          /\ UNCHANGED <<delivery, incident, budget, answered>>
      BY <1>2 DEF ClaimEmbedding
    <2>2. NobodyGoesToEmbed
      BY <2>1, QuietMoves DEF AfterEmbedding, Stages
    <2> QED BY <2>1, <2>2, QuietKeeps DEF Quiet, RowsQuiet, budget
  <1> QED BY <1>1, <1>2

-----------------------------------------------------------------------------
(* The other steps change no charge.                                       *)

LEMMA QuietIntake ==
    ASSUME Typed, NEW q \in Requests,
           \/ Completed(q) \/ Mask(q) \/ MaskingError(q) \/ MaskingFailureEscalation(q)
           \/ RunAfterMasking(q) \/ StormBranch(q) \/ ResumeEmbedding(q)
           \/ SaveEmbedding(q) \/ EmbeddingFailed(q) \/ PostEmbedding(q)
    PROVE  Quiet
  <1> DEFINE m == On(q)
  <1>0. /\ m \in Messages /\ delivery[m] \in DeliveryRecords
        /\ request[q] \in RequestRecords /\ delivery \in [Messages -> Deliveries]
        /\ request \in [Requests -> Pushes]
    BY OnMessage DEF Completed, Mask, MaskingError, MaskingFailureEscalation, RunAfterMasking,
       StormBranch, ResumeEmbedding, SaveEmbedding, EmbeddingFailed, PostEmbedding, Typed,
       Deliveries, Pushes
  <1>1. CASE Completed(q)
    BY <1>1, QuietFinishes DEF Completed, Done, Quiet, RowsQuiet, budget
  <1>2. CASE Mask(q)
    <2>1. delivery' = [delivery EXCEPT ![m] =
             [delivery[m] EXCEPT !.masked = TRUE, !.lease = "none"]]
      BY <1>0, <1>2 DEF Mask
    <2> DEFINE d == [delivery[m] EXCEPT !.masked = TRUE, !.lease = "none"]
    <2>2. /\ d.reserved = delivery[m].reserved /\ d.attempts = delivery[m].attempts
          /\ d.status = delivery[m].status /\ delivery[m].status = "received"
      BY <1>0, <1>2 DEF Mask, DeliveryRecords
    <2> HIDE DEF d, m
    <2>3. RowsQuiet
      BY <1>0, <2>1, <2>2, QuietWrites DEF d
    <2>4. NobodyGoesToEmbed
      BY <1>2, QuietMoves DEF Mask, Stages
    <2> QED BY <1>2, <2>3, <2>4 DEF Mask, Quiet, budget
  <1>3. CASE MaskingError(q)
    BY <1>3, QuietMoves DEF MaskingError, Stages, Quiet, RowsQuiet, budget
  <1>4. CASE MaskingFailureEscalation(q)
    BY <1>0, <1>4, QuietEscalates DEF MaskingFailureEscalation
  <1>5. CASE RunAfterMasking(q)
    BY <1>5, QuietSifts DEF RunAfterMasking, Stages
  <1>6. CASE PostEmbedding(q)
    BY <1>6, QuietSifts DEF PostEmbedding, Stages
  <1>7. CASE StormBranch(q)
    <2>1. CASE \E s \in OpenStorms : Choose(q, s)
      BY <2>1, QuietChooses
    <2>2. CASE /\ request' = [request EXCEPT ![q].stage = "reserve", ![q].hot = TRUE]
               /\ UNCHANGED <<delivery, incident, budget, answered>>
      <3>1. NobodyGoesToEmbed
        BY <1>0, <2>2 DEF NobodyGoesToEmbed, Pushes, RequestRecords
      <3> QED BY <2>2, <3>1 DEF Quiet, RowsQuiet, budget
    <2> QED BY <1>7, <2>1, <2>2 DEF StormBranch
  <1>8. CASE ResumeEmbedding(q)
    <2>1. CASE \E s \in OpenStorms : Choose(q, s)
      BY <2>1, QuietChooses
    <2>2. CASE \E hot \in Surges :
                 /\ request' = [request EXCEPT ![q].stage = "reserve", ![q].hot = hot]
                 /\ UNCHANGED <<delivery, incident, budget, answered>>
      <3>1. NobodyGoesToEmbed
        BY <1>0, <2>2 DEF NobodyGoesToEmbed, Pushes, RequestRecords
      <3> QED BY <2>2, <3>1 DEF Quiet, RowsQuiet, budget
    <2> QED BY <1>8, <2>1, <2>2 DEF ResumeEmbedding
  <1>9. CASE SaveEmbedding(q)
    <2> DEFINE d == [delivery[m] EXCEPT !.embedded = TRUE, !.status = "received", !.lease = "none"]
    <2>1. delivery' = [delivery EXCEPT ![m] = d]
      BY <1>0, <1>9 DEF SaveEmbedding
    <2>2. /\ d.reserved = delivery[m].reserved /\ d.attempts = delivery[m].attempts
          /\ d.status # "absent"
      BY <1>0 DEF DeliveryRecords
    <2> HIDE DEF d, m
    <2>3. RowsQuiet
      BY <1>0, <2>1, <2>2, QuietWrites
    <2>4. NobodyGoesToEmbed
      BY <1>9, QuietMoves DEF SaveEmbedding, AfterEmbedding, Stages
    <2> QED BY <1>9, <2>3, <2>4 DEF SaveEmbedding, Quiet, budget
  <1>10. CASE EmbeddingFailed(q)
    BY <1>0, <1>10, QuietChooses, QuietEscalatesAs DEF EmbeddingFailed
  <1> QED BY <1>1, <1>2, <1>3, <1>4, <1>5, <1>6, <1>7, <1>8, <1>9, <1>10

LEMMA QuietOwner ==
    ASSUME Typed, NEW q \in Requests,
           \/ SimilarOrNew(q) \/ DeclareStorm(q) \/ Aggregate(q)
           \/ SaveOwnerAnalysis(q) \/ MergedMeanwhile(q) \/ ExpireOwnerLease(q)
           \/ ResumeOwner(q) \/ RenewOwnerLease(q) \/ SaveFinalEscalation(q)
    PROVE  Quiet
  <1> DEFINE m == On(q)
             i == request[q].incident
  <1>0. /\ m \in Messages /\ delivery[m] \in DeliveryRecords
        /\ request[q] \in RequestRecords /\ delivery \in [Messages -> Deliveries]
        /\ request \in [Requests -> Pushes]
    BY OnMessage DEF SimilarOrNew, DeclareStorm, Aggregate, SaveOwnerAnalysis, MergedMeanwhile,
       ExpireOwnerLease, ResumeOwner, RenewOwnerLease, SaveFinalEscalation, Typed,
       Deliveries, Pushes
  <1>a. ASSUME NEW j PROVE request' = Investigating(q, j) => NobodyGoesToEmbed
    BY <1>0 DEF Investigating, NobodyGoesToEmbed, Pushes, RequestRecords
  <1>1. CASE SimilarOrNew(q)
    <2>1. CASE \E j \in Incidents : Choose(q, j)
      BY <2>1, QuietChooses
    <2>2. CASE \E j \in Incidents :
                 /\ delivery' = [delivery EXCEPT ![m] = Owned(m, j, 1)]
                 /\ request' = Investigating(q, j)
                 /\ embeddings' = embeddings
      <3>1. PICK j \in Incidents : /\ delivery' = [delivery EXCEPT ![m] = Owned(m, j, 1)]
                                   /\ request' = Investigating(q, j)
        BY <2>2
      <3> DEFINE d == Owned(m, j, 1)
      <3>2. /\ d.reserved = delivery[m].reserved /\ d.attempts = delivery[m].attempts
            /\ d.status # "absent" /\ delivery' = [delivery EXCEPT ![m] = d]
        BY <1>0, <3>1, QuietRows
      <3> HIDE DEF d, m
      <3>3. RowsQuiet
        BY <1>0, <3>2, QuietWrites
      <3> QED BY <1>a, <2>2, <3>1, <3>3 DEF Quiet
    <2>3. CASE Escalate(q, "normal", Key[m], TRUE) /\ UNCHANGED budget
      BY <1>0, <2>3, QuietEscalates
    <2> QED BY <1>1, <2>1, <2>2, <2>3 DEF SimilarOrNew, Similar
  <1>2. CASE DeclareStorm(q)
    <2>1. CASE \E s \in Incidents : Choose(q, s)
      BY <2>1, QuietChooses
    <2>2. CASE \E s \in Incidents :
                 /\ delivery' = [Relieved(delivery, s) EXCEPT ![m] = Owned(m, s, 1)]
                 /\ request' = Investigating(q, s)
                 /\ embeddings' = embeddings
      <3>1. PICK s \in Incidents :
               /\ delivery' = [Relieved(delivery, s) EXCEPT ![m] = Owned(m, s, 1)]
               /\ request' = Investigating(q, s)
        BY <2>2
      <3>2. Owned(m, s, 1) \in Deliveries
        BY <1>0, DeliveryValues, TokenValues
      <3> DEFINE d == Owned(m, s, 1)
      <3>a. /\ d.reserved = delivery[m].reserved /\ d.attempts = delivery[m].attempts
            /\ d.status # "absent" /\ d \in Deliveries
            /\ delivery' = [Relieved(delivery, s) EXCEPT ![m] = d]
        BY <1>0, <3>1, <3>2, QuietRows
      <3> HIDE DEF d, m
      <3>3. RowsQuiet
        BY <1>0, <3>a, QuietRelieves
      <3> QED BY <1>a, <2>2, <3>1, <3>3 DEF Quiet
    <2>3. CASE Escalate(q, "storm", "storm", TRUE) /\ UNCHANGED budget
      BY <1>0, <2>3, QuietEscalates
    <2> QED BY <1>2, <2>1, <2>2, <2>3 DEF DeclareStorm, OpenStorms
  <1>3. CASE Aggregate(q)
    <2>1. i \in Incidents
      BY <1>0, <1>3 DEF Aggregate, Pushes, OnIncident
    <2>2. delivery' = [delivery EXCEPT ![m] = Attached(m, i)] /\ Done(q) /\ UNCHANGED budget
      BY <1>3 DEF Aggregate
    <2>3. RowsQuiet
      BY <1>0, <2>1, <2>2, QuietRows, QuietWrites
    <2> QED BY <2>2, <2>3, QuietFinishes DEF Done, Quiet, budget
  <1>4. CASE SaveOwnerAnalysis(q)
    BY <1>0, <1>4, QuietSaves DEF SaveOwnerAnalysis
  <1>5. CASE MergedMeanwhile(q)
    BY <1>5, QuietFinishes DEF MergedMeanwhile, Done, Quiet, RowsQuiet, budget
  <1>6. CASE ExpireOwnerLease(q)
    <2> DEFINE d == [delivery[m] EXCEPT !.lease = "expired"]
    <2>1. delivery' = [delivery EXCEPT ![m] = d]
      BY <1>0, <1>6 DEF ExpireOwnerLease
    <2>2. /\ d.reserved = delivery[m].reserved /\ d.attempts = delivery[m].attempts
          /\ d.status # "absent"
      BY <1>0, <1>6 DEF DeliveryRecords, ExpireOwnerLease, Holds, HoldsDelivery
    <2> HIDE DEF d, m
    <2>3. RowsQuiet
      BY <1>0, <2>1, <2>2, QuietWrites
    <2> QED BY <1>6, <2>3, QuietFinishes DEF ExpireOwnerLease, Quiet, budget
  <1>7. CASE ResumeOwner(q)
    <2>1. NobodyGoesToEmbed
      <3>1. CASE Done(q)
        BY <3>1, QuietFinishes DEF Done
      <3>2. CASE request' = [request EXCEPT ![q].stage = "renew",
                                            ![q].itoken = incident[i].token,
                                            ![q].spent = Spent(i)]
        BY <1>0, <3>2 DEF NobodyGoesToEmbed, Pushes, RequestRecords
      <3> QED BY <1>7, <3>1, <3>2 DEF ResumeOwner
    <2> QED BY <1>7, <2>1 DEF ResumeOwner, Quiet, RowsQuiet, budget
  <1>8. CASE RenewOwnerLease(q)
    <2> DEFINE n == incident[i].attempts + 1
               d == [delivery[m] EXCEPT !.token = <<i, n>>, !.lease = "live"]
    <2>1. delivery' = [delivery EXCEPT ![m] = d]
      BY <1>0, <1>8 DEF RenewOwnerLease
    <2>2. /\ d.reserved = delivery[m].reserved /\ d.attempts = delivery[m].attempts
          /\ d.status # "absent"
      BY <1>0, <1>8 DEF DeliveryRecords, RenewOwnerLease, Holds, HoldsDelivery
    <2>3. NobodyGoesToEmbed
      BY <1>0, <1>8 DEF RenewOwnerLease, NobodyGoesToEmbed, Pushes, RequestRecords
    <2> HIDE DEF d, m
    <2>4. RowsQuiet
      BY <1>0, <2>1, <2>2, QuietWrites
    <2> QED BY <1>8, <2>3, <2>4 DEF RenewOwnerLease, Quiet, budget
  <1>9. CASE SaveFinalEscalation(q)
    BY <1>0, <1>9, QuietSaves DEF SaveFinalEscalation
  <1> QED BY <1>1, <1>2, <1>3, <1>4, <1>5, <1>6, <1>7, <1>8, <1>9

\* A first push writes a row that was not charged before.
LEMMA QuietSurroundings ==
    ASSUME Typed, Charges,
           \/ \E q \in Requests : Drop(q)
           \/ \E q \in Requests, m \in Messages : Checkpoint(q, m) \/ Redeliver(q, m)
           \/ \E m \in Messages : Acknowledge(m) \/ WorkLeaseExpires(m)
           \/ \E i \in Incidents : OwnerLeaseExpires(i) \/ IssueSent(i) \/ ReviewIncident(i)
    PROVE  Quiet
  <1>1. ASSUME NEW q \in Requests, Drop(q) PROVE Quiet
    BY <1>1, QuietFinishes DEF Drop, Quiet, RowsQuiet, budget
  <1>2. ASSUME NEW q \in Requests, NEW m \in Messages, Checkpoint(q, m) PROVE Quiet
    <2>1. /\ delivery' = [delivery EXCEPT ![m] = Received(m)]
          /\ ~delivery[m].reserved /\ delivery[m].attempts = 0
          /\ delivery[m] \in DeliveryRecords
      BY <1>2 DEF Checkpoint, Charges, Typed, Deliveries
    <2>2. /\ Received(m).reserved = FALSE /\ Received(m).attempts = 0
          /\ Received(m).status # "absent"
      BY DEF Received, NoDelivery
    <2>3. delivery[m].reserved = FALSE
      BY <2>1 DEF DeliveryRecords
    <2>4. RowsQuiet
      BY <2>1, <2>2, <2>3, QuietWrites
    <2>5. NobodyGoesToEmbed
      BY <1>2 DEF Checkpoint, NobodyGoesToEmbed, Idle, Typed
    <2> QED BY <1>2, <2>4, <2>5 DEF Checkpoint, Quiet, budget
  <1>3. ASSUME NEW q \in Requests, NEW m \in Messages, Redeliver(q, m) PROVE Quiet
    <2>1. Route(m) # "embed"
      BY DEF Route
    <2>2. NobodyGoesToEmbed
      BY <1>3, <2>1 DEF Redeliver, Enter, NobodyGoesToEmbed, Idle, Typed
    <2> QED BY <1>3, <2>2 DEF Redeliver, Quiet, RowsQuiet, budget
  <1>4. ASSUME NEW m \in Messages, Acknowledge(m) PROVE Quiet
    BY <1>4 DEF Acknowledge, Quiet, RowsQuiet, NobodyGoesToEmbed, budget
  <1>5. ASSUME NEW m \in Messages, WorkLeaseExpires(m) PROVE Quiet
    <2> DEFINE d == [delivery[m] EXCEPT !.lease = "expired"]
    <2>1. delivery[m] \in DeliveryRecords /\ delivery' = [delivery EXCEPT ![m] = d]
      BY <1>5 DEF WorkLeaseExpires, Typed, Deliveries
    <2>2. /\ d.reserved = delivery[m].reserved /\ d.attempts = delivery[m].attempts
          /\ d.status = delivery[m].status
      BY <2>1 DEF DeliveryRecords
    <2> HIDE DEF d
    <2>3. RowsQuiet
      <3>1. delivery'[m] = d /\ \A n \in Messages : n # m => delivery'[n] = delivery[n]
        BY <2>1 DEF Typed
      <3> QED BY <2>2, <3>1 DEF RowsQuiet
    <2> QED BY <1>5, <2>3 DEF WorkLeaseExpires, Quiet, NobodyGoesToEmbed, budget
  <1>6. ASSUME NEW i \in Incidents, OwnerLeaseExpires(i) PROVE Quiet
    <2>1. ASSUME NEW m \in Messages
          PROVE  /\ delivery'[m].reserved = delivery[m].reserved
                 /\ delivery'[m].attempts = delivery[m].attempts
                 /\ delivery'[m].status = delivery[m].status
      <3>1. delivery[m] \in DeliveryRecords
        BY DEF Typed, Deliveries
      <3> QED BY <1>6, <3>1 DEF OwnerLeaseExpires, DeliveryRecords
    <2>2. RowsQuiet
      BY <2>1 DEF RowsQuiet
    <2> QED BY <1>6, <2>2 DEF OwnerLeaseExpires, Quiet, NobodyGoesToEmbed, budget
  <1>7. ASSUME NEW i \in Incidents, IssueSent(i) \/ ReviewIncident(i) PROVE Quiet
    BY <1>7 DEF IssueSent, ReviewIncident, Quiet, RowsQuiet, NobodyGoesToEmbed, budget
  <1> QED BY <1>1, <1>2, <1>3, <1>4, <1>5, <1>6, <1>7

-----------------------------------------------------------------------------
LEMMA ChargesInit == Init => Charges
  <1> SUFFICES ASSUME Init PROVE Charges
    OBVIOUS
  <1>1. Reserved = {}
    BY DEF Init, Reserved, NoDelivery
  <1> QED BY <1>1, FS_EmptySet DEF Init, Charges, NoDelivery, Idle

LEMMA ChargesNext == Typed /\ Charges /\ [Next]_vars => Charges'
  <1> SUFFICES ASSUME Typed, Charges, [Next]_vars PROVE Charges'
    OBVIOUS
  <1>1. ASSUME NEW q \in Requests, Progress(q) PROVE Charges'
    BY <1>1, ChargedByReserve, ChargedByClaim, QuietIntake, QuietOwner, QuietKeeps DEF Progress
  <1>2. CASE UNCHANGED vars
    BY <1>2, QuietKeeps DEF vars, Quiet, RowsQuiet, NobodyGoesToEmbed
  <1> QED BY <1>1, <1>2, QuietSurroundings, QuietKeeps DEF Next

\* The day's count of embeddings is the number of deliveries that were charged,
\* and no delivery is tried without being charged, however pushes interleave,
\* die and come back (_ensure_embedding, consume_embedding_budget).
THEOREM ChargedOncePerDelivery == Spec => []ChargedOnce
  <1>1. Charges => ChargedOnce
    BY DEF Charges, ChargedOnce, Reserved
  <1> QED BY TypedInit, TypedNext, ChargesInit, ChargesNext, <1>1, PTL DEF Spec

-----------------------------------------------------------------------------
(* The two tables.                                                         *)

\* An owner's delivery and its incident carry one token and one lease, and
\* every investigation has exactly one owner.
Mirrored ==
    /\ \A m \in Messages : delivery[m].owner <=> delivery[m].status = "processing"
    /\ \A m \in Messages : delivery[m].owner =>
          /\ delivery[m].incident \in Incidents
          /\ incident[delivery[m].incident].status = "investigating"
          /\ delivery[m].token = incident[delivery[m].incident].token
          /\ delivery[m].lease = incident[delivery[m].incident].lease
    /\ \A m, n \in Messages : delivery[m].owner /\ delivery[n].owner /\ m # n
          => delivery[m].incident # delivery[n].incident
    /\ \A i \in Incidents : incident[i].status = "investigating" =>
          \E m \in Messages : delivery[m].owner /\ delivery[m].incident = i

\* A completed delivery names an incident that exists; a merged incident is a
\* normal one that names its storm; what was decided has its outbox rows.
Filed ==
    /\ \A m \in Messages : delivery[m].status = "completed" =>
          /\ delivery[m].incident \in Incidents
          /\ incident[delivery[m].incident].status # "absent"
    /\ \A i \in Incidents : incident[i].status = "merged" <=> incident[i].mergedInto # None
    /\ \A i \in Incidents : incident[i].mergedInto # None =>
          /\ incident[i].kind = "normal" /\ incident[i].mergedInto \in Incidents
          /\ incident[incident[i].mergedInto].kind = "storm"
          /\ incident[incident[i].mergedInto].status # "absent"
    /\ \A i \in Incidents : incident[i].status \in {"analyzed", "escalated", "resolved"} =>
          incident[i].issue # "none"

\* Tokens of incidents name an incident, the investigated one its own; only an
\* investigation has a lease that runs.
Tokened ==
    /\ \A i \in Incidents : incident[i].token \in {None} \cup (Incidents \X Nat)
    /\ \A i \in Incidents : incident[i].status = "investigating" =>
          \E n \in Nat : incident[i].token = <<i, n>>
    /\ \A i \in Incidents : incident[i].lease = "live" => incident[i].status = "investigating"

Tables == Mirrored /\ Filed /\ Tokened

Working(d) == d.status \notin {"processing", "completed"}

\* A row that no owner and no completed delivery is concerned with, or that is
\* completed on an incident that exists.
QuietRow(m) ==
    \/ delivery'[m] = delivery[m]
    \/ Working(delivery[m]) /\ Working(delivery'[m]) /\ ~delivery'[m].owner
    \/ /\ delivery[m].status # "processing"
       /\ delivery'[m].status = "completed" /\ ~delivery'[m].owner
       /\ delivery'[m].incident \in Incidents
       /\ incident[delivery'[m].incident].status # "absent"

QuietCase(i) ==
    /\ incident'[i].status = incident[i].status /\ incident'[i].kind = incident[i].kind
    /\ incident'[i].mergedInto = incident[i].mergedInto
    /\ incident'[i].token = incident[i].token /\ incident'[i].lease = incident[i].lease
    /\ incident[i].issue # "none" => incident'[i].issue # "none"

LEMMA TablesQuiet ==
    ASSUME Typed, Typed', Tables, \A m \in Messages : QuietRow(m),
           \A i \in Incidents : QuietCase(i)
    PROVE  Tables'
  <1>1. \A m \in Messages : \/ delivery'[m].owner = delivery[m].owner /\ delivery'[m] = delivery[m]
                            \/ ~delivery'[m].owner /\ ~delivery[m].owner
    BY DEF QuietRow, Working, Tables, Mirrored, Typed
  <1>2. Mirrored'
    <2>1. \A m \in Messages : delivery'[m].owner <=> delivery'[m].status = "processing"
      BY DEF QuietRow, Working, Tables, Mirrored
    <2>2. ASSUME NEW m \in Messages, delivery'[m].owner
          PROVE  /\ delivery'[m].incident \in Incidents
                 /\ incident'[delivery'[m].incident].status = "investigating"
                 /\ delivery'[m].token = incident'[delivery'[m].incident].token
                 /\ delivery'[m].lease = incident'[delivery'[m].incident].lease
      BY <1>1, <2>2 DEF Tables, Mirrored, QuietCase
    <2>3. \A m, n \in Messages : delivery'[m].owner /\ delivery'[n].owner /\ m # n
             => delivery'[m].incident # delivery'[n].incident
      BY <1>1 DEF Tables, Mirrored
    <2>4. ASSUME NEW i \in Incidents, incident'[i].status = "investigating"
          PROVE  \E m \in Messages : delivery'[m].owner /\ delivery'[m].incident = i
      BY <1>1, <2>4 DEF Tables, Mirrored, QuietCase
    <2> QED BY <2>1, <2>2, <2>3, <2>4 DEF Mirrored
  <1>3. Filed'
    <2>1. ASSUME NEW m \in Messages, delivery'[m].status = "completed"
          PROVE  /\ delivery'[m].incident \in Incidents
                 /\ incident'[delivery'[m].incident].status # "absent"
      BY <2>1 DEF QuietRow, Working, QuietCase, Tables, Filed
    <2>2. ASSUME NEW i \in Incidents
          PROVE  /\ incident'[i].status = "merged" <=> incident'[i].mergedInto # None
                 /\ incident'[i].mergedInto # None =>
                      /\ incident'[i].kind = "normal" /\ incident'[i].mergedInto \in Incidents
                      /\ incident'[incident'[i].mergedInto].kind = "storm"
                      /\ incident'[incident'[i].mergedInto].status # "absent"
                 /\ incident'[i].status \in {"analyzed", "escalated", "resolved"} =>
                      incident'[i].issue # "none"
      BY DEF QuietCase, Tables, Filed
    <2> QED BY <2>1, <2>2 DEF Filed
  <1>4. Tokened'
    BY DEF QuietCase, Tables, Tokened
  <1> QED BY <1>2, <1>3, <1>4 DEF Tables

-----------------------------------------------------------------------------
(* A new incident, with the message that opened it.                        *)

\* What the tables look like after s was opened, and merged the open normal
\* incidents if it is a storm.
Opening(m, s, kind) ==
    /\ incident[s].status = "absent"
    /\ delivery[m].status # "processing"
    /\ incident'[s].kind = kind
    /\ incident'[s].mergedInto = None /\ incident'[s].token = <<s, 1>>
    /\ delivery'[m].incident = s
    /\ \/ /\ incident'[s].status = "escalated" /\ incident'[s].issue # "none"
          /\ incident'[s].lease = "expired"
          /\ delivery'[m].status = "completed" /\ ~delivery'[m].owner
       \/ /\ incident'[s].status = "investigating" /\ incident'[s].lease = "live"
          /\ delivery'[m].status = "processing" /\ delivery'[m].owner
          /\ delivery'[m].token = <<s, 1>> /\ delivery'[m].lease = "live"
    /\ \A i \in Incidents \ {s} :
          IF kind = "storm" /\ i \in OpenNormals
          THEN /\ incident'[i].status = "merged" /\ incident'[i].mergedInto = s
               /\ incident'[i].token = <<s, 1>> /\ incident'[i].lease = "expired"
               /\ incident'[i].kind = incident[i].kind
          ELSE QuietCase(i)
    /\ \A n \in Messages \ {m} :
          IF kind = "storm" /\ delivery[n].status = "processing" /\ delivery[n].incident \in OpenNormals
          THEN /\ delivery'[n].status = "completed" /\ ~delivery'[n].owner
               /\ delivery'[n].incident = delivery[n].incident
          ELSE delivery'[n] = delivery[n]

LEMMA TablesOpening ==
    ASSUME Typed, Typed', Tables, NEW m \in Messages, NEW s \in Incidents,
           NEW kind \in {"normal", "storm"}, Opening(m, s, kind)
    PROVE  Tables'
  <1>0. /\ s # None /\ <<s, 1>> \in Incidents \X Nat
        /\ "storm" # "normal"
    BY TokenValues, AlertsConstants DEF Tokens
  <1>1. \A n \in Messages : delivery[n].owner => delivery[n].incident # s
    BY DEF Opening, Tables, Mirrored
  <1>2. \A n \in Messages \ {m} : delivery'[n].owner =>
           /\ delivery'[n] = delivery[n] /\ delivery[n].owner
           /\ delivery[n].incident \in Incidents \ {s}
           /\ QuietCase(delivery[n].incident)
    <2> SUFFICES ASSUME NEW n \in Messages \ {m}, delivery'[n].owner
                 PROVE  /\ delivery'[n] = delivery[n] /\ delivery[n].owner
                        /\ delivery[n].incident \in Incidents \ {s}
                        /\ QuietCase(delivery[n].incident)
      OBVIOUS
    <2>1. delivery'[n] = delivery[n]
      BY DEF Opening
    <2>2. delivery[n].status = "processing" /\ delivery[n].incident \in Incidents \ {s}
      BY <1>1, <2>1 DEF Tables, Mirrored
    <2>3. ~(kind = "storm" /\ delivery[n].incident \in OpenNormals)
      BY <2>1, <2>2 DEF Opening
    <2> QED BY <2>1, <2>2, <2>3 DEF Opening
  <1>3. Mirrored'
    <2>1. ASSUME NEW n \in Messages
          PROVE  delivery'[n].owner <=> delivery'[n].status = "processing"
      BY DEF Opening, Tables, Mirrored
    <2>2. ASSUME NEW n \in Messages, delivery'[n].owner
          PROVE  /\ delivery'[n].incident \in Incidents
                 /\ incident'[delivery'[n].incident].status = "investigating"
                 /\ delivery'[n].token = incident'[delivery'[n].incident].token
                 /\ delivery'[n].lease = incident'[delivery'[n].incident].lease
      <3>1. CASE n = m
        BY <2>2, <3>1 DEF Opening
      <3>2. CASE n # m
        BY <1>2, <2>2, <3>2 DEF Tables, Mirrored, QuietCase
      <3> QED BY <3>1, <3>2
    <2>3. ASSUME NEW x \in Messages, NEW n \in Messages, delivery'[x].owner,
                 delivery'[n].owner, x # n
          PROVE  delivery'[x].incident # delivery'[n].incident
      <3>1. delivery'[m].incident = s
        BY DEF Opening
      <3> QED BY <1>2, <2>3, <3>1 DEF Tables, Mirrored
    <2>4. ASSUME NEW i \in Incidents, incident'[i].status = "investigating"
          PROVE  \E n \in Messages : delivery'[n].owner /\ delivery'[n].incident = i
      <3>1. CASE i = s
        BY <2>4, <3>1 DEF Opening
      <3>2. CASE i # s
        <4>1. QuietCase(i) /\ ~(kind = "storm" /\ i \in OpenNormals)
          BY <2>4, <3>2 DEF Opening
        <4>2. PICK n \in Messages : delivery[n].owner /\ delivery[n].incident = i
          BY <2>4, <4>1 DEF Tables, Mirrored, QuietCase
        <4>3. n # m
          BY <4>2 DEF Opening, Tables, Mirrored
        <4> QED BY <4>1, <4>2, <4>3 DEF Opening
      <3> QED BY <3>1, <3>2
    <2> QED BY <2>1, <2>2, <2>3, <2>4 DEF Mirrored
  <1>4. \A i \in Incidents : incident[i].status # "absent" => incident'[i].status # "absent"
    BY DEF Opening, QuietCase
  <1>5. \A i \in Incidents : incident[i].kind = "storm" /\ incident[i].status # "absent" =>
           incident'[i].kind = "storm" /\ incident'[i].status # "absent"
    BY <1>4 DEF Opening, QuietCase
  <1>6. Filed'
    <2>1. ASSUME NEW n \in Messages, delivery'[n].status = "completed"
          PROVE  /\ delivery'[n].incident \in Incidents
                 /\ incident'[delivery'[n].incident].status # "absent"
      <3>1. CASE n = m
        BY <3>1 DEF Opening
      <3>2. CASE n # m /\ delivery'[n] = delivery[n]
        BY <1>4, <2>1, <3>2 DEF Tables, Filed
      <3>3. CASE n # m /\ delivery[n].status = "processing"
                 /\ delivery'[n].incident = delivery[n].incident
        BY <1>4, <3>3 DEF Tables, Mirrored
      <3> QED BY <3>1, <3>2, <3>3 DEF Opening
    <2>2. ASSUME NEW i \in Incidents
          PROVE  /\ incident'[i].status = "merged" <=> incident'[i].mergedInto # None
                 /\ incident'[i].mergedInto # None =>
                      /\ incident'[i].kind = "normal" /\ incident'[i].mergedInto \in Incidents
                      /\ incident'[incident'[i].mergedInto].kind = "storm"
                      /\ incident'[incident'[i].mergedInto].status # "absent"
                 /\ incident'[i].status \in {"analyzed", "escalated", "resolved"} =>
                      incident'[i].issue # "none"
      <3>1. CASE i = s
        BY <3>1 DEF Opening
      <3>2. CASE i # s /\ kind = "storm" /\ i \in OpenNormals
        <4>1. /\ incident'[i].status = "merged" /\ incident'[i].mergedInto = s
              /\ incident'[i].kind = incident[i].kind
          BY <3>2 DEF Opening
        <4>2. incident[i].kind = "normal"
          BY <3>2 DEF OpenNormals
        <4>3. incident'[s].kind = "storm" /\ incident'[s].status # "absent"
          BY <3>2 DEF Opening
        <4> QED BY <1>0, <4>1, <4>2, <4>3
      <3>3. CASE i # s /\ ~(kind = "storm" /\ i \in OpenNormals)
        <4>1. QuietCase(i)
          BY <3>3 DEF Opening
        <4> QED BY <1>5, <4>1 DEF QuietCase, Tables, Filed
      <3> QED BY <3>1, <3>2, <3>3
    <2> QED BY <2>1, <2>2 DEF Filed
  <1>7. Tokened'
    <2> SUFFICES ASSUME NEW i \in Incidents
                 PROVE  /\ incident'[i].token \in {None} \cup (Incidents \X Nat)
                        /\ incident'[i].status = "investigating" =>
                              \E n \in Nat : incident'[i].token = <<i, n>>
                        /\ incident'[i].lease = "live" => incident'[i].status = "investigating"
      BY DEF Tokened
    <2>1. CASE i = s
      BY <1>0, <2>1 DEF Opening
    <2>2. CASE i # s
      BY <1>0, <2>2 DEF Opening, QuietCase, Tables, Tokened
    <2> QED BY <2>1, <2>2
  <1> QED BY <1>3, <1>6, <1>7 DEF Tables

LEMMA NewFields ==
    ASSUME NEW s, NEW kind, NEW key, NEW status \in {"investigating", "escalated"}, NEW embedded
    PROVE  LET new == NewIncident(s, kind, key, status, embedded) IN
           /\ new.status = status /\ new.kind = kind /\ new.token = <<s, 1>>
           /\ new.mergedInto = None /\ new.alerts = 1
           /\ status = "investigating" => new.lease = "live"
           /\ status = "escalated" => new.lease = "expired" /\ new.issue = "pending"
  BY DEF NewIncident, NoIncident

Opened(s, kind, key, status, embedded) ==
    [incident EXCEPT ![s] = NewIncident(s, kind, key, status, embedded)]
WithRow(m, d) == [delivery EXCEPT ![m] = d]

\* The incidents after an opening.
LEMMA OpenedIncidents ==
    ASSUME Typed, NEW s \in Incidents, incident[s].status = "absent",
           NEW kind \in {"normal", "storm"}, NEW key \in Keys \cup Messages \cup {"storm"},
           NEW status \in {"investigating", "escalated"}, NEW embedded \in BOOLEAN,
           \/ kind = "normal" /\ incident' = Opened(s, kind, key, status, embedded)
           \/ kind = "storm" /\ incident' = MergeInto(Opened(s, kind, key, status, embedded), s)
           \/ /\ kind = "storm"
              /\ incident' = CloseMerged(MergeInto(Opened(s, kind, key, status, embedded), s), s)
    PROVE  /\ incident'[s].kind = kind /\ incident'[s].mergedInto = None
           /\ incident'[s].token = <<s, 1>> /\ incident'[s].status = status
           /\ status = "investigating" => incident'[s].lease = "live"
           /\ status = "escalated" => incident'[s].lease = "expired" /\ incident'[s].issue = "pending"
           /\ \A i \in Incidents \ {s} :
                 IF kind = "storm" /\ i \in OpenNormals
                 THEN /\ incident'[i].status = "merged" /\ incident'[i].mergedInto = s
                      /\ incident'[i].token = <<s, 1>> /\ incident'[i].lease = "expired"
                      /\ incident'[i].kind = incident[i].kind
                 ELSE QuietCase(i)
  <1> DEFINE opened == Opened(s, kind, key, status, embedded)
             merged == MergeInto(opened, s)
  <1>1. NewIncident(s, kind, key, status, embedded) \in IncidentRecords
    BY IncidentValues DEF Typed
  <1>2. /\ opened \in [Incidents -> IncidentRecords]
        /\ opened[s] = NewIncident(s, kind, key, status, embedded)
        /\ \A i \in Incidents \ {s} : opened[i] = incident[i]
    BY <1>1 DEF Typed, Opened
  <1>3. MergeInto(opened, s) \in [Incidents -> IncidentRecords]
    BY <1>2, MergeTypes
  <1>m. \A i \in Incidents :
           /\ opened[i].kind = "normal" /\ opened[i].status \in {"investigating", "analyzed", "escalated"} =>
                 /\ merged[i].status = "merged" /\ merged[i].mergedInto = s
                 /\ merged[i].token = <<s, 1>> /\ merged[i].lease = "expired"
                 /\ merged[i].kind = opened[i].kind
           /\ ~(opened[i].kind = "normal" /\ opened[i].status \in {"investigating", "analyzed", "escalated"}) =>
                 merged[i] = opened[i]
    <2> SUFFICES ASSUME NEW i \in Incidents
                 PROVE  /\ opened[i].kind = "normal" /\ opened[i].status \in {"investigating", "analyzed", "escalated"} =>
                              /\ merged[i].status = "merged" /\ merged[i].mergedInto = s
                              /\ merged[i].token = <<s, 1>> /\ merged[i].lease = "expired"
                              /\ merged[i].kind = opened[i].kind
                        /\ ~(opened[i].kind = "normal" /\ opened[i].status \in {"investigating", "analyzed", "escalated"}) =>
                              merged[i] = opened[i]
      OBVIOUS
    <2>1. opened[i] \in IncidentRecords
      BY <1>2
    <2> QED BY ONLY <2>1 DEF MergeInto, IncidentRecords
  <1>c. \A i \in Incidents :
           /\ CloseMerged(merged, s)[i].status = merged[i].status
           /\ CloseMerged(merged, s)[i].kind = merged[i].kind
           /\ CloseMerged(merged, s)[i].mergedInto = merged[i].mergedInto
           /\ CloseMerged(merged, s)[i].token = merged[i].token
           /\ CloseMerged(merged, s)[i].lease = merged[i].lease
           /\ CloseMerged(merged, s)[i].issue = merged[i].issue
    <2> SUFFICES ASSUME NEW i \in Incidents
                 PROVE  /\ CloseMerged(merged, s)[i].status = merged[i].status
                        /\ CloseMerged(merged, s)[i].kind = merged[i].kind
                        /\ CloseMerged(merged, s)[i].mergedInto = merged[i].mergedInto
                        /\ CloseMerged(merged, s)[i].token = merged[i].token
                        /\ CloseMerged(merged, s)[i].lease = merged[i].lease
                        /\ CloseMerged(merged, s)[i].issue = merged[i].issue
      OBVIOUS
    <2> HIDE DEF merged
    <2>1. merged[i] \in IncidentRecords
      BY <1>3 DEF merged
    <2> QED BY ONLY <2>1 DEF CloseMerged, IncidentRecords
  <1>r. \/ kind = "normal" /\ incident' = opened
        \/ kind = "storm" /\ incident' = merged
        \/ kind = "storm" /\ incident' = CloseMerged(merged, s)
    OBVIOUS
  <1> HIDE DEF merged, opened
  <1>4. \A i \in Incidents :
           /\ kind = "normal" => incident'[i] = opened[i]
           /\ kind = "storm" =>
                 /\ incident'[i].status = merged[i].status
                 /\ incident'[i].kind = merged[i].kind
                 /\ incident'[i].mergedInto = merged[i].mergedInto
                 /\ incident'[i].token = merged[i].token
                 /\ incident'[i].lease = merged[i].lease
                 /\ incident'[i].issue = merged[i].issue
    BY <1>c, <1>r
  <1>5. /\ opened[s].status = status /\ opened[s].kind = kind /\ opened[s].token = <<s, 1>>
        /\ opened[s].mergedInto = None
        /\ status = "investigating" => opened[s].lease = "live"
        /\ status = "escalated" => opened[s].lease = "expired" /\ opened[s].issue = "pending"
    BY <1>2, NewFields
  <1>6. kind = "storm" => merged[s] = opened[s]
    BY <1>5, <1>m
  <1>7. ASSUME NEW i \in Incidents \ {s}
        PROVE  IF kind = "storm" /\ i \in OpenNormals
               THEN /\ incident'[i].status = "merged" /\ incident'[i].mergedInto = s
                    /\ incident'[i].token = <<s, 1>> /\ incident'[i].lease = "expired"
                    /\ incident'[i].kind = incident[i].kind
               ELSE QuietCase(i)
    <2>1. i \in OpenNormals <=>
             opened[i].kind = "normal" /\ opened[i].status \in {"investigating", "analyzed", "escalated"}
      BY <1>2 DEF OpenNormals, Open
    <2>2. CASE kind = "normal"
      BY <1>2, <1>4, <2>2 DEF QuietCase
    <2>3. CASE kind = "storm" /\ i \in OpenNormals
      BY <1>2, <1>4, <1>m, <2>1, <2>3
    <2>4. CASE kind = "storm" /\ i \notin OpenNormals
      <3>1. merged[i] = incident[i]
        BY <1>2, <1>m, <2>1, <2>4
      <3> QED BY <1>4, <2>4, <3>1 DEF QuietCase
    <2> QED BY <2>2, <2>3, <2>4
  <1> QED BY <1>4, <1>5, <1>6, <1>7

LEMMA RowFields ==
    ASSUME Typed, NEW m \in Messages, NEW i \in Incidents
    PROVE  /\ Attached(m, i).status = "completed" /\ Attached(m, i).incident = i
           /\ ~Attached(m, i).owner /\ Attached(m, i).masked = delivery[m].masked
           /\ \A n : /\ Owned(m, i, n).status = "processing" /\ Owned(m, i, n).incident = i
                     /\ Owned(m, i, n).owner /\ Owned(m, i, n).token = <<i, n>>
                     /\ Owned(m, i, n).lease = "live"
                     /\ Owned(m, i, n).masked = delivery[m].masked
  <1>1. delivery[m] \in DeliveryRecords
    BY DEF Typed, Deliveries
  <1> QED BY <1>1 DEF Attached, Owned, DeliveryRecords

LEMMA RelievedFields ==
    ASSUME NEW d \in [Messages -> Deliveries], NEW s, NEW n \in Messages
    PROVE  /\ Relieved(d, s)[n].masked = d[n].masked
           /\ d[n].status = "processing" /\ d[n].owner /\ d[n].incident \in OpenNormals =>
                 /\ Relieved(d, s)[n].status = "completed" /\ ~Relieved(d, s)[n].owner
                 /\ Relieved(d, s)[n].incident = d[n].incident
           /\ ~(d[n].status = "processing" /\ d[n].owner /\ d[n].incident \in OpenNormals) =>
                 Relieved(d, s)[n] = d[n]
  <1>1. d[n] \in DeliveryRecords
    BY DEF Deliveries
  <1> QED BY <1>1 DEF Relieved, DeliveryRecords

\* The deliveries after an opening.
LEMMA OpenedRows ==
    ASSUME Typed, Tables, NEW m \in Messages, NEW s \in Incidents, NEW d \in Deliveries,
           NEW kind \in {"normal", "storm"},
           \/ d.status = "completed"
           \/ d.status = "processing" /\ delivery' = [Relieved(delivery, s) EXCEPT ![m] = d]
           \/ kind = "normal",
           \/ kind = "normal" /\ delivery' = WithRow(m, d)
           \/ kind = "storm" /\ delivery' = Relieved(WithRow(m, d), s)
           \/ kind = "storm" /\ delivery' = [Relieved(delivery, s) EXCEPT ![m] = d]
    PROVE  /\ delivery'[m] = d
           /\ \A n \in Messages \ {m} :
                 /\ delivery'[n].masked = delivery[n].masked
                 /\ IF kind = "storm" /\ delivery[n].status = "processing" /\ delivery[n].incident \in OpenNormals
                    THEN /\ delivery'[n].status = "completed" /\ ~delivery'[n].owner
                         /\ delivery'[n].incident = delivery[n].incident
                    ELSE delivery'[n] = delivery[n]
  <1>1. delivery \in [Messages -> Deliveries] /\ WithRow(m, d) \in [Messages -> Deliveries]
    BY DEF Typed, WithRow
  <1>2. \A n \in Messages : delivery[n].status = "processing" => delivery[n].owner
    BY DEF Tables, Mirrored
  <1>3. CASE kind = "normal" /\ delivery' = WithRow(m, d)
    BY <1>1, <1>3 DEF WithRow
  <1>4. CASE kind = "storm" /\ delivery' = [Relieved(delivery, s) EXCEPT ![m] = d]
    <2>1. delivery'[m] = d
      BY <1>1, <1>4 DEF Relieved
    <2>2. \A n \in Messages \ {m} : delivery'[n] = Relieved(delivery, s)[n]
      BY <1>4 DEF Relieved
    <2>r. \A n \in Messages \ {m} :
             /\ delivery'[n].masked = delivery[n].masked
             /\ delivery[n].status = "processing" /\ delivery[n].owner /\ delivery[n].incident \in OpenNormals =>
                   /\ delivery'[n].status = "completed" /\ ~delivery'[n].owner
                   /\ delivery'[n].incident = delivery[n].incident
             /\ ~(delivery[n].status = "processing" /\ delivery[n].owner /\ delivery[n].incident \in OpenNormals) =>
                   delivery'[n] = delivery[n]
      BY <1>1, <2>2, RelievedFields
    <2> QED BY <1>2, <1>4, <2>1, <2>r
  <1>5. CASE kind = "storm" /\ d.status = "completed" /\ delivery' = Relieved(WithRow(m, d), s)
    <2> DEFINE e == WithRow(m, d)
    <2>1. e[m] = d /\ \A n \in Messages \ {m} : e[n] = delivery[n]
      BY <1>1 DEF WithRow
    <2>2. e \in [Messages -> Deliveries] /\ delivery' = Relieved(e, s)
      BY <1>1, <1>5
    <2> HIDE DEF e
    <2>r. \A n \in Messages :
             /\ delivery'[n].masked = e[n].masked
             /\ e[n].status = "processing" /\ e[n].owner /\ e[n].incident \in OpenNormals =>
                   /\ delivery'[n].status = "completed" /\ ~delivery'[n].owner
                   /\ delivery'[n].incident = e[n].incident
             /\ ~(e[n].status = "processing" /\ e[n].owner /\ e[n].incident \in OpenNormals) =>
                   delivery'[n] = e[n]
      BY <2>2, RelievedFields
    <2>3. delivery'[m] = d
      BY <1>5, <2>1, <2>r
    <2> QED BY <1>2, <1>5, <2>1, <2>r, <2>3
  <1> QED BY <1>3, <1>4, <1>5

\* _escalate_in_transaction opens.
LEMMA EscalateOpens ==
    ASSUME Typed, Tables, NEW q \in Requests, NEW m, m = On(q), m \in Messages,
           delivery[m].status # "processing",
           NEW kind \in {"normal", "storm"}, NEW key \in Keys \cup Messages \cup {"storm"},
           NEW embedded \in BOOLEAN, Escalate(q, kind, key, embedded)
    PROVE  \E s \in Incidents : /\ Opening(m, s, kind)
                                /\ delivery'[m].masked = delivery[m].masked
                                /\ delivery'[m].status = "completed"
                                /\ \A n \in Messages \ {m} : delivery'[n].masked = delivery[n].masked
                                /\ Done(q) /\ incident[s].status = "absent"
                                /\ \/ /\ kind = "normal"
                                      /\ incident' = Opened(s, kind, key, "escalated", embedded)
                                   \/ /\ kind = "storm"
                                      /\ incident' = CloseMerged(MergeInto(
                                            Opened(s, kind, key, "escalated", embedded), s), s)
  <1>1. PICK s \in Incidents :
           LET opened == [incident EXCEPT ![s] = NewIncident(s, kind, key, "escalated", embedded)]
               attached == [delivery EXCEPT ![m] = Attached(m, s)]
           IN /\ incident[s].status = "absent"
              /\ incident' = IF kind = "storm" THEN CloseMerged(MergeInto(opened, s), s) ELSE opened
              /\ delivery' = IF kind = "storm" THEN Relieved(attached, s) ELSE attached
              /\ Done(q)
    BY DEF Escalate
  <1> DEFINE d == Attached(m, s)
  <1>2. /\ d \in Deliveries /\ d.status = "completed" /\ ~d.owner
        /\ d.incident = s /\ d.masked = delivery[m].masked
    <2>1. d \in Deliveries
      BY DeliveryValues DEF Typed
    <2> QED BY <2>1, RowFields
  <1>3. \/ kind = "normal" /\ delivery' = WithRow(m, d)
        \/ kind = "storm" /\ delivery' = Relieved(WithRow(m, d), s)
    BY <1>1 DEF WithRow
  <1> HIDE DEF d
  <1>4. /\ delivery'[m] = d
        /\ \A n \in Messages \ {m} :
              /\ delivery'[n].masked = delivery[n].masked
              /\ IF kind = "storm" /\ delivery[n].status = "processing" /\ delivery[n].incident \in OpenNormals
                 THEN /\ delivery'[n].status = "completed" /\ ~delivery'[n].owner
                      /\ delivery'[n].incident = delivery[n].incident
                 ELSE delivery'[n] = delivery[n]
    BY <1>2, <1>3, OpenedRows
  <1> DEFINE opened == Opened(s, kind, key, "escalated", embedded)
  <1>a. /\ "escalated" \in {"investigating", "escalated"} /\ incident[s].status = "absent"
        /\ \/ kind = "normal" /\ incident' = opened
           \/ kind = "storm" /\ incident' = CloseMerged(MergeInto(opened, s), s)
    BY <1>1 DEF Opened
  <1>5. /\ incident'[s].kind = kind /\ incident'[s].mergedInto = None
        /\ incident'[s].token = <<s, 1>> /\ incident'[s].status = "escalated"
        /\ incident'[s].lease = "expired" /\ incident'[s].issue = "pending"
        /\ \A i \in Incidents \ {s} :
              IF kind = "storm" /\ i \in OpenNormals
              THEN /\ incident'[i].status = "merged" /\ incident'[i].mergedInto = s
                   /\ incident'[i].token = <<s, 1>> /\ incident'[i].lease = "expired"
                   /\ incident'[i].kind = incident[i].kind
              ELSE QuietCase(i)
    BY <1>a, OpenedIncidents
  <1>6. Opening(m, s, kind)
    BY <1>a, <1>2, <1>4, <1>5 DEF Opening
  <1>7. /\ Opening(m, s, kind) /\ delivery'[m].masked = delivery[m].masked
        /\ delivery'[m].status = "completed"
        /\ \A n \in Messages \ {m} : delivery'[n].masked = delivery[n].masked
        /\ Done(q)
    BY <1>1, <1>2, <1>4, <1>6
  <1> QED BY <1>a, <1>7

\* An investigation opened by SimilarOrNew or DeclareStorm.
LEMMA OwnerOpens ==
    ASSUME Typed, Tables, NEW m \in Messages, delivery[m].status # "processing",
           NEW s \in Incidents, incident[s].status = "absent",
           NEW kind \in {"normal", "storm"}, NEW key \in Keys \cup Messages \cup {"storm"},
           \/ /\ kind = "normal" /\ incident' = Opened(s, kind, key, "investigating", TRUE)
              /\ delivery' = [delivery EXCEPT ![m] = Owned(m, s, 1)]
           \/ /\ kind = "storm"
              /\ incident' = MergeInto(Opened(s, kind, key, "investigating", TRUE), s)
              /\ delivery' = [Relieved(delivery, s) EXCEPT ![m] = Owned(m, s, 1)]
    PROVE  /\ Opening(m, s, kind)
           /\ delivery'[m].masked = delivery[m].masked
           /\ \A n \in Messages \ {m} : delivery'[n].masked = delivery[n].masked
  <1> DEFINE d == Owned(m, s, 1)
  <1>2. /\ d \in Deliveries /\ d.status = "processing" /\ d.owner /\ d.token = <<s, 1>>
        /\ d.lease = "live" /\ d.incident = s /\ d.masked = delivery[m].masked
    <2>1. d \in Deliveries
      BY DeliveryValues, TokenValues DEF Typed
    <2> QED BY <2>1, RowFields
  <1>3. \/ kind = "normal" /\ delivery' = WithRow(m, d)
        \/ kind = "storm" /\ delivery' = [Relieved(delivery, s) EXCEPT ![m] = d]
    BY DEF WithRow
  <1> HIDE DEF d
  <1>4. /\ delivery'[m] = d
        /\ \A n \in Messages \ {m} :
              /\ delivery'[n].masked = delivery[n].masked
              /\ IF kind = "storm" /\ delivery[n].status = "processing" /\ delivery[n].incident \in OpenNormals
                 THEN /\ delivery'[n].status = "completed" /\ ~delivery'[n].owner
                      /\ delivery'[n].incident = delivery[n].incident
                 ELSE delivery'[n] = delivery[n]
    BY <1>2, <1>3, OpenedRows
  <1>a. "investigating" \in {"investigating", "escalated"} /\ TRUE \in BOOLEAN
    OBVIOUS
  <1>5. /\ incident'[s].kind = kind /\ incident'[s].mergedInto = None
        /\ incident'[s].token = <<s, 1>> /\ incident'[s].status = "investigating"
        /\ incident'[s].lease = "live"
        /\ \A i \in Incidents \ {s} :
              IF kind = "storm" /\ i \in OpenNormals
              THEN /\ incident'[i].status = "merged" /\ incident'[i].mergedInto = s
                   /\ incident'[i].token = <<s, 1>> /\ incident'[i].lease = "expired"
                   /\ incident'[i].kind = incident[i].kind
              ELSE QuietCase(i)
    BY <1>a, OpenedIncidents, ZenonT(60)
  <1>6. Opening(m, s, kind)
    BY <1>2, <1>4, <1>5 DEF Opening
  <1> QED BY <1>2, <1>4, <1>6

-----------------------------------------------------------------------------
(* The owner's own steps, and what happens to an incident around it.       *)

\* The owner m of i ends the investigation, or stays its owner under the token
\* and the lease that are on both rows.
OwnerStep(m, i) ==
    /\ delivery[m].owner /\ delivery[m].incident = i
    /\ \A n \in Messages \ {m} : delivery'[n] = delivery[n]
    /\ \A j \in Incidents \ {i} : QuietCase(j)
    /\ delivery'[m].incident = i
    /\ incident'[i].kind = incident[i].kind /\ incident'[i].mergedInto = incident[i].mergedInto
    /\ \/ /\ incident'[i].status \in {"analyzed", "escalated"} /\ incident'[i].issue # "none"
          /\ incident'[i].token = incident[i].token /\ incident'[i].lease = "expired"
          /\ delivery'[m].status = "completed" /\ ~delivery'[m].owner
       \/ /\ incident'[i].status = "investigating"
          /\ \E n \in Nat : incident'[i].token = <<i, n>>
          /\ delivery'[m].status = "processing" /\ delivery'[m].owner
          /\ delivery'[m].token = incident'[i].token /\ delivery'[m].lease = incident'[i].lease

LEMMA TablesOwnerStep ==
    ASSUME Typed, Typed', Tables, NEW m \in Messages, NEW i \in Incidents, OwnerStep(m, i)
    PROVE  Tables'
  <1>0. incident[i].status = "investigating"
    BY DEF OwnerStep, Tables, Mirrored
  <1>1. \A n \in Messages \ {m} : delivery[n].owner =>
           delivery[n].incident \in Incidents \ {i} /\ QuietCase(delivery[n].incident)
    BY DEF OwnerStep, Tables, Mirrored
  <1>2. Mirrored'
    <2>1. ASSUME NEW n \in Messages
          PROVE  delivery'[n].owner <=> delivery'[n].status = "processing"
      BY DEF OwnerStep, Tables, Mirrored
    <2>2. ASSUME NEW n \in Messages, delivery'[n].owner
          PROVE  /\ delivery'[n].incident \in Incidents
                 /\ incident'[delivery'[n].incident].status = "investigating"
                 /\ delivery'[n].token = incident'[delivery'[n].incident].token
                 /\ delivery'[n].lease = incident'[delivery'[n].incident].lease
      <3>1. CASE n = m
        BY <2>2, <3>1 DEF OwnerStep
      <3>2. CASE n # m
        <4>1. delivery'[n] = delivery[n] /\ delivery[n].owner
          BY <2>2, <3>2 DEF OwnerStep
        <4> QED BY <1>1, <3>2, <4>1 DEF Tables, Mirrored, QuietCase
      <3> QED BY <3>1, <3>2
    <2>3. \A x, n \in Messages : delivery'[x].owner /\ delivery'[n].owner /\ x # n
             => delivery'[x].incident # delivery'[n].incident
      BY DEF OwnerStep, Tables, Mirrored
    <2>4. ASSUME NEW j \in Incidents, incident'[j].status = "investigating"
          PROVE  \E n \in Messages : delivery'[n].owner /\ delivery'[n].incident = j
      <3>1. CASE j = i
        BY <2>4, <3>1 DEF OwnerStep
      <3>2. CASE j # i
        <4>1. PICK n \in Messages : delivery[n].owner /\ delivery[n].incident = j
          BY <2>4, <3>2 DEF OwnerStep, QuietCase, Tables, Mirrored
        <4>2. n # m
          BY <3>2, <4>1 DEF OwnerStep
        <4> QED BY <4>1, <4>2 DEF OwnerStep
      <3> QED BY <3>1, <3>2
    <2> QED BY <2>1, <2>2, <2>3, <2>4 DEF Mirrored
  <1>3. \A j \in Incidents : /\ incident[j].status # "absent" => incident'[j].status # "absent"
                             /\ incident'[j].kind = incident[j].kind
                             /\ incident'[j].mergedInto = incident[j].mergedInto
    BY DEF OwnerStep, QuietCase
  <1>4. Filed'
    <2>1. ASSUME NEW n \in Messages, delivery'[n].status = "completed"
          PROVE  /\ delivery'[n].incident \in Incidents
                 /\ incident'[delivery'[n].incident].status # "absent"
      <3>1. CASE n = m
        BY <1>0, <1>3, <3>1 DEF OwnerStep
      <3>2. CASE n # m
        BY <1>3, <2>1, <3>2 DEF OwnerStep, Tables, Filed
      <3> QED BY <3>1, <3>2
    <2>2. ASSUME NEW j \in Incidents
          PROVE  /\ incident'[j].status = "merged" <=> incident'[j].mergedInto # None
                 /\ incident'[j].status \in {"analyzed", "escalated", "resolved"} =>
                      incident'[j].issue # "none"
      <3>1. CASE j = i
        <4>1. incident[i].mergedInto = None
          BY <1>0 DEF Tables, Filed
        <4> QED BY <3>1, <4>1 DEF OwnerStep
      <3>2. CASE j # i
        BY <3>2 DEF OwnerStep, QuietCase, Tables, Filed
      <3> QED BY <3>1, <3>2
    <2>3. ASSUME NEW j \in Incidents, incident'[j].mergedInto # None
          PROVE  /\ incident'[j].kind = "normal" /\ incident'[j].mergedInto \in Incidents
                 /\ incident'[incident'[j].mergedInto].kind = "storm"
                 /\ incident'[incident'[j].mergedInto].status # "absent"
      BY <1>3, <2>3 DEF Tables, Filed
    <2> QED BY <2>1, <2>2, <2>3 DEF Filed
  <1>5. Tokened'
    <2> SUFFICES ASSUME NEW j \in Incidents
                 PROVE  /\ incident'[j].token \in {None} \cup (Incidents \X Nat)
                        /\ incident'[j].status = "investigating" =>
                              \E n \in Nat : incident'[j].token = <<j, n>>
                        /\ incident'[j].lease = "live" => incident'[j].status = "investigating"
      BY DEF Tokened
    <2>1. CASE j = i
      <3>1. CASE /\ incident'[i].status \in {"analyzed", "escalated"}
                 /\ incident'[i].token = incident[i].token /\ incident'[i].lease = "expired"
        BY <2>1, <3>1 DEF Tables, Tokened
      <3>2. CASE /\ incident'[i].status = "investigating"
                 /\ \E n \in Nat : incident'[i].token = <<i, n>>
        <4>1. PICK n \in Nat : incident'[i].token = <<i, n>>
          BY <3>2
        <4>2. <<i, n>> \in Incidents \X Nat
          OBVIOUS
        <4> QED BY <2>1, <3>2, <4>1, <4>2
      <3> QED BY <3>1, <3>2 DEF OwnerStep
    <2>2. CASE j # i
      BY <2>2 DEF OwnerStep, QuietCase, Tables, Tokened
    <2> QED BY <2>1, <2>2
  <1> QED BY <1>2, <1>4, <1>5 DEF Tables

LEMMA ExpiredFields ==
    ASSUME Typed, NEW i \in Incidents, OwnerLeaseExpires(i)
    PROVE  /\ incident'[i].lease = "expired" /\ incident'[i].status = incident[i].status
           /\ incident'[i].token = incident[i].token /\ incident'[i].kind = incident[i].kind
           /\ incident'[i].mergedInto = incident[i].mergedInto
           /\ incident'[i].issue = incident[i].issue
           /\ \A j \in Incidents \ {i} : incident'[j] = incident[j]
           /\ \A m \in Messages :
                 /\ delivery'[m].status = delivery[m].status /\ delivery'[m].owner = delivery[m].owner
                 /\ delivery'[m].incident = delivery[m].incident
                 /\ delivery'[m].token = delivery[m].token
                 /\ delivery'[m].masked = delivery[m].masked
                 /\ delivery[m].token = incident[i].token /\ delivery[m].lease = "live" =>
                       delivery'[m].lease = "expired"
                 /\ delivery[m].token # incident[i].token => delivery'[m] = delivery[m]
  <1>1. incident[i] \in IncidentRecords /\ incident \in [Incidents -> IncidentRecords]
    BY DEF Typed
  <1>2. incident' = [incident EXCEPT ![i] = [incident[i] EXCEPT !.lease = "expired"]]
    BY <1>1 DEF OwnerLeaseExpires
  <1>3. ASSUME NEW m \in Messages
        PROVE  /\ delivery'[m].status = delivery[m].status /\ delivery'[m].owner = delivery[m].owner
               /\ delivery'[m].incident = delivery[m].incident
               /\ delivery'[m].token = delivery[m].token
               /\ delivery'[m].masked = delivery[m].masked
               /\ delivery[m].token = incident[i].token /\ delivery[m].lease = "live" =>
                     delivery'[m].lease = "expired"
               /\ delivery[m].token # incident[i].token => delivery'[m] = delivery[m]
    <2>1. delivery[m] \in DeliveryRecords
      BY DEF Typed, Deliveries
    <2>2. delivery'[m] = IF delivery[m].token = incident[i].token /\ delivery[m].lease = "live"
                         THEN [delivery[m] EXCEPT !.lease = "expired"] ELSE delivery[m]
      BY DEF OwnerLeaseExpires
    <2> QED BY ONLY <2>1, <2>2 DEF DeliveryRecords
  <1> QED BY <1>1, <1>2, <1>3 DEF IncidentRecords

LEMMA TablesOwnerLease ==
    ASSUME Typed, Typed', Tables, NEW i \in Incidents, OwnerLeaseExpires(i)
    PROVE  Tables'
  <1>0. incident[i].lease = "live" /\ incident[i].status = "investigating"
    BY DEF OwnerLeaseExpires, Tables, Tokened
  <1>f. /\ incident'[i].lease = "expired" /\ incident'[i].status = incident[i].status
        /\ incident'[i].token = incident[i].token /\ incident'[i].kind = incident[i].kind
        /\ incident'[i].mergedInto = incident[i].mergedInto
        /\ incident'[i].issue = incident[i].issue
        /\ \A j \in Incidents \ {i} : incident'[j] = incident[j]
        /\ \A m \in Messages :
              /\ delivery'[m].status = delivery[m].status /\ delivery'[m].owner = delivery[m].owner
              /\ delivery'[m].incident = delivery[m].incident
              /\ delivery'[m].token = delivery[m].token
              /\ delivery[m].token = incident[i].token /\ delivery[m].lease = "live" =>
                    delivery'[m].lease = "expired"
              /\ delivery[m].token # incident[i].token => delivery'[m] = delivery[m]
    BY ExpiredFields
  <1>1. \A j \in Incidents : /\ incident'[j].status = incident[j].status
                             /\ incident'[j].kind = incident[j].kind
                             /\ incident'[j].token = incident[j].token
                             /\ incident'[j].mergedInto = incident[j].mergedInto
                             /\ incident'[j].issue = incident[j].issue
    BY <1>f
  <1>2. ASSUME NEW m \in Messages, delivery'[m].owner
        PROVE  delivery'[m].lease = incident'[delivery'[m].incident].lease
    <2>1. /\ delivery[m].owner /\ delivery'[m].incident = delivery[m].incident
          /\ delivery[m].incident \in Incidents
          /\ delivery[m].token = incident[delivery[m].incident].token
          /\ delivery[m].lease = incident[delivery[m].incident].lease
          /\ incident[delivery[m].incident].status = "investigating"
      BY <1>f, <1>2 DEF Tables, Mirrored
    <2>2. CASE delivery[m].incident = i
      BY <1>0, <1>f, <2>1, <2>2
    <2>3. CASE delivery[m].incident # i
      <3>1. delivery[m].token # incident[i].token
        BY <1>0, <2>1, <2>3 DEF Tables, Tokened
      <3>2. delivery'[m] = delivery[m]
        BY <1>f, <3>1
      <3>3. incident'[delivery[m].incident] = incident[delivery[m].incident]
        BY <1>f, <2>1, <2>3
      <3> QED BY <2>1, <3>2, <3>3
    <2> QED BY <2>2, <2>3
  <1>3. Mirrored'
    <2>1. \A m \in Messages : delivery'[m].owner <=> delivery'[m].status = "processing"
      BY <1>f DEF Tables, Mirrored
    <2>2. ASSUME NEW m \in Messages, delivery'[m].owner
          PROVE  /\ delivery'[m].incident \in Incidents
                 /\ incident'[delivery'[m].incident].status = "investigating"
                 /\ delivery'[m].token = incident'[delivery'[m].incident].token
      BY <1>1, <1>f, <2>2 DEF Tables, Mirrored
    <2>3. \A m, n \in Messages : delivery'[m].owner /\ delivery'[n].owner /\ m # n
             => delivery'[m].incident # delivery'[n].incident
      BY <1>f DEF Tables, Mirrored
    <2>4. ASSUME NEW j \in Incidents, incident'[j].status = "investigating"
          PROVE  \E m \in Messages : delivery'[m].owner /\ delivery'[m].incident = j
      BY <1>1, <1>f, <2>4 DEF Tables, Mirrored
    <2> QED BY <1>2, <2>1, <2>2, <2>3, <2>4 DEF Mirrored
  <1>4. Filed'
    <2>1. \A m \in Messages : /\ delivery'[m].status = delivery[m].status
                              /\ delivery'[m].incident = delivery[m].incident
      BY <1>f
    <2> QED BY <1>1, <2>1 DEF Tables, Filed
  <1>5. Tokened'
    <2>1. \A j \in Incidents : incident'[j].lease = "live" => incident[j].lease = "live"
      BY <1>f
    <2> QED BY <1>1, <2>1 DEF Tables, Tokened
  <1> QED BY <1>3, <1>4, <1>5 DEF Tables

LEMMA TablesReview ==
    ASSUME Typed, Typed', Tables, NEW i \in Incidents, ReviewIncident(i)
    PROVE  Tables'
  <1>1. /\ incident'[i].status = "resolved" /\ incident'[i].kind = incident[i].kind
        /\ incident'[i].mergedInto = incident[i].mergedInto /\ incident'[i].token = None
        /\ incident'[i].lease = "expired" /\ incident'[i].issue = incident[i].issue
        /\ incident[i].status \in {"analyzed", "escalated"}
        /\ \A j \in Incidents \ {i} : incident'[j] = incident[j]
        /\ delivery' = delivery
    <2>1. incident[i] \in IncidentRecords /\ incident \in [Incidents -> IncidentRecords]
      BY DEF Typed
    <2>2. incident' = [incident EXCEPT ![i] =
             [incident[i] EXCEPT !.status = "resolved", !.token = None, !.lease = "expired"]]
      BY <2>1 DEF ReviewIncident
    <2> QED BY <2>1, <2>2 DEF ReviewIncident, IncidentRecords
  <1>2. \A m \in Messages : delivery[m].owner => delivery[m].incident # i
    BY <1>1 DEF Tables, Mirrored
  <1>3. Mirrored'
    BY <1>1, <1>2 DEF Tables, Mirrored
  <1>4. Filed'
    <2>1. \A j \in Incidents : /\ incident'[j].kind = incident[j].kind
                               /\ incident'[j].mergedInto = incident[j].mergedInto
                               /\ incident'[j].issue = incident[j].issue
                               /\ incident'[j].status = "absent" <=> incident[j].status = "absent"
                               /\ incident'[j].status = "merged" <=> incident[j].status = "merged"
                               /\ incident'[j].status \in {"analyzed", "escalated", "resolved"} <=>
                                     incident[j].status \in {"analyzed", "escalated", "resolved"}
      BY <1>1
    <2> QED BY <1>1, <2>1 DEF Tables, Filed
  <1>5. Tokened'
    BY <1>1 DEF Tables, Tokened
  <1> QED BY <1>3, <1>4, <1>5 DEF Tables

-----------------------------------------------------------------------------
(* The requests in progress.                                               *)

MaskedStages == {"triage", "storm", "resume", "reserve", "embed", "calling",
                 "post", "l4", "declare"}

\* What a request may rely on when it takes its next step: past masking its
\* row is masked; an embedding call runs under the row's own token and lease,
\* unless another request completed the row; whoever read an incident to
\* aggregate holds the locks; an owner's redelivery is on its incident.
StageOK(q) ==
    LET r == request[q]
        d == delivery[r.msg]
    IN /\ r.stage \in MaskedStages => d.masked
       /\ r.stage = "calling" =>
             \/ d.status = "completed"
             \/ /\ d.status = "embedding" /\ d.lease = "live" /\ d.token = r.token
                /\ d.token \in Messages \X Nat
       /\ r.stage = "aggregate" =>
             d.status # "processing" /\ incident[r.incident].status # "absent"
       /\ r.stage = "owner" =>
             /\ d.status \in {"processing", "completed"}
             /\ d.status = "processing" => d.incident = r.incident

MaskedRows == \A m \in Messages :
    /\ delivery[m].status \in {"embedding", "processing"} => delivery[m].masked
    /\ delivery[m].status = "absent" => ~delivery[m].masked

Calling(q, m) == request[q].stage = "calling" /\ request[q].msg = m

\* One embedding call at a time.
Alone == \A p, q \in Requests, m \in Messages :
    p # q /\ Calling(p, m) /\ Calling(q, m) => delivery[m].status = "completed"

Answered == \A m \in answered : delivery[m].status = "completed"

RequestsOK == \A q \in Requests : StageOK(q)

Requested == MaskedRows /\ RequestsOK /\ Alone /\ Answered

\* A row never goes back behind what a request may have read of it.
RowOnward(m) ==
    /\ delivery[m].masked => delivery'[m].masked
    /\ delivery[m].status = "completed" => delivery'[m].status = "completed"
    /\ delivery[m].status = "processing" =>
          \/ delivery'[m].status = "completed"
          \/ delivery'[m].status = "processing" /\ delivery'[m].incident = delivery[m].incident
    /\ delivery'[m].status = "processing" => delivery[m].status = "processing" \/ ScopeFree
    /\ delivery'[m].status \in {"embedding", "processing"} => delivery'[m].masked
    /\ delivery'[m].status = "absent" => ~delivery'[m].masked

Onward ==
    /\ \A m \in Messages : RowOnward(m)
    /\ \A i \in Incidents : incident[i].status # "absent" => incident'[i].status # "absent"

\* The row of a call under way stays as it is, unless it is completed.
KeepsCall(m) ==
    /\ delivery[m].status = "embedding" /\ delivery[m].lease = "live"
    /\ delivery[m].token \in Messages \X Nat
    => \/ delivery'[m].status = "completed"
       \/ /\ delivery'[m].status = "embedding" /\ delivery'[m].lease = "live"
          /\ delivery'[m].token = delivery[m].token

LEMMA RequestedKept ==
    ASSUME Typed, Typed', Requested, NEW Q \in SUBSET Requests, Onward,
           \A p \in Requests \ Q :
              /\ request'[p] = request[p]
              /\ \A m \in Messages : Calling(p, m) => KeepsCall(m),
           \A q \in Q : StageOK(q)',
           \A q \in Q, p \in Requests, m \in Messages :
              p # q => ~(Calling(q, m) /\ Calling(p, m))',
           \A m \in answered' : m \in answered \/ delivery'[m].status = "completed"
    PROVE  Requested'
  <1>1. MaskedRows'
    BY DEF Onward, RowOnward, MaskedRows
  <1>2. ASSUME NEW p \in Requests PROVE StageOK(p)'
    <2>1. CASE p \in Q
      BY <2>1
    <2>2. CASE p \notin Q /\ request[p].stage = "idle"
      BY <2>2 DEF StageOK, MaskedStages
    <2>3. CASE p \notin Q /\ request[p].stage # "idle"
      <3>1. request'[p] = request[p] /\ request[p].msg \in Messages
        BY <2>3 DEF Typed, Pushes
      <3> DEFINE m == request[p].msg
      <3>2. RowOnward(m) /\ m \in Messages
        BY <3>1 DEF Onward
      <3>3. request[p].stage = "calling" => KeepsCall(m)
        BY <2>3, <3>1 DEF Calling
      <3>4. request[p].stage = "aggregate" => ~ScopeFree /\ request[p].incident \in Incidents
        BY DEF ScopeFree, Typed, Pushes, OnIncident
      <3>5. StageOK(p)
        BY DEF Requested, RequestsOK
      <3>6. request'[p].stage \in MaskedStages => delivery'[m].masked
        BY <3>1, <3>2, <3>5 DEF StageOK, RowOnward
      <3>7. request'[p].stage = "calling" =>
               \/ delivery'[m].status = "completed"
               \/ /\ delivery'[m].status = "embedding" /\ delivery'[m].lease = "live"
                  /\ delivery'[m].token = request'[p].token
                  /\ delivery'[m].token \in Messages \X Nat
        BY <3>1, <3>2, <3>3, <3>5 DEF StageOK, RowOnward, KeepsCall
      <3>8. request'[p].stage = "aggregate" =>
               delivery'[m].status # "processing" /\ incident'[request[p].incident].status # "absent"
        BY <3>1, <3>2, <3>4, <3>5 DEF StageOK, RowOnward, Onward
      <3>9. request'[p].stage = "owner" =>
               /\ delivery'[m].status \in {"processing", "completed"}
               /\ delivery'[m].status = "processing" => delivery'[m].incident = request[p].incident
        BY <3>1, <3>2, <3>5 DEF StageOK, RowOnward
      <3> QED BY <3>1, <3>6, <3>7, <3>8, <3>9 DEF StageOK
    <2> QED BY <2>1, <2>2, <2>3
  <1>3. Alone'
    <2> SUFFICES ASSUME NEW p \in Requests, NEW q \in Requests, NEW m \in Messages,
                        p # q, Calling(p, m)', Calling(q, m)'
                 PROVE  delivery'[m].status = "completed"
      BY DEF Alone
    <2>1. p \notin Q /\ q \notin Q
      OBVIOUS
    <2>2. Calling(p, m) /\ Calling(q, m)
      BY <2>1 DEF Calling
    <2>3. delivery[m].status = "completed"
      BY <2>2 DEF Requested, Alone
    <2> QED BY <2>3 DEF Onward, RowOnward
  <1>4. Answered'
    BY DEF Requested, Answered, Onward, RowOnward, Typed
  <1> QED BY <1>1, <1>2, <1>3, <1>4 DEF Requested, RequestsOK

Kept == Tables' /\ Requested'

\* One request moves while one row at most changes.
LEMMA OneRow ==
    ASSUME Typed, Typed', Tables, Requested, NEW q \in Requests, NEW m \in Messages,
           \A p \in Requests \ {q} : request'[p] = request[p],
           \A n \in Messages \ {m} : delivery'[n] = delivery[n],
           incident' = incident, QuietRow(m), RowOnward(m),
           \A p \in Requests \ {q} : Calling(p, m) => KeepsCall(m),
           StageOK(q)',
           \A p \in Requests, n \in Messages : p # q => ~(Calling(q, n) /\ Calling(p, n))',
           \A n \in answered' : n \in answered \/ delivery'[n].status = "completed"
    PROVE  Kept
  <1>1. \A n \in Messages : QuietRow(n)
    BY DEF QuietRow
  <1>2. \A i \in Incidents : QuietCase(i)
    BY DEF QuietCase
  <1>3. \A n \in Messages : RowOnward(n)
    <2>1. ASSUME NEW n \in Messages \ {m} PROVE RowOnward(n)
      BY DEF RowOnward, Requested, MaskedRows
    <2> QED BY <2>1
  <1>4. \A p \in Requests \ {q}, n \in Messages : Calling(p, n) => KeepsCall(n)
    BY DEF KeepsCall
  <1>5. Tables'
    BY <1>1, <1>2, TablesQuiet
  <1>6. Onward
    BY <1>3 DEF Onward
  <1>7. {q} \in SUBSET Requests
    OBVIOUS
  <1>8. Requested'
    BY <1>4, <1>6, <1>7, RequestedKept
  <1> QED BY <1>5, <1>8 DEF Kept

\* One request moves and the tables stay.
LEMMA OnlyRequest ==
    ASSUME Typed, Typed', Tables, Requested, NEW q \in Requests,
           \A p \in Requests \ {q} : request'[p] = request[p],
           delivery' = delivery, incident' = incident, StageOK(q)',
           request'[q].stage # "calling",
           \A m \in answered' : m \in answered \/ delivery[m].status = "completed"
    PROVE  Kept
  <1>1. \A m \in Messages : QuietRow(m) /\ RowOnward(m) /\ KeepsCall(m)
    BY DEF QuietRow, RowOnward, KeepsCall, Requested, MaskedRows
  <1>2. \A i \in Incidents : QuietCase(i)
    BY DEF QuietCase
  <1>3. Tables'
    BY <1>1, <1>2, TablesQuiet
  <1>4. Onward
    BY <1>1 DEF Onward
  <1>5. \A p \in Requests, m \in Messages : p # q => ~(Calling(q, m) /\ Calling(p, m))'
    BY DEF Calling
  <1>6. {q} \in SUBSET Requests
    OBVIOUS
  <1>7. Requested'
    BY <1>1, <1>4, <1>5, <1>6, RequestedKept
  <1> QED BY <1>3, <1>7 DEF Kept

LEMMA MoveKeeps ==
    ASSUME Typed, Typed', Tables, Requested, NEW q \in Requests, On(q) \in Messages,
           NEW s \in Stages \ (OnIncident \cup {"calling"}),
           s \in MaskedStages => delivery[On(q)].masked,
           request' = To(q, s), UNCHANGED <<delivery, incident, budget, answered>>
    PROVE  Kept
  <1>1. request'[q].stage = s /\ request'[q].msg = On(q)
    BY DEF To, On, Typed, Pushes, RequestRecords
  <1>2. \A p \in Requests \ {q} : request'[p] = request[p]
    BY DEF To, Typed
  <1>3. StageOK(q)' /\ request'[q].stage # "calling"
    BY <1>1 DEF StageOK, OnIncident
  <1> QED BY <1>2, <1>3, OnlyRequest

LEMMA ChooseKeeps ==
    ASSUME Typed, Typed', Tables, Requested, NEW q \in Requests, On(q) \in Messages,
           NEW i \in Incidents, Open(i), delivery[On(q)].status # "processing", Choose(q, i)
    PROVE  Kept
  <1>1. /\ request'[q].stage = "aggregate" /\ request'[q].msg = On(q)
        /\ request'[q].incident = i
    BY DEF Choose, On, Typed, Pushes, RequestRecords
  <1>2. \A p \in Requests \ {q} : request'[p] = request[p]
    BY DEF Choose, Typed
  <1>3. StageOK(q)'
    BY <1>1 DEF StageOK, MaskedStages, Open, Choose
  <1> QED BY <1>1, <1>2, <1>3, OnlyRequest DEF Choose

\* The request is over.
LEMMA IdleOK ==
    ASSUME NEW q \in Requests, request'[q] = Idle
    PROVE  StageOK(q)' /\ request'[q].stage = "idle"
  BY DEF StageOK, Idle, MaskedStages

LEMMA DoneKeeps ==
    ASSUME Typed, Typed', Tables, Requested, NEW q \in Requests,
           delivery[On(q)].status = "completed", Done(q),
           delivery' = delivery, incident' = incident
    PROVE  Kept
  <1>1. request'[q] = Idle /\ \A p \in Requests \ {q} : request'[p] = request[p]
    BY DEF Done, Typed
  <1>2. \A m \in answered' : m \in answered \/ delivery[m].status = "completed"
    BY DEF Done
  <1> QED BY <1>1, <1>2, IdleOK, OnlyRequest

LEMMA SiftKeeps ==
    ASSUME Typed, Typed', Tables, Requested, NEW q \in Requests, On(q) \in Messages,
           NEW next \in {"reserve", "l4"}, delivery[On(q)].masked, Sift(q, next)
    PROVE  Kept
  <1>1. delivery[On(q)].status # "processing"
    BY DEF Sift, Claimable
  <1>2. CASE \E i \in Incidents : Open(i) /\ Choose(q, i)
    BY <1>1, <1>2, ChooseKeeps
  <1>3. ASSUME NEW s \in {"storm", next}, request' = To(q, s),
               UNCHANGED <<delivery, incident, budget, answered>>
        PROVE  Kept
    <2>1. s \in Stages \ (OnIncident \cup {"calling"})
      BY DEF Stages, OnIncident
    <2> QED BY <1>3, <2>1, MoveKeeps
  <1> QED BY <1>2, <1>3 DEF Sift, OpenStorms, SameKey, OpenNormals

\* The tables move on when an incident opens.
LEMMA OpeningOnward ==
    ASSUME Typed, Tables, Requested, NEW m \in Messages, NEW s \in Incidents,
           NEW kind \in {"normal", "storm"}, Opening(m, s, kind),
           delivery'[m].masked = delivery[m].masked,
           \A n \in Messages \ {m} : delivery'[n].masked = delivery[n].masked,
           \/ delivery'[m].status = "completed"
           \/ /\ delivery'[m].status = "processing" /\ ScopeFree
              /\ delivery[m].masked /\ delivery[m].status = "received"
    PROVE  Onward /\ \A n \in Messages : KeepsCall(n)
  <1>1. RowOnward(m) /\ KeepsCall(m)
    BY DEF RowOnward, KeepsCall, Opening, Requested, MaskedRows
  <1>2. ASSUME NEW n \in Messages \ {m} PROVE RowOnward(n) /\ KeepsCall(n)
    <2>1. CASE delivery'[n] = delivery[n]
      BY <2>1 DEF RowOnward, KeepsCall, Requested, MaskedRows
    <2>2. CASE delivery[n].status = "processing" /\ delivery'[n].status = "completed"
      BY <2>2 DEF RowOnward, KeepsCall
    <2> QED BY <2>1, <2>2 DEF Opening
  <1>3. \A i \in Incidents : incident[i].status # "absent" => incident'[i].status # "absent"
    BY DEF Opening, QuietCase
  <1> QED BY <1>1, <1>2, <1>3 DEF Onward

LEMMA EscalateKeeps ==
    ASSUME Typed, Typed', Tables, Requested, NEW q \in Requests, On(q) \in Messages,
           delivery[On(q)].status # "processing",
           NEW kind \in {"normal", "storm"}, NEW key \in Keys \cup Messages \cup {"storm"},
           NEW embedded \in BOOLEAN, Escalate(q, kind, key, embedded)
    PROVE  Kept
  <1> DEFINE m == On(q)
  <1>0. m = On(q) /\ m \in Messages /\ delivery[m].status # "processing"
    OBVIOUS
  <1> HIDE DEF m
  <1>1. PICK s \in Incidents :
           /\ Opening(m, s, kind)
           /\ delivery'[m].masked = delivery[m].masked
           /\ delivery'[m].status = "completed"
           /\ \A n \in Messages \ {m} : delivery'[n].masked = delivery[n].masked
           /\ Done(q)
    BY <1>0, EscalateOpens
  <1>2. Tables'
    BY <1>0, <1>1, TablesOpening
  <1>3. Onward /\ \A n \in Messages : KeepsCall(n)
    BY <1>0, <1>1, OpeningOnward
  <1>4. /\ request'[q] = Idle /\ \A p \in Requests \ {q} : request'[p] = request[p]
        /\ \A n \in answered' : n \in answered \/ n = m
    BY <1>0, <1>1 DEF Done, Typed
  <1>5. StageOK(q)' /\ request'[q].stage = "idle"
    BY <1>4, IdleOK
  <1>6. \A p \in Requests, n \in Messages : p # q => ~(Calling(q, n) /\ Calling(p, n))'
    BY <1>5 DEF Calling
  <1>7. /\ {q} \in SUBSET Requests
        /\ \A n \in answered' : n \in answered \/ delivery'[n].status = "completed"
    BY <1>1, <1>4
  <1>8. Requested'
    BY <1>3, <1>4, <1>5, <1>6, <1>7, RequestedKept
  <1> QED BY <1>2, <1>8 DEF Kept

LEMMA EscalateAsKeeps ==
    ASSUME Typed, Typed', Tables, Requested, NEW q \in Requests, On(q) \in Messages,
           delivery[On(q)].status # "processing", NEW embedded \in BOOLEAN,
           EscalateAs(q, embedded)
    PROVE  Kept
  <1>1. Key[On(q)] \in Keys
    BY AlertsConstants
  <1>2. CASE Escalate(q, "storm", "storm", embedded)
    BY <1>2, EscalateKeeps
  <1>3. CASE Escalate(q, "normal", Key[On(q)], embedded)
    BY <1>1, <1>3, EscalateKeeps
  <1> QED BY <1>2, <1>3 DEF EscalateAs

\* An investigation that q opens for its message.
LEMMA InvestigateKeeps ==
    ASSUME Typed, Typed', Tables, Requested, NEW q \in Requests, On(q) \in Messages,
           Claimable(q), delivery[On(q)].masked,
           NEW s \in Incidents, incident[s].status = "absent",
           NEW kind \in {"normal", "storm"}, NEW key \in Keys \cup Messages \cup {"storm"},
           \/ /\ kind = "normal" /\ incident' = Opened(s, kind, key, "investigating", TRUE)
              /\ delivery' = [delivery EXCEPT ![On(q)] = Owned(On(q), s, 1)]
           \/ /\ kind = "storm"
              /\ incident' = MergeInto(Opened(s, kind, key, "investigating", TRUE), s)
              /\ delivery' = [Relieved(delivery, s) EXCEPT ![On(q)] = Owned(On(q), s, 1)],
           request' = Investigating(q, s), answered' = answered
    PROVE  Kept
  <1> DEFINE m == On(q)
  <1>0. m = On(q) /\ m \in Messages /\ delivery[m].status = "received" /\ ScopeFree
    BY DEF Claimable
  <1>1. /\ Opening(m, s, kind)
        /\ delivery'[m].masked = delivery[m].masked
        /\ \A n \in Messages \ {m} : delivery'[n].masked = delivery[n].masked
    BY <1>0, OwnerOpens
  <1> HIDE DEF m
  <1>2. Tables'
    BY <1>0, <1>1, TablesOpening
  <1>3. delivery'[m].status \in {"completed", "processing"}
    BY <1>1 DEF Opening
  <1>4. Onward /\ \A n \in Messages : KeepsCall(n)
    BY <1>0, <1>1, <1>3, OpeningOnward
  <1>5. request'[q].stage = "investigate" /\ \A p \in Requests \ {q} : request'[p] = request[p]
    BY DEF Investigating, Typed, Pushes, RequestRecords
  <1>6. StageOK(q)'
    BY <1>5 DEF StageOK, MaskedStages
  <1>7. \A p \in Requests, n \in Messages : p # q => ~(Calling(q, n) /\ Calling(p, n))'
    BY <1>5 DEF Calling
  <1>8. {q} \in SUBSET Requests
    OBVIOUS
  <1>9. Requested'
    BY <1>4, <1>5, <1>6, <1>7, <1>8, RequestedKept
  <1> QED BY <1>2, <1>9 DEF Kept

-----------------------------------------------------------------------------
(* One step per action.                                                    *)

\* The deliveries a step of an embedding or of masking writes.
LEMMA WorkFields ==
    ASSUME Typed, NEW m \in Messages
    PROVE  LET d == delivery[m] IN
           /\ LET e == [d EXCEPT !.masked = TRUE, !.lease = "none"] IN
              e.masked /\ e.status = d.status /\ e.owner = d.owner
           /\ LET e == [d EXCEPT !.status = "embedding", !.attempts = @ + 1,
                                 !.token = <<m, d.attempts + 1>>, !.lease = "live"] IN
              /\ e.masked = d.masked /\ e.status = "embedding" /\ e.owner = d.owner
              /\ e.token = <<m, d.attempts + 1>> /\ e.lease = "live"
           /\ LET e == [d EXCEPT !.embedded = TRUE, !.status = "received", !.lease = "none"] IN
              e.masked = d.masked /\ e.status = "received" /\ e.owner = d.owner
           /\ LET e == [d EXCEPT !.lease = "expired"] IN
              /\ e.masked = d.masked /\ e.status = d.status /\ e.owner = d.owner
              /\ e.token = d.token /\ e.incident = d.incident
           /\ d.attempts + 1 \in Nat
  <1>1. delivery[m] \in DeliveryRecords
    BY DEF Typed, Deliveries
  <1>2. delivery[m].attempts + 1 \in Nat
    BY <1>1, AlertsConstants DEF DeliveryRecords
  <1> QED BY ONLY <1>1, <1>2 DEF DeliveryRecords

\* The steps of a request up to the choice of an incident.
LEMMA KeptIntake ==
    ASSUME Typed, Typed', Tables, Requested, NEW q \in Requests,
           \/ Completed(q) \/ Mask(q) \/ MaskingError(q) \/ MaskingFailureEscalation(q)
           \/ RunAfterMasking(q) \/ StormBranch(q) \/ ResumeEmbedding(q)
           \/ ReserveEmbedding(q) \/ ClaimEmbedding(q) \/ SaveEmbedding(q)
           \/ EmbeddingFailed(q) \/ PostEmbedding(q)
    PROVE  Kept
  <1> DEFINE m == On(q)
  <1>0. /\ m = On(q) /\ m \in Messages /\ StageOK(q)
        /\ request[q].msg = m /\ request[q] \in Pushes
    BY OnMessage DEF Completed, Mask, MaskingError, MaskingFailureEscalation, RunAfterMasking,
       StormBranch, ResumeEmbedding, ReserveEmbedding, ClaimEmbedding, SaveEmbedding,
       EmbeddingFailed, PostEmbedding, Typed, Requested, RequestsOK, On
  <1> HIDE DEF m
  <1>a. request[q].stage \in MaskedStages => delivery[m].masked
    BY <1>0 DEF StageOK
  <1>b. ASSUME NEW i \in Incidents, Open(i), delivery[m].status # "processing", Choose(q, i)
        PROVE  Kept
    BY <1>0, <1>b, ChooseKeeps
  <1>c. ASSUME NEW hot \in BOOLEAN, delivery[m].masked,
               request' = [request EXCEPT ![q].stage = "reserve", ![q].hot = hot],
               UNCHANGED <<delivery, incident, budget, answered>>
        PROVE  Kept
    <2>1. /\ request'[q].stage = "reserve" /\ request'[q].msg = m
          /\ \A p \in Requests \ {q} : request'[p] = request[p]
      BY <1>0, <1>c DEF Typed, Pushes, RequestRecords
    <2>2. StageOK(q)' /\ request'[q].stage # "calling"
      BY <1>c, <2>1 DEF StageOK
    <2> QED BY <1>c, <2>1, <2>2, OnlyRequest
  <1>d. ASSUME NEW s \in {"triage", "maskfail", "embed", "post", "declare"},
               s # "maskfail" => delivery[m].masked,
               request' = To(q, s), UNCHANGED <<delivery, incident, budget, answered>>
        PROVE  Kept
    <2>1. s \in Stages \ (OnIncident \cup {"calling"}) /\ (s \in MaskedStages => delivery[m].masked)
      BY <1>d DEF Stages, OnIncident, MaskedStages
    <2> QED BY <1>0, <1>d, <2>1, MoveKeeps
  <1>e. AfterEmbedding(q) \in {"declare", "post"}
    BY DEF AfterEmbedding
  <1>f. ASSUME NEW s \in Stages \ {"calling", "aggregate", "owner"}, request' = To(q, s),
               delivery'[m].masked
        PROVE  /\ StageOK(q)' /\ \A p \in Requests \ {q} : request'[p] = request[p]
               /\ \A p \in Requests, n \in Messages : p # q => ~(Calling(q, n) /\ Calling(p, n))'
    <2>1. /\ request'[q].stage = s /\ request'[q].msg = m
          /\ \A p \in Requests \ {q} : request'[p] = request[p]
      BY <1>0, <1>f DEF To, Typed, Pushes, RequestRecords
    <2> QED BY <1>f, <2>1 DEF StageOK, Calling
  <1>g. \A n \in Messages : Working(delivery[n]) => ~delivery[n].owner
    BY DEF Working, Tables, Mirrored
  <1>1. CASE Completed(q)
    BY <1>0, <1>1, DoneKeeps DEF Completed
  <1>2. CASE Mask(q)
    <2>1. /\ delivery'[m] = [delivery[m] EXCEPT !.masked = TRUE, !.lease = "none"]
          /\ \A n \in Messages \ {m} : delivery'[n] = delivery[n]
      BY <1>0, <1>2 DEF Mask, Typed
    <2>2. /\ delivery'[m].masked /\ delivery'[m].status = "received"
          /\ delivery'[m].owner = delivery[m].owner /\ delivery[m].status = "received"
      BY <1>0, <1>2, <2>1, WorkFields, ZenonT(60) DEF Mask
    <2>3. QuietRow(m) /\ RowOnward(m) /\ KeepsCall(m)
      BY <1>0, <1>g, <2>2 DEF QuietRow, Working, RowOnward, KeepsCall
    <2>4. request' = To(q, "triage") /\ incident' = incident /\ answered' = answered
      BY <1>2 DEF Mask
    <2>5. "triage" \in Stages \ {"calling", "aggregate", "owner"}
      BY DEF Stages
    <2> QED BY <1>0, <1>f, <2>1, <2>2, <2>3, <2>4, <2>5, OneRow
  <1>3. CASE MaskingError(q)
    BY <1>3, <1>d DEF MaskingError
  <1>4. CASE MaskingFailureEscalation(q)
    <2>1. delivery[m].status # "processing"
      BY <1>0, <1>4 DEF MaskingFailureEscalation, Requested, MaskedRows
    <2> QED BY <1>0, <1>4, <2>1, EscalateKeeps DEF MaskingFailureEscalation
  <1>5. CASE RunAfterMasking(q)
    BY <1>0, <1>5, <1>a, SiftKeeps DEF RunAfterMasking, MaskedStages
  <1>6. CASE PostEmbedding(q)
    BY <1>0, <1>6, <1>a, SiftKeeps DEF PostEmbedding, MaskedStages
  <1>7. CASE StormBranch(q)
    <2>1. delivery[m].status # "processing" /\ delivery[m].masked
      BY <1>0, <1>7, <1>a DEF StormBranch, Claimable, MaskedStages
    <2> QED BY <1>7, <1>b, <1>c, <2>1 DEF StormBranch, OpenStorms
  <1>8. CASE ResumeEmbedding(q)
    <2>1. delivery[m].status # "processing" /\ delivery[m].masked
      BY <1>0, <1>8, <1>a DEF ResumeEmbedding, MaskedStages
    <2>2. Surges \subseteq BOOLEAN
      BY DEF Surges
    <2>3. CASE \E hot \in Surges :
                 /\ request' = [request EXCEPT ![q].stage = "reserve", ![q].hot = hot]
                 /\ UNCHANGED <<delivery, incident, budget, answered>>
      BY <1>c, <2>1, <2>2, <2>3
    <2>4. CASE \E s \in OpenStorms : Choose(q, s)
      BY <1>b, <2>1, <2>4 DEF OpenStorms
    <2> QED BY <1>8, <2>3, <2>4 DEF ResumeEmbedding
  <1>9. CASE ReserveEmbedding(q)
    <2>1. /\ delivery[m].status \in {"received", "embedding"} /\ delivery[m].masked
          /\ delivery[m].status # "processing"
      BY <1>0, <1>9, <1>a DEF ReserveEmbedding, MaskedStages
    <2>2. CASE /\ delivery' = [delivery EXCEPT ![m] = Charged(@)]
               /\ request' = To(q, "embed")
               /\ UNCHANGED <<incident, investigations, answered>>
      <3>1. /\ delivery'[m] = Charged(delivery[m])
            /\ \A n \in Messages \ {m} : delivery'[n] = delivery[n]
        BY <1>0, <2>2 DEF Typed
      <3>2. /\ delivery'[m].masked = delivery[m].masked
            /\ delivery'[m].status = delivery[m].status
            /\ delivery'[m].owner = delivery[m].owner
            /\ delivery'[m].token = delivery[m].token /\ delivery'[m].lease = delivery[m].lease
        <4>1. delivery[m] \in DeliveryRecords
          BY <1>0 DEF Typed, Deliveries
        <4> QED BY ONLY <3>1, <4>1 DEF Charged, DeliveryRecords
      <3>3. QuietRow(m) /\ RowOnward(m) /\ KeepsCall(m)
        BY <1>0, <1>g, <2>1, <3>2 DEF QuietRow, Working, RowOnward, KeepsCall
      <3>4. "embed" \in Stages \ {"calling", "aggregate", "owner"} /\ delivery'[m].masked
        BY <2>1, <3>2 DEF Stages
      <3> QED BY <1>0, <1>f, <2>2, <3>1, <3>3, <3>4, OneRow
    <2>3. CASE EscalateAs(q, FALSE)
      BY <1>0, <2>1, <2>3, EscalateAsKeeps
    <2>4. CASE \E s \in OpenStorms : Choose(q, s)
      BY <1>b, <2>1, <2>4 DEF OpenStorms
    <2>5. CASE /\ \E s \in {"embed", AfterEmbedding(q)} : request' = To(q, s)
               /\ UNCHANGED <<delivery, incident, budget, answered>>
      BY <1>d, <1>e, <2>1, <2>5
    <2> QED BY <1>0, <1>9, <2>2, <2>3, <2>4, <2>5 DEF ReserveEmbedding
  <1>10. CASE ClaimEmbedding(q)
    <2>1. delivery[m].masked
      BY <1>0, <1>10, <1>a DEF ClaimEmbedding, MaskedStages
    <2>2. CASE Embeddable(delivery[m])
      <3> DEFINE d == delivery[m]
                 t == <<m, d.attempts + 1>>
      <3>1. /\ delivery'[m] = [d EXCEPT !.status = "embedding", !.attempts = @ + 1,
                                        !.token = t, !.lease = "live"]
            /\ \A n \in Messages \ {m} : delivery'[n] = delivery[n]
        BY <1>0, <1>10, <2>2 DEF ClaimEmbedding, Typed
      <3>2. /\ delivery'[m].masked /\ delivery'[m].status = "embedding"
            /\ delivery'[m].owner = delivery[m].owner
            /\ delivery'[m].token = t /\ delivery'[m].lease = "live"
            /\ t \in Messages \X Nat
        BY <1>0, <2>1, <3>1, WorkFields
      <3>3. /\ request'[q].stage = "calling" /\ request'[q].msg = m /\ request'[q].token = t
            /\ \A p \in Requests \ {q} : request'[p] = request[p]
        BY <1>0, <1>10, <2>2 DEF ClaimEmbedding, Typed, Pushes, RequestRecords
      <3> HIDE DEF t
      <3>4. delivery[m].status \in {"received", "embedding"} /\ delivery[m].lease # "live"
        BY <2>2 DEF Embeddable
      <3>5. \A p \in Requests : ~Calling(p, m)
        BY <3>4 DEF Calling, Requested, RequestsOK, StageOK
      <3>6. QuietRow(m) /\ RowOnward(m)
        BY <1>0, <1>g, <3>2, <3>4 DEF QuietRow, Working, RowOnward
      <3>7. StageOK(q)'
        BY <3>2, <3>3 DEF StageOK
      <3>8. \A p \in Requests, n \in Messages : p # q => ~(Calling(q, n) /\ Calling(p, n))'
        BY <3>3, <3>5 DEF Calling
      <3>9. incident' = incident /\ answered' = answered
        BY <1>10 DEF ClaimEmbedding
      <3> QED BY <1>0, <3>1, <3>3, <3>5, <3>6, <3>7, <3>8, <3>9, OneRow
    <2>3. CASE ~Embeddable(delivery[m])
      BY <1>0, <1>10, <1>d, <1>e, <2>1, <2>3 DEF ClaimEmbedding
    <2> QED BY <2>2, <2>3
  <1>11. CASE SaveEmbedding(q)
    <2>1. /\ delivery'[m] = [delivery[m] EXCEPT !.embedded = TRUE, !.status = "received",
                                                !.lease = "none"]
          /\ \A n \in Messages \ {m} : delivery'[n] = delivery[n]
          /\ delivery[m].status = "embedding" /\ delivery[m].masked
          /\ Calling(q, m)
      BY <1>0, <1>11, <1>a DEF SaveEmbedding, Typed, MaskedStages, Calling
    <2>2. /\ delivery'[m].masked /\ delivery'[m].status = "received"
          /\ delivery'[m].owner = delivery[m].owner
      BY <1>0, <2>1, WorkFields
    <2>3. QuietRow(m) /\ RowOnward(m)
      BY <1>0, <1>g, <2>1, <2>2 DEF QuietRow, Working, RowOnward
    <2>4. \A p \in Requests \ {q} : ~Calling(p, m)
      BY <1>0, <2>1 DEF Requested, Alone
    <2>5. /\ request' = To(q, AfterEmbedding(q)) /\ incident' = incident /\ answered' = answered
          /\ AfterEmbedding(q) \in Stages \ {"calling", "aggregate", "owner"}
      BY <1>11, <1>e DEF SaveEmbedding, Stages
    <2> QED BY <1>0, <1>f, <2>1, <2>2, <2>3, <2>4, <2>5, OneRow
  <1>12. CASE EmbeddingFailed(q)
    <2>1. delivery[m].status # "processing"
      BY <1>0, <1>12 DEF EmbeddingFailed, StageOK
    <2> QED BY <1>0, <1>12, <1>b, <2>1, EscalateAsKeeps DEF EmbeddingFailed, OpenStorms
  <1> QED BY <1>1, <1>2, <1>3, <1>4, <1>5, <1>6, <1>7, <1>8, <1>9, <1>10, <1>11, <1>12

\* A step of the owner q of incident i.
LEMMA OwnerKeeps ==
    ASSUME Typed, Typed', Tables, Requested, NEW q \in Requests, On(q) \in Messages,
           NEW i \in Incidents, OwnerStep(On(q), i),
           delivery'[On(q)].masked = delivery[On(q)].masked,
           \A p \in Requests \ {q} : request'[p] = request[p],
           request'[q].stage \in {"idle", "investigate"},
           \A n \in answered' : n \in answered \/ delivery'[n].status = "completed"
    PROVE  Kept
  <1> DEFINE m == On(q)
  <1>0. m \in Messages /\ OwnerStep(m, i) /\ delivery'[m].masked = delivery[m].masked
    OBVIOUS
  <1> HIDE DEF m
  <1>1. Tables'
    BY <1>0, TablesOwnerStep
  <1>2. delivery[m].status = "processing" /\ delivery[m].masked /\ delivery[m].incident = i
    BY <1>0 DEF OwnerStep, Tables, Mirrored, Requested, MaskedRows
  <1>3. RowOnward(m) /\ KeepsCall(m)
    BY <1>0, <1>2 DEF OwnerStep, RowOnward, KeepsCall
  <1>4. ASSUME NEW n \in Messages \ {m} PROVE RowOnward(n) /\ KeepsCall(n)
    BY <1>0 DEF OwnerStep, RowOnward, KeepsCall, Requested, MaskedRows
  <1>5. Onward
    BY <1>0, <1>3, <1>4 DEF Onward, OwnerStep, QuietCase
  <1>6. StageOK(q)'
    BY DEF StageOK, MaskedStages
  <1>7. \A p \in Requests, n \in Messages : p # q => ~(Calling(q, n) /\ Calling(p, n))'
    BY DEF Calling
  <1>8. {q} \in SUBSET Requests
    OBVIOUS
  <1>9. Requested'
    BY <1>3, <1>4, <1>5, <1>6, <1>7, <1>8, RequestedKept
  <1> QED BY <1>1, <1>9 DEF Kept

LEMMA SaveKeeps ==
    ASSUME Typed, Typed', Tables, Requested, NEW q \in Requests, On(q) \in Messages,
           request[q].incident \in Incidents,
           NEW outcome \in {"analyzed", "escalated"}, SaveAs(q, outcome)
    PROVE  Kept
  <1> DEFINE m == On(q)
             i == request[q].incident
             saved == [incident EXCEPT ![i] = [incident[i] EXCEPT
                          !.status = outcome, !.lease = "expired", !.issue = "pending"]]
  <1>0. m = On(q) /\ m \in Messages /\ i = request[q].incident /\ i \in Incidents
    OBVIOUS
  <1>1. /\ delivery[m].owner /\ delivery[m].incident = i
        /\ incident' = saved \/ incident' = CloseMerged(saved, i)
        /\ delivery' = [delivery EXCEPT ![m] = [delivery[m] EXCEPT
                           !.status = "completed", !.owner = FALSE, !.lease = "none"]]
        /\ Done(q)
    BY DEF SaveAs, Holds, HoldsDelivery, Typed
  <1> HIDE DEF m, i
  <1>2. /\ incident[i] \in IncidentRecords /\ delivery[m] \in DeliveryRecords
        /\ saved \in [Incidents -> IncidentRecords]
        /\ saved[i] = [incident[i] EXCEPT !.status = outcome, !.lease = "expired",
                                          !.issue = "pending"]
        /\ \A j \in Incidents \ {i} : saved[j] = incident[j]
    <2>1. incident[i] \in IncidentRecords /\ delivery[m] \in DeliveryRecords
      BY <1>0 DEF Typed, Deliveries
    <2>2. [incident[i] EXCEPT !.status = outcome, !.lease = "expired", !.issue = "pending"]
             \in IncidentRecords
      BY <2>1 DEF IncidentRecords, Statuses, Leases
    <2> QED BY <1>0, <2>1, <2>2 DEF Typed
  <1>3. /\ saved[i].status = outcome /\ saved[i].lease = "expired" /\ saved[i].issue = "pending"
        /\ saved[i].kind = incident[i].kind /\ saved[i].mergedInto = incident[i].mergedInto
        /\ saved[i].token = incident[i].token
    BY ONLY <1>2 DEF IncidentRecords
  <1> HIDE DEF saved
  <1>4. \A j \in Incidents :
           /\ incident'[j].status = saved[j].status /\ incident'[j].kind = saved[j].kind
           /\ incident'[j].mergedInto = saved[j].mergedInto
           /\ incident'[j].token = saved[j].token /\ incident'[j].lease = saved[j].lease
           /\ incident'[j].issue = saved[j].issue
    <2>1. CASE incident' = saved
      BY <2>1
    <2>2. CASE incident' = CloseMerged(saved, i)
      <3> SUFFICES ASSUME NEW j \in Incidents
                   PROVE  /\ incident'[j].status = saved[j].status
                          /\ incident'[j].kind = saved[j].kind
                          /\ incident'[j].mergedInto = saved[j].mergedInto
                          /\ incident'[j].token = saved[j].token
                          /\ incident'[j].lease = saved[j].lease
                          /\ incident'[j].issue = saved[j].issue
        OBVIOUS
      <3>1. saved[j] \in IncidentRecords
        BY <1>2
      <3> QED BY ONLY <2>2, <3>1 DEF CloseMerged, IncidentRecords
    <2> QED BY <1>1, <2>1, <2>2
  <1>5. /\ delivery'[m].status = "completed" /\ ~delivery'[m].owner
        /\ delivery'[m].incident = i /\ delivery'[m].masked = delivery[m].masked
        /\ \A n \in Messages \ {m} : delivery'[n] = delivery[n]
    <2>1. /\ delivery'[m] = [delivery[m] EXCEPT !.status = "completed", !.owner = FALSE,
                                                !.lease = "none"]
          /\ \A n \in Messages \ {m} : delivery'[n] = delivery[n]
      BY <1>0, <1>1 DEF Typed
    <2>2. delivery[m].incident = i
      BY <1>1
    <2> QED BY ONLY <1>2, <2>1, <2>2 DEF DeliveryRecords
  <1>6. OwnerStep(m, i)
    <2>1. \A j \in Incidents \ {i} : QuietCase(j)
      BY <1>2, <1>4 DEF QuietCase
    <2> QED BY <1>0, <1>1, <1>3, <1>4, <1>5, <2>1 DEF OwnerStep
  <1>7. /\ request'[q].stage = "idle" /\ \A p \in Requests \ {q} : request'[p] = request[p]
        /\ \A n \in answered' : n \in answered \/ delivery'[n].status = "completed"
    BY <1>0, <1>1, <1>5 DEF Done, Typed, Idle
  <1> QED BY <1>0, <1>5, <1>6, <1>7, OwnerKeeps

\* The steps that open an incident, add to one, or own one.
LEMMA KeptOwner ==
    ASSUME Typed, Typed', Tables, Requested, NEW q \in Requests,
           \/ SimilarOrNew(q) \/ DeclareStorm(q) \/ Aggregate(q)
           \/ SaveOwnerAnalysis(q) \/ MergedMeanwhile(q) \/ ExpireOwnerLease(q)
           \/ ResumeOwner(q) \/ RenewOwnerLease(q) \/ SaveFinalEscalation(q)
    PROVE  Kept
  <1> DEFINE m == On(q)
             i == request[q].incident
  <1>0. /\ m = On(q) /\ m \in Messages /\ Key[m] \in Keys /\ StageOK(q)
        /\ request[q].msg = m /\ i = request[q].incident
        /\ request[q].stage \in OnIncident => i \in Incidents
    BY OnMessage DEF SimilarOrNew, DeclareStorm, Aggregate, SaveOwnerAnalysis, MergedMeanwhile,
       ExpireOwnerLease, ResumeOwner, RenewOwnerLease, SaveFinalEscalation, Typed, Pushes,
       Requested, RequestsOK, On
  <1> HIDE DEF m, i
  <1>b. ASSUME NEW j \in Incidents, Open(j), delivery[m].status # "processing", Choose(q, j)
        PROVE  Kept
    BY <1>0, <1>b, ChooseKeeps
  <1>1. CASE SimilarOrNew(q)
    <2>1. Claimable(q) /\ delivery[m].status # "processing" /\ delivery[m].masked
      BY <1>0, <1>1 DEF SimilarOrNew, Claimable, StageOK, MaskedStages
    <2>2. CASE \E j \in Similar : Choose(q, j)
      BY <1>b, <2>1, <2>2 DEF Similar
    <2>3. CASE /\ \E j \in Incidents :
                    /\ incident[j].status = "absent"
                    /\ incident' = [incident EXCEPT ![j] =
                           NewIncident(j, "normal", Key[m], "investigating", TRUE)]
                    /\ delivery' = [delivery EXCEPT ![m] = Owned(m, j, 1)]
                    /\ request' = Investigating(q, j)
               /\ answered' = answered
      BY <1>0, <2>1, <2>3, InvestigateKeeps DEF Opened
    <2>4. CASE Escalate(q, "normal", Key[m], TRUE)
      BY <1>0, <2>1, <2>4, EscalateKeeps
    <2> QED BY <1>0, <1>1, <2>2, <2>3, <2>4 DEF SimilarOrNew
  <1>2. CASE DeclareStorm(q)
    <2>1. Claimable(q) /\ delivery[m].status # "processing" /\ delivery[m].masked
      BY <1>0, <1>2 DEF DeclareStorm, Claimable, StageOK, MaskedStages
    <2>2. CASE \E j \in OpenStorms : Choose(q, j)
      BY <1>b, <2>1, <2>2 DEF OpenStorms
    <2>3. CASE /\ \E s \in Incidents :
                    /\ incident[s].status = "absent"
                    /\ incident' = MergeInto([incident EXCEPT ![s] =
                           NewIncident(s, "storm", "storm", "investigating", TRUE)], s)
                    /\ delivery' = [Relieved(delivery, s) EXCEPT ![m] = Owned(m, s, 1)]
                    /\ request' = Investigating(q, s)
               /\ answered' = answered
      BY <1>0, <2>1, <2>3, InvestigateKeeps DEF Opened
    <2>4. CASE Escalate(q, "storm", "storm", TRUE)
      BY <1>0, <2>1, <2>4, EscalateKeeps
    <2> QED BY <1>0, <1>2, <2>2, <2>3, <2>4 DEF DeclareStorm
  <1>3. CASE Aggregate(q)
    <2>1. /\ i \in Incidents /\ delivery[m].status # "processing"
          /\ incident[i].status # "absent"
      BY <1>0, <1>3 DEF Aggregate, OnIncident, StageOK
    <2>2. /\ incident'[i] = Joined(incident[i], m, request[q].seen)
          /\ \A j \in Incidents \ {i} : incident'[j] = incident[j]
          /\ delivery'[m] = Attached(m, i)
          /\ \A n \in Messages \ {m} : delivery'[n] = delivery[n]
          /\ Done(q)
      BY <1>0, <1>3, <2>1 DEF Aggregate, Typed
    <2>3. \A j \in Incidents : QuietCase(j)
      <3>1. incident[i] \in IncidentRecords
        BY <2>1 DEF Typed
      <3>2. /\ incident'[i].status = incident[i].status /\ incident'[i].kind = incident[i].kind
            /\ incident'[i].mergedInto = incident[i].mergedInto
            /\ incident'[i].token = incident[i].token /\ incident'[i].lease = incident[i].lease
            /\ incident'[i].issue = incident[i].issue
        BY ONLY <2>2, <3>1 DEF Joined, IncidentRecords
      <3> QED BY <2>2, <3>2 DEF QuietCase
    <2>4. /\ delivery'[m].status = "completed" /\ ~delivery'[m].owner
          /\ delivery'[m].incident = i /\ delivery'[m].masked = delivery[m].masked
      BY <1>0, <2>1, <2>2, RowFields
    <2>5. QuietRow(m) /\ RowOnward(m) /\ KeepsCall(m)
      BY <1>0, <2>1, <2>4 DEF QuietRow, RowOnward, KeepsCall
    <2>6. ASSUME NEW n \in Messages \ {m} PROVE QuietRow(n) /\ RowOnward(n) /\ KeepsCall(n)
      BY <2>2 DEF QuietRow, RowOnward, KeepsCall, Requested, MaskedRows
    <2>7. Tables'
      BY <2>3, <2>5, <2>6, TablesQuiet
    <2>8. Onward
      BY <2>3, <2>5, <2>6 DEF Onward, QuietCase
    <2>9. /\ request'[q] = Idle /\ \A p \in Requests \ {q} : request'[p] = request[p]
          /\ \A n \in answered' : n \in answered \/ delivery'[n].status = "completed"
      BY <1>0, <2>2, <2>4 DEF Done, Typed
    <2>10. StageOK(q)' /\ request'[q].stage = "idle"
      BY <2>9, IdleOK
    <2>11. \A p \in Requests, n \in Messages : p # q => ~(Calling(q, n) /\ Calling(p, n))'
      BY <2>10 DEF Calling
    <2>12. {q} \in SUBSET Requests
      OBVIOUS
    <2>13. Requested'
      BY <2>5, <2>6, <2>8, <2>9, <2>10, <2>11, <2>12, RequestedKept
    <2> QED BY <2>7, <2>13 DEF Kept
  <1>4. CASE SaveOwnerAnalysis(q)
    BY <1>0, <1>4, SaveKeeps DEF SaveOwnerAnalysis, OnIncident
  <1>5. CASE MergedMeanwhile(q)
    BY <1>0, <1>5, DoneKeeps DEF MergedMeanwhile
  <1>6. CASE ExpireOwnerLease(q)
    <2>1. /\ i \in Incidents /\ incident[i] \in IncidentRecords /\ delivery[m] \in DeliveryRecords
      BY <1>0, <1>6 DEF ExpireOwnerLease, OnIncident, Typed, Deliveries
    <2>2. /\ incident'[i] = [incident[i] EXCEPT !.lease = "expired"]
          /\ \A j \in Incidents \ {i} : incident'[j] = incident[j]
          /\ delivery'[m] = [delivery[m] EXCEPT !.lease = "expired"]
          /\ \A n \in Messages \ {m} : delivery'[n] = delivery[n]
          /\ delivery[m].owner /\ delivery[m].incident = i
          /\ request'[q] = Idle /\ \A p \in Requests \ {q} : request'[p] = request[p]
          /\ answered' = answered
      BY <1>0, <1>6, <2>1 DEF ExpireOwnerLease, Holds, HoldsDelivery, Typed
    <2>3. /\ incident'[i].status = incident[i].status /\ incident'[i].kind = incident[i].kind
          /\ incident'[i].mergedInto = incident[i].mergedInto
          /\ incident'[i].token = incident[i].token /\ incident'[i].lease = "expired"
          /\ delivery'[m].status = delivery[m].status /\ delivery'[m].owner = delivery[m].owner
          /\ delivery'[m].incident = delivery[m].incident
          /\ delivery'[m].token = delivery[m].token /\ delivery'[m].lease = "expired"
          /\ delivery'[m].masked = delivery[m].masked
      BY ONLY <2>1, <2>2, ZenonT(60) DEF IncidentRecords, DeliveryRecords
    <2>4. /\ delivery[m].status = "processing" /\ incident[i].status = "investigating"
          /\ delivery[m].token = incident[i].token
          /\ \E n \in Nat : incident[i].token = <<i, n>>
      BY <1>0, <2>1, <2>2 DEF Tables, Mirrored, Tokened
    <2>5. \A j \in Incidents \ {i} : QuietCase(j)
      BY <2>2 DEF QuietCase
    <2>6. OwnerStep(m, i)
      BY <2>2, <2>3, <2>4, <2>5 DEF OwnerStep
    <2>7. /\ OwnerStep(On(q), i) /\ delivery'[On(q)].masked = delivery[On(q)].masked
          /\ On(q) \in Messages
      BY <1>0, <2>3, <2>6
    <2>8. /\ request'[q].stage \in {"idle", "investigate"}
          /\ \A n \in answered' : n \in answered \/ delivery'[n].status = "completed"
      BY <2>2, IdleOK
    <2>9. /\ i \in Incidents /\ \A p \in Requests \ {q} : request'[p] = request[p]
      BY <2>1, <2>2
    <2> QED BY <2>7, <2>8, <2>9, OwnerKeeps
  <1>7. CASE ResumeOwner(q)
    <2>1. CASE incident[i].status # "investigating"
      <3>1. delivery[m].status = "completed"
        BY <1>0, <1>7, <2>1 DEF ResumeOwner, StageOK, Tables, Mirrored
      <3> QED BY <1>0, <1>7, <2>1, <3>1, DoneKeeps DEF ResumeOwner
    <2>2. CASE incident[i].status = "investigating"
      <3>1. /\ request'[q].stage = "renew" /\ \A p \in Requests \ {q} : request'[p] = request[p]
            /\ answered' = answered /\ delivery' = delivery /\ incident' = incident
        BY <1>0, <1>7, <2>2 DEF ResumeOwner, Typed, Pushes, RequestRecords
      <3>2. StageOK(q)' /\ request'[q].stage # "calling"
        BY <3>1 DEF StageOK, MaskedStages
      <3> QED BY <3>1, <3>2, OnlyRequest
    <2> QED BY <2>1, <2>2
  <1>8. CASE RenewOwnerLease(q)
    <2> DEFINE n == incident[i].attempts + 1
    <2>1. /\ i \in Incidents /\ incident[i] \in IncidentRecords /\ delivery[m] \in DeliveryRecords
      BY <1>0, <1>8 DEF RenewOwnerLease, OnIncident, Typed, Deliveries
    <2>2. n \in Nat
      BY <2>1, AlertsConstants DEF IncidentRecords
    <2>3. /\ incident'[i] = [incident[i] EXCEPT !.token = <<i, n>>, !.lease = "live",
                                                !.attempts = n]
          /\ \A j \in Incidents \ {i} : incident'[j] = incident[j]
          /\ delivery'[m] = [delivery[m] EXCEPT !.token = <<i, n>>, !.lease = "live"]
          /\ \A x \in Messages \ {m} : delivery'[x] = delivery[x]
          /\ delivery[m].owner /\ delivery[m].incident = i
          /\ request'[q].stage = "investigate"
          /\ \A p \in Requests \ {q} : request'[p] = request[p]
          /\ answered' = answered
      <3>1. /\ incident' = [incident EXCEPT ![i] =
                  [incident[i] EXCEPT !.token = <<i, n>>, !.lease = "live", !.attempts = n]]
            /\ delivery' = [delivery EXCEPT ![m] =
                  [delivery[m] EXCEPT !.token = <<i, n>>, !.lease = "live"]]
            /\ request' = [request EXCEPT ![q] =
                  [request[q] EXCEPT !.stage = "investigate", !.token = <<i, n>>,
                                     !.itoken = <<i, n>>]]
            /\ answered' = answered
        <4>1. incident' = [incident EXCEPT ![i] =
                  [incident[i] EXCEPT !.token = <<i, n>>, !.lease = "live", !.attempts = n]]
          BY <1>0, <1>8, <2>1 DEF RenewOwnerLease, Typed
        <4>2. delivery' = [delivery EXCEPT ![m] =
                  [delivery[m] EXCEPT !.token = <<i, n>>, !.lease = "live"]]
          BY <1>0, <1>8, <2>1, ZenonT(60) DEF RenewOwnerLease, Typed
        <4>3. request' = [request EXCEPT ![q] =
                  [request[q] EXCEPT !.stage = "investigate", !.token = <<i, n>>,
                                     !.itoken = <<i, n>>]]
          BY <1>0, <1>8, <2>1 DEF RenewOwnerLease, Typed
        <4>4. answered' = answered
          BY <1>8 DEF RenewOwnerLease
        <4> QED BY <4>1, <4>2, <4>3, <4>4
      <3>2. delivery[m].owner /\ delivery[m].incident = i
        BY <1>0, <1>8 DEF RenewOwnerLease, Holds, HoldsDelivery
      <3> HIDE DEF n
      <3>3. /\ incident'[i] = [incident[i] EXCEPT !.token = <<i, n>>, !.lease = "live",
                                                  !.attempts = n]
            /\ \A j \in Incidents \ {i} : incident'[j] = incident[j]
        BY <2>1, <3>1 DEF Typed
      <3>4. /\ delivery'[m] = [delivery[m] EXCEPT !.token = <<i, n>>, !.lease = "live"]
            /\ \A x \in Messages \ {m} : delivery'[x] = delivery[x]
        BY <1>0, <3>1 DEF Typed
      <3>5. /\ request'[q].stage = "investigate"
            /\ \A p \in Requests \ {q} : request'[p] = request[p]
        BY <3>1 DEF Typed, Pushes, RequestRecords
      <3> QED BY <3>1, <3>2, <3>3, <3>4, <3>5
    <2> HIDE DEF n
    <2>4. /\ incident'[i].status = incident[i].status /\ incident'[i].kind = incident[i].kind
          /\ incident'[i].mergedInto = incident[i].mergedInto
          /\ incident'[i].token = <<i, n>> /\ incident'[i].lease = "live"
          /\ delivery'[m].status = delivery[m].status /\ delivery'[m].owner = delivery[m].owner
          /\ delivery'[m].incident = delivery[m].incident
          /\ delivery'[m].token = <<i, n>> /\ delivery'[m].lease = "live"
          /\ delivery'[m].masked = delivery[m].masked
      BY ONLY <2>1, <2>3, ZenonT(60) DEF IncidentRecords, DeliveryRecords
    <2>5. delivery[m].status = "processing" /\ incident[i].status = "investigating"
      BY <1>0, <2>1, <2>3 DEF Tables, Mirrored
    <2>6. \A j \in Incidents \ {i} : QuietCase(j)
      BY <2>3 DEF QuietCase
    <2>7. OwnerStep(m, i)
      BY <2>2, <2>3, <2>4, <2>5, <2>6 DEF OwnerStep
    <2>8. /\ OwnerStep(On(q), i) /\ delivery'[On(q)].masked = delivery[On(q)].masked
          /\ On(q) \in Messages
      BY <1>0, <2>4, <2>7
    <2>9. /\ request'[q].stage \in {"idle", "investigate"} /\ i \in Incidents
          /\ \A x \in answered' : x \in answered \/ delivery'[x].status = "completed"
          /\ \A p \in Requests \ {q} : request'[p] = request[p]
      BY <2>1, <2>3
    <2> QED BY <2>8, <2>9, OwnerKeeps
  <1>9. CASE SaveFinalEscalation(q)
    BY <1>0, <1>9, SaveKeeps DEF SaveFinalEscalation, OnIncident
  <1> QED BY <1>1, <1>2, <1>3, <1>4, <1>5, <1>6, <1>7, <1>8, <1>9

\* Pushes, leases that run out, and what the other services do.  Only here
\* does it matter that no request outlives its lease: the row of a call under
\* way keeps its live lease.
LEMMA KeptSurroundings ==
    ASSUME ~Overrun, Typed, Typed', Tables, Requested,
           \/ \E q \in Requests : Drop(q)
           \/ \E q \in Requests, m \in Messages : Checkpoint(q, m) \/ Redeliver(q, m)
           \/ \E m \in Messages : Acknowledge(m) \/ WorkLeaseExpires(m)
           \/ \E i \in Incidents : OwnerLeaseExpires(i) \/ IssueSent(i) \/ ReviewIncident(i)
    PROVE  Kept
  <1>a. ASSUME Tables', Onward, request' = request,
               \A p \in Requests, m \in Messages : Calling(p, m) => KeepsCall(m),
               \A m \in answered' : m \in answered \/ delivery'[m].status = "completed"
        PROVE  Kept
    <2>1. {} \in SUBSET Requests
      OBVIOUS
    <2>2. Requested'
      BY <1>a, <2>1, RequestedKept
    <2> QED BY <1>a, <2>2 DEF Kept
  <1>g. \A n \in Messages : Working(delivery[n]) => ~delivery[n].owner
    BY DEF Working, Tables, Mirrored
  <1>1. ASSUME NEW q \in Requests, Drop(q) PROVE Kept
    <2>1. /\ request'[q] = Idle /\ \A p \in Requests \ {q} : request'[p] = request[p]
          /\ delivery' = delivery /\ incident' = incident /\ answered' = answered
      BY <1>1 DEF Drop, Typed
    <2> QED BY <2>1, IdleOK, OnlyRequest
  <1>2. ASSUME NEW q \in Requests, NEW m \in Messages, Checkpoint(q, m) PROVE Kept
    <2>1. /\ delivery'[m] = Received(m) /\ delivery[m].status = "absent"
          /\ \A n \in Messages \ {m} : delivery'[n] = delivery[n]
          /\ incident' = incident /\ answered' = answered
      BY <1>2 DEF Checkpoint, Typed
    <2>2. delivery'[m].status = "received" /\ ~delivery'[m].owner
      BY <2>1 DEF Received, NoDelivery
    <2>3. QuietRow(m) /\ RowOnward(m) /\ KeepsCall(m)
      BY <2>1, <2>2 DEF QuietRow, Working, RowOnward, KeepsCall, Requested, MaskedRows
    <2>4. /\ request'[q].stage = "mask" /\ \A p \in Requests \ {q} : request'[p] = request[p]
      BY <1>2 DEF Checkpoint, Typed, Idle
    <2>5. StageOK(q)'
      BY <2>4 DEF StageOK, MaskedStages
    <2>6. \A p \in Requests, n \in Messages : p # q => ~(Calling(q, n) /\ Calling(p, n))'
      BY <2>4 DEF Calling
    <2> QED BY <2>1, <2>3, <2>4, <2>5, <2>6, OneRow
  <1>3. ASSUME NEW q \in Requests, NEW m \in Messages, Redeliver(q, m) PROVE Kept
    <2>1. /\ request'[q].stage = Route(m) /\ request'[q].msg = m
          /\ request'[q].incident = delivery[m].incident
          /\ \A p \in Requests \ {q} : request'[p] = request[p]
          /\ delivery' = delivery /\ incident' = incident /\ answered' = answered
      BY <1>3 DEF Redeliver, Enter, Typed, Idle
    <2>2. /\ delivery[m].status = "embedding" => Route(m) = "resume" /\ delivery[m].masked
          /\ delivery[m].status = "processing" => Route(m) = "owner"
          /\ delivery[m].status = "received" =>
                Route(m) = IF delivery[m].masked THEN "triage" ELSE "maskfail"
          /\ delivery[m].status \in {"received", "embedding", "processing"}
      BY <1>3 DEF Redeliver, Route, Requested, MaskedRows
    <2>3. StageOK(q)' /\ request'[q].stage # "calling"
      BY <2>1, <2>2 DEF StageOK, MaskedStages
    <2> QED BY <2>1, <2>3, OnlyRequest
  <1>4. ASSUME NEW m \in Messages, Acknowledge(m) PROVE Kept
    <2>1. /\ delivery' = delivery /\ incident' = incident /\ request' = request
          /\ \A n \in answered' : n \in answered \/ delivery'[n].status = "completed"
      BY <1>4 DEF Acknowledge
    <2>2. /\ \A n \in Messages : QuietRow(n) /\ RowOnward(n) /\ KeepsCall(n)
          /\ \A i \in Incidents : QuietCase(i)
      BY <2>1 DEF QuietRow, QuietCase, RowOnward, KeepsCall, Requested, MaskedRows
    <2>3. Tables'
      BY <2>2, TablesQuiet
    <2>4. Onward
      BY <2>1, <2>2 DEF Onward
    <2> QED BY <1>a, <2>1, <2>2, <2>3, <2>4
  <1>5. ASSUME NEW m \in Messages, WorkLeaseExpires(m) PROVE Kept
    <2>1. /\ delivery'[m] = [delivery[m] EXCEPT !.lease = "expired"]
          /\ \A n \in Messages \ {m} : delivery'[n] = delivery[n]
          /\ delivery[m].status # "processing"
          /\ incident' = incident /\ request' = request /\ answered' = answered
          /\ \A q \in Requests : Active(q) /\ On(q) = m => request[q].token # delivery[m].token
      BY <1>5 DEF WorkLeaseExpires, Typed
    <2>2. /\ delivery'[m].masked = delivery[m].masked
          /\ delivery'[m].status = delivery[m].status
          /\ delivery'[m].owner = delivery[m].owner
          /\ delivery'[m].incident = delivery[m].incident
      BY <2>1, WorkFields
    <2>3. QuietRow(m)
      <3>1. ~delivery[m].owner
        BY <2>1 DEF Tables, Mirrored
      <3>2. CASE delivery[m].status = "completed"
        BY <2>2, <3>1, <3>2 DEF QuietRow, Tables, Filed
      <3>3. CASE delivery[m].status # "completed"
        BY <2>1, <2>2, <3>1, <3>3 DEF QuietRow, Working
      <3> QED BY <3>2, <3>3
    <2>4. RowOnward(m)
      BY <2>1, <2>2 DEF RowOnward, Requested, MaskedRows
    <2>5. \A p \in Requests : Calling(p, m) => KeepsCall(m)
      <3> SUFFICES ASSUME NEW p \in Requests, Calling(p, m) PROVE KeepsCall(m)
        OBVIOUS
      <3>1. StageOK(p) /\ request[p].token # delivery[m].token
        BY <2>1 DEF Calling, Active, On, Requested, RequestsOK
      <3>2. delivery[m].status = "completed"
        BY <3>1 DEF Calling, StageOK
      <3> QED BY <3>2 DEF KeepsCall
    <2>6. ASSUME NEW n \in Messages \ {m} PROVE QuietRow(n) /\ RowOnward(n) /\ KeepsCall(n)
      BY <2>1 DEF QuietRow, RowOnward, KeepsCall, Requested, MaskedRows
    <2>7. \A i \in Incidents : QuietCase(i)
      BY <2>1 DEF QuietCase
    <2>8. Tables'
      BY <2>3, <2>6, <2>7, TablesQuiet
    <2>9. Onward
      BY <2>1, <2>4, <2>6 DEF Onward
    <2> QED BY <1>a, <2>1, <2>5, <2>6, <2>8, <2>9
  <1>6. ASSUME NEW i \in Incidents, OwnerLeaseExpires(i) PROVE Kept
    <2>1. Tables'
      BY <1>6, TablesOwnerLease
    <2>2. /\ incident'[i].status = incident[i].status
          /\ \A j \in Incidents \ {i} : incident'[j] = incident[j]
          /\ \A m \in Messages :
                /\ delivery'[m].status = delivery[m].status
                /\ delivery'[m].incident = delivery[m].incident
                /\ delivery'[m].masked = delivery[m].masked
                /\ delivery[m].token # incident[i].token => delivery'[m] = delivery[m]
      BY <1>6, ExpiredFields
    <2>3. Onward
      BY <2>2 DEF Onward, RowOnward, Requested, MaskedRows
    <2>4. \A m \in Messages : KeepsCall(m)
      <3> SUFFICES ASSUME NEW m \in Messages, delivery[m].token \in Messages \X Nat
                   PROVE  KeepsCall(m)
        BY DEF KeepsCall
      <3>1. incident[i].token = None \/ incident[i].token \in Incidents \X Nat
        BY DEF Tables, Tokened
      <3>2. incident[i].status = "investigating" /\ \E n \in Nat : incident[i].token = <<i, n>>
        BY <1>6 DEF OwnerLeaseExpires, Tables, Tokened
      <3>3. delivery[m].token # incident[i].token
        BY <3>2, AlertsConstants
      <3> QED BY <2>2, <3>3 DEF KeepsCall
    <2>5. request' = request /\ answered' = answered
      BY <1>6 DEF OwnerLeaseExpires
    <2> QED BY <1>a, <2>1, <2>3, <2>4, <2>5
  <1>7. ASSUME NEW i \in Incidents, IssueSent(i) PROVE Kept
    <2>1. /\ incident'[i] = [incident[i] EXCEPT !.issue = "sent"]
          /\ \A j \in Incidents \ {i} : incident'[j] = incident[j]
          /\ incident[i] \in IncidentRecords
          /\ delivery' = delivery /\ request' = request /\ answered' = answered
      BY <1>7 DEF IssueSent, Typed
    <2>2. /\ incident'[i].status = incident[i].status /\ incident'[i].kind = incident[i].kind
          /\ incident'[i].mergedInto = incident[i].mergedInto
          /\ incident'[i].token = incident[i].token /\ incident'[i].lease = incident[i].lease
          /\ incident'[i].issue = "sent"
      BY ONLY <2>1 DEF IncidentRecords
    <2>3. /\ \A n \in Messages : QuietRow(n) /\ RowOnward(n) /\ KeepsCall(n)
          /\ \A j \in Incidents : QuietCase(j)
      BY <2>1, <2>2 DEF QuietRow, QuietCase, RowOnward, KeepsCall, Requested, MaskedRows
    <2>4. Tables'
      BY <2>3, TablesQuiet
    <2>5. Onward
      BY <2>3 DEF Onward, QuietCase
    <2> QED BY <1>a, <2>1, <2>3, <2>4, <2>5
  <1>8. ASSUME NEW i \in Incidents, ReviewIncident(i) PROVE Kept
    <2>1. Tables'
      BY <1>8, TablesReview
    <2>2. /\ incident'[i].status # "absent" /\ \A j \in Incidents \ {i} : incident'[j] = incident[j]
          /\ delivery' = delivery /\ request' = request /\ answered' = answered
      BY <1>8 DEF ReviewIncident, Typed, IncidentRecords
    <2>3. \A n \in Messages : RowOnward(n) /\ KeepsCall(n)
      BY <2>2 DEF RowOnward, KeepsCall, Requested, MaskedRows
    <2>4. Onward
      BY <2>2, <2>3 DEF Onward
    <2> QED BY <1>a, <2>1, <2>2, <2>3, <2>4
  <1> QED BY <1>1, <1>2, <1>3, <1>4, <1>5, <1>6, <1>7, <1>8

OwnedInv == Typed /\ Tables /\ Requested

LEMMA OwnedInit == Init => OwnedInv
  <1> SUFFICES ASSUME Init PROVE OwnedInv
    OBVIOUS
  <1>1. Typed
    BY TypedInit
  <1>2. /\ \A m \in Messages : /\ delivery[m].status = "absent" /\ ~delivery[m].owner
                               /\ ~delivery[m].masked
        /\ \A i \in Incidents : /\ incident[i].status = "absent" /\ incident[i].mergedInto = None
                                /\ incident[i].token = None /\ incident[i].lease = "none"
        /\ \A q \in Requests : request[q].stage = "idle"
        /\ answered = {}
    BY DEF Init, NoDelivery, NoIncident, Idle
  <1>3. Tables
    BY <1>2 DEF Tables, Mirrored, Filed, Tokened
  <1>4. Requested
    BY <1>2 DEF Requested, MaskedRows, RequestsOK, StageOK, MaskedStages, Alone, Calling, Answered
  <1> QED BY <1>1, <1>3, <1>4 DEF OwnedInv

LEMMA OwnedNext == ~Overrun /\ OwnedInv /\ [Next]_vars => OwnedInv'
  <1> SUFFICES ASSUME ~Overrun, Typed, Tables, Requested, [Next]_vars PROVE OwnedInv'
    BY DEF OwnedInv
  <1>1. Typed'
    BY TypedNext
  <1>2. ASSUME NEW q \in Requests, Progress(q) PROVE Kept
    BY <1>1, <1>2, KeptIntake, KeptOwner DEF Progress
  <1>3. ASSUME UNCHANGED vars PROVE Kept
    <2>0. delivery' = delivery /\ incident' = incident /\ request' = request /\ answered' = answered
      BY <1>3 DEF vars
    <2>1. /\ \A n \in Messages : QuietRow(n) /\ RowOnward(n) /\ KeepsCall(n)
          /\ \A i \in Incidents : QuietCase(i)
      BY <2>0 DEF QuietRow, QuietCase, RowOnward, KeepsCall, Requested, MaskedRows
    <2>2. Tables'
      BY <1>1, <2>1, TablesQuiet
    <2>3. Onward /\ {} \in SUBSET Requests
      BY <2>1 DEF Onward, QuietCase
    <2>4. Requested'
      BY <1>1, <2>0, <2>1, <2>3, RequestedKept
    <2> QED BY <2>2, <2>4 DEF Kept
  <1>4. Kept
    <2>1. CASE \E q \in Requests : Progress(q)
      BY <1>2, <2>1
    <2>2. CASE \/ \E q \in Requests : Drop(q)
               \/ \E q \in Requests, m \in Messages : Checkpoint(q, m) \/ Redeliver(q, m)
               \/ \E m \in Messages : Acknowledge(m) \/ WorkLeaseExpires(m)
               \/ \E i \in Incidents : OwnerLeaseExpires(i) \/ IssueSent(i) \/ ReviewIncident(i)
      BY <1>1, <2>2, KeptSurroundings
    <2> QED BY <1>3, <2>1, <2>2 DEF Next
  <1> QED BY <1>1, <1>4 DEF OwnedInv, Kept

\* However embeddings, aggregations, storms and redeliveries interleave, the
\* owner's two rows agree: an investigation has one owner delivery, which
\* carries the incident's token and lease (app/noise.py, app/owner.py).
THEOREM OwnersMirrored == ASSUME ~Overrun PROVE Spec => []OwnerMirrored
  <1>0. OwnedInv /\ [Next]_vars => OwnedInv'
    BY OwnedNext
  <1>1. OwnedInv => OwnerMirrored
    BY DEF OwnedInv, Tables, Mirrored, OwnerMirrored
  <1> QED BY OwnedInit, <1>0, <1>1, PTL DEF Spec

\* Whatever is answered 200 is on an incident that reports it or that a message
\* still to be pushed investigates, even when a storm merged it meanwhile
\* (app/noise.py, merge_normals_into_storm).
THEOREM AnsweredNotLost == ASSUME ~Overrun PROVE Spec => []NoAlertLost
  <1>0. OwnedInv /\ [Next]_vars => OwnedInv'
    BY OwnedNext
  <1>1. ASSUME OwnedInv PROVE NoAlertLost
    <2> SUFFICES ASSUME NEW m \in answered
                 PROVE  /\ delivery[m].status = "completed"
                        /\ \/ incident[Home(m)].issue # "none"
                           \/ /\ incident[Home(m)].status = "investigating"
                              /\ \E n \in Messages \ answered :
                                    delivery[n].owner /\ delivery[n].incident = Home(m)
      BY DEF NoAlertLost
    <2>1. m \in Messages /\ delivery[m].status = "completed"
      BY <1>1 DEF OwnedInv, Typed, Requested, Answered
    <2>2. /\ Home(m) \in Incidents /\ incident[Home(m)].status \notin {"absent", "merged"}
      <3>1. /\ delivery[m].incident \in Incidents
            /\ incident[delivery[m].incident].status # "absent"
        BY <1>1, <2>1 DEF OwnedInv, Tables, Filed
      <3>2. CASE incident[delivery[m].incident].mergedInto = None
        BY <1>1, <3>1, <3>2 DEF OwnedInv, Tables, Filed, Home
      <3>3. CASE incident[delivery[m].incident].mergedInto # None
        <4>1. /\ Home(m) \in Incidents /\ incident[Home(m)].status # "absent"
              /\ incident[Home(m)].kind = "storm"
          BY <1>1, <3>1, <3>3 DEF OwnedInv, Tables, Filed, Home
        <4>2. incident[Home(m)].mergedInto = None
          BY <1>1, <4>1 DEF OwnedInv, Tables, Filed
        <4> QED BY <1>1, <4>1, <4>2 DEF OwnedInv, Tables, Filed
      <3> QED BY <3>2, <3>3
    <2>3. CASE incident[Home(m)].status = "investigating"
      <3>1. PICK n \in Messages : delivery[n].owner /\ delivery[n].incident = Home(m)
        BY <1>1, <2>2, <2>3 DEF OwnedInv, Tables, Mirrored
      <3>2. n \notin answered
        BY <1>1, <3>1 DEF OwnedInv, Tables, Mirrored, Requested, Answered
      <3> QED BY <2>1, <2>3, <3>1, <3>2
    <2>4. CASE incident[Home(m)].status # "investigating"
      <3>1. incident[Home(m)].status \in {"analyzed", "escalated", "resolved"}
        BY <1>1, <2>2, <2>4 DEF OwnedInv, Typed, IncidentRecords, Statuses
      <3> QED BY <1>1, <2>1, <2>2, <3>1 DEF OwnedInv, Tables, Filed
    <2> QED BY <2>3, <2>4
  <1>2. OwnedInv => NoAlertLost
    BY <1>1
  <1> QED BY OwnedInit, <1>0, <1>2, PTL DEF Spec

-----------------------------------------------------------------------------
(***************************************************************************)
(* What one step of Alerts does to the tables, and from it that a live     *)
(* owner is not displaced and that alert_count leaves no message out, for  *)
(* any instance in which no request outlives its lease.                    *)
(***************************************************************************)

Owning == {"owner", "renew", "investigate"}

Others(q) == \A p \in Requests \ {q} : request'[p] = request[p]

\* No row changes hands: a row at work stays at work, another keeps its state,
\* its incident and its token, and at most loses its lease.
RowSteady(m) ==
    \/ /\ Working(delivery[m]) /\ Working(delivery'[m])
       /\ delivery'[m].incident = delivery[m].incident
    \/ /\ delivery'[m].status = delivery[m].status /\ delivery'[m].token = delivery[m].token
       /\ delivery'[m].incident = delivery[m].incident
       /\ delivery'[m].lease = delivery[m].lease \/ delivery'[m].lease # "live"

SameCounts(i) == /\ incident'[i].attempts = incident[i].attempts
                 /\ incident'[i].alerts = incident[i].alerts

CaseSteady(i) ==
    /\ SameCounts(i)
    /\ \/ incident'[i].status = incident[i].status /\ incident'[i].token = incident[i].token
       \/ incident'[i].status = "resolved" /\ incident[i].status \notin {"absent", "investigating"}

Steady == (\A m \in Messages : RowSteady(m)) /\ (\A i \in Incidents : CaseSteady(i))

\* An incident opens with its first message.
Founding(m, s, kind) ==
    /\ Opening(m, s, kind)
    /\ delivery[m].status = "completed" => delivery'[m].status = "completed"
    /\ incident'[s].attempts = 1 /\ incident'[s].alerts = 1
    /\ \A i \in Incidents \ {s} : SameCounts(i)

\* A message joins an incident.
Joining(m, i) ==
    /\ delivery[m].status # "processing"
    /\ delivery'[m].status = "completed" /\ delivery'[m].incident = i
    /\ \A n \in Messages \ {m} : delivery'[n] = delivery[n]
    /\ incident'[i].status = incident[i].status /\ incident'[i].token = incident[i].token
    /\ incident'[i].attempts = incident[i].attempts
    /\ incident'[i].alerts = incident[i].alerts + 1
    /\ \A j \in Incidents \ {i} : incident'[j] = incident[j]

\* The owner q of incident i saves its outcome or renews its lease.
OwnerOf(q, i) ==
    /\ request[q].incident = i /\ On(q) \in Messages
    /\ incident[i].status = "investigating"
    /\ delivery[On(q)].status = "processing" /\ delivery[On(q)].incident = i
    /\ incident[i].token = request[q].itoken /\ delivery[On(q)].token = request[q].token
    /\ delivery'[On(q)].incident = i
    /\ \A n \in Messages \ {On(q)} : delivery'[n] = delivery[n]
    /\ \A j \in Incidents \ {i} : CaseSteady(j)
    /\ incident'[i].alerts = incident[i].alerts

Saving(q, i) ==
    /\ OwnerOf(q, i)
    /\ request[q].stage \in {"renew", "investigate"} /\ request'[q] = Idle
    /\ delivery'[On(q)].status = "completed"
    /\ incident'[i].status \in {"analyzed", "escalated"}
    /\ incident'[i].attempts = incident[i].attempts

Renewing(q, i) ==
    /\ OwnerOf(q, i)
    /\ incident[i].lease = "expired"
    /\ incident'[i].status = "investigating"
    /\ incident'[i].attempts = incident[i].attempts + 1
    /\ incident'[i].token = <<i, incident'[i].attempts>>
    /\ delivery'[On(q)].status = "processing" /\ delivery'[On(q)].token = incident'[i].token
    /\ request'[q].stage = "investigate" /\ request'[q].incident = i
    /\ request'[q].itoken = incident'[i].token

\* A redelivery finds the owner's row without a live lease, and then reads the
\* incident.
Redelivering(q, m) ==
    /\ delivery' = delivery
    /\ delivery[m].status = "processing" /\ delivery[m].lease # "live"
    /\ request'[q].stage = "owner" /\ request'[q].msg = m
    /\ request'[q].incident = delivery[m].incident /\ request'[q].token = delivery[m].token

Rereading(q) ==
    /\ request[q].stage = "owner" /\ request'[q].stage = "renew"
    /\ request'[q].msg = request[q].msg /\ request'[q].token = request[q].token
    /\ request'[q].incident = request[q].incident

SteadyStep ==
    /\ Steady
    /\ \/ request' = request
       \/ \E q \in Requests :
             /\ Others(q)
             /\ \/ request'[q].stage \notin Owning
                \/ \E m \in Messages : Redelivering(q, m)
                \/ Rereading(q)

FoundingStep ==
    \E q \in Requests, m \in Messages, s \in Incidents, kind \in {"normal", "storm"} :
        /\ Founding(m, s, kind) /\ Others(q)
        /\ \/ request'[q].stage \notin Owning
           \/ /\ request'[q].stage = "investigate" /\ request'[q].incident = s
              /\ request'[q].itoken = <<s, 1>>

JoiningStep ==
    \E q \in Requests, m \in Messages, i \in Incidents :
        Joining(m, i) /\ incident[i].status # "absent" /\ Others(q) /\ request'[q].stage \notin Owning

OwnersStep == \E q \in Requests, i \in Incidents : Others(q) /\ (Saving(q, i) \/ Renewing(q, i))

Step == SteadyStep \/ FoundingStep \/ JoiningStep \/ OwnersStep

-----------------------------------------------------------------------------
(* Every action is such a step.                                            *)

\* A row at work names no incident yet.
Unfiled == \A m \in Messages : Working(delivery[m]) => delivery[m].incident = None

LEMMA StillSteady ==
    ASSUME delivery' = delivery, incident' = incident
    PROVE  Steady
  BY DEF Steady, RowSteady, CaseSteady, SameCounts

LEMMA OneRowSteady ==
    ASSUME NEW m \in Messages, incident' = incident, RowSteady(m),
           \A n \in Messages \ {m} : delivery'[n] = delivery[n]
    PROVE  Steady
  BY DEF Steady, RowSteady, CaseSteady, SameCounts

LEMMA QuietRequest ==
    ASSUME Typed, NEW q \in Requests, Steady,
           \/ request' = [request EXCEPT ![q] = Idle]
           \/ \E s \in Stages \ Owning : request' = To(q, s)
           \/ \E i \in Incidents : Choose(q, i)
           \/ \E s \in Stages \ Owning, t \in Tokens :
                 request' = [request EXCEPT ![q].stage = s, ![q].token = t]
           \/ \E s \in Stages \ Owning, hot \in BOOLEAN :
                 request' = [request EXCEPT ![q].stage = s, ![q].hot = hot]
    PROVE  SteadyStep
  <1>1. Others(q)
    BY DEF Others, To, Choose, Typed
  <1>2. request'[q].stage \notin Owning
    <2> USE DEF Typed, Pushes, RequestRecords, Owning
    <2>1. CASE request' = [request EXCEPT ![q] = Idle]
      BY <2>1 DEF Idle
    <2>2. CASE \E s \in Stages \ Owning : request' = To(q, s)
      BY <2>2 DEF To
    <2>3. CASE \E i \in Incidents : Choose(q, i)
      BY <2>3, ZenonT(60) DEF Choose
    <2>4. CASE \E s \in Stages \ Owning, t \in Tokens :
                 request' = [request EXCEPT ![q].stage = s, ![q].token = t]
      <3>1. request \in [Requests -> RequestRecords]
        OBVIOUS
      <3> QED BY ONLY <2>4, <3>1 DEF RequestRecords
    <2>5. CASE \E s \in Stages \ Owning, hot \in BOOLEAN :
                 request' = [request EXCEPT ![q].stage = s, ![q].hot = hot]
      <3>1. request \in [Requests -> RequestRecords]
        OBVIOUS
      <3> QED BY ONLY <2>5, <3>1 DEF RequestRecords
    <2> QED BY <2>1, <2>2, <2>3, <2>4, <2>5
  <1> QED BY <1>1, <1>2 DEF SteadyStep

LEMMA ChooseSteps ==
    ASSUME Typed, NEW q \in Requests, NEW i \in Incidents, Choose(q, i)
    PROVE  Step
  <1>1. Steady
    BY StillSteady DEF Choose
  <1> QED BY <1>1, QuietRequest DEF Step

LEMMA MoveSteps ==
    ASSUME Typed, NEW q \in Requests, NEW s \in Stages \ Owning, request' = To(q, s),
           delivery' = delivery, incident' = incident
    PROVE  Step
  <1>1. Steady
    BY StillSteady
  <1> QED BY <1>1, QuietRequest DEF Step

LEMMA DoneSteps ==
    ASSUME Typed, NEW q \in Requests, Done(q), delivery' = delivery, incident' = incident
    PROVE  Step
  <1>1. Steady
    BY StillSteady
  <1> QED BY <1>1, QuietRequest DEF Step, Done

LEMMA SiftSteps ==
    ASSUME Typed, NEW q \in Requests, NEW next \in {"reserve", "l4"}, Sift(q, next)
    PROVE  Step
  <1>1. CASE \E i \in Incidents : Choose(q, i)
    BY <1>1, ChooseSteps
  <1>2. ASSUME NEW s \in {"storm", next}, request' = To(q, s),
               UNCHANGED <<delivery, incident, budget, answered>>
        PROVE  Step
    <2>1. s \in Stages \ Owning
      BY DEF Stages, Owning
    <2> QED BY <1>2, <2>1, MoveSteps
  <1> QED BY <1>1, <1>2 DEF Sift, OpenStorms, SameKey, OpenNormals

\* Attempts and counts after an opening.
LEMMA OpenedCounts ==
    ASSUME Typed, NEW s \in Incidents, NEW kind \in {"normal", "storm"},
           NEW key \in Keys \cup Messages \cup {"storm"},
           NEW status \in {"investigating", "escalated"}, NEW embedded \in BOOLEAN,
           \/ incident' = Opened(s, kind, key, status, embedded)
           \/ incident' = MergeInto(Opened(s, kind, key, status, embedded), s)
           \/ incident' = CloseMerged(MergeInto(Opened(s, kind, key, status, embedded), s), s)
    PROVE  /\ incident'[s].attempts = 1 /\ incident'[s].alerts = 1
           /\ \A i \in Incidents \ {s} : SameCounts(i)
  <1> DEFINE opened == Opened(s, kind, key, status, embedded)
             merged == MergeInto(opened, s)
  <1>1. NewIncident(s, kind, key, status, embedded) \in IncidentRecords
    BY IncidentValues DEF Typed
  <1>2. /\ opened \in [Incidents -> IncidentRecords]
        /\ opened[s] = NewIncident(s, kind, key, status, embedded)
        /\ \A i \in Incidents \ {s} : opened[i] = incident[i]
    BY <1>1 DEF Typed, Opened
  <1>3. opened[s].attempts = 1 /\ opened[s].alerts = 1
    BY <1>2 DEF NewIncident, NoIncident
  <1>4. merged \in [Incidents -> IncidentRecords]
    BY <1>2, MergeTypes
  <1>5. \A i \in Incidents :
           merged[i].attempts = opened[i].attempts /\ merged[i].alerts = opened[i].alerts
    <2> SUFFICES ASSUME NEW i \in Incidents
                 PROVE  /\ merged[i].attempts = opened[i].attempts
                        /\ merged[i].alerts = opened[i].alerts
      OBVIOUS
    <2>1. opened[i] \in IncidentRecords
      BY <1>2
    <2> QED BY ONLY <2>1 DEF MergeInto, IncidentRecords
  <1>6. \A i \in Incidents :
           /\ CloseMerged(merged, s)[i].attempts = merged[i].attempts
           /\ CloseMerged(merged, s)[i].alerts = merged[i].alerts
    <2> SUFFICES ASSUME NEW i \in Incidents
                 PROVE  /\ CloseMerged(merged, s)[i].attempts = merged[i].attempts
                        /\ CloseMerged(merged, s)[i].alerts = merged[i].alerts
      OBVIOUS
    <2>1. merged[i] \in IncidentRecords
      BY <1>4
    <2> HIDE DEF merged
    <2> QED BY ONLY <2>1 DEF CloseMerged, IncidentRecords
  <1>7. incident' = opened \/ incident' = merged \/ incident' = CloseMerged(merged, s)
    OBVIOUS
  <1> HIDE DEF opened, merged
  <1>8. \A i \in Incidents :
           incident'[i].attempts = opened[i].attempts /\ incident'[i].alerts = opened[i].alerts
    BY <1>5, <1>6, <1>7
  <1> QED BY <1>2, <1>3, <1>8 DEF SameCounts

LEMMA EscalateSteps ==
    ASSUME Typed, Tables, NEW q \in Requests, On(q) \in Messages,
           delivery[On(q)].status # "processing",
           NEW kind \in {"normal", "storm"}, NEW key \in Keys \cup Messages \cup {"storm"},
           NEW embedded \in BOOLEAN, Escalate(q, kind, key, embedded)
    PROVE  Step
  <1> DEFINE m == On(q)
  <1>0. m = On(q) /\ m \in Messages /\ delivery[m].status # "processing"
    OBVIOUS
  <1> HIDE DEF m
  <1> DEFINE opened(s) == Opened(s, kind, key, "escalated", embedded)
  <1>1. PICK s \in Incidents :
           /\ Opening(m, s, kind) /\ delivery'[m].status = "completed" /\ Done(q)
           /\ \/ incident' = opened(s)
              \/ incident' = CloseMerged(MergeInto(opened(s), s), s)
    BY <1>0, EscalateOpens
  <1>2. "escalated" \in {"investigating", "escalated"}
    OBVIOUS
  <1>3. /\ incident'[s].attempts = 1 /\ incident'[s].alerts = 1
        /\ \A i \in Incidents \ {s} : SameCounts(i)
    BY <1>1, <1>2, OpenedCounts
  <1>4. Founding(m, s, kind)
    BY <1>1, <1>3 DEF Founding
  <1>5. Others(q) /\ request'[q].stage \notin Owning
    BY <1>1 DEF Done, Others, Typed, Idle, Owning
  <1> QED BY <1>0, <1>4, <1>5 DEF Step, FoundingStep

LEMMA EscalateAsSteps ==
    ASSUME Typed, Tables, NEW q \in Requests, On(q) \in Messages,
           delivery[On(q)].status # "processing", NEW embedded \in BOOLEAN,
           EscalateAs(q, embedded)
    PROVE  Step
  <1>1. Key[On(q)] \in Keys
    BY AlertsConstants
  <1>2. CASE Escalate(q, "storm", "storm", embedded)
    BY <1>2, EscalateSteps
  <1>3. CASE Escalate(q, "normal", Key[On(q)], embedded)
    BY <1>1, <1>3, EscalateSteps
  <1> QED BY <1>2, <1>3 DEF EscalateAs

LEMMA InvestigateSteps ==
    ASSUME Typed, Tables, NEW q \in Requests, On(q) \in Messages, Claimable(q),
           NEW s \in Incidents, incident[s].status = "absent",
           NEW kind \in {"normal", "storm"}, NEW key \in Keys \cup Messages \cup {"storm"},
           \/ /\ kind = "normal" /\ incident' = Opened(s, kind, key, "investigating", TRUE)
              /\ delivery' = [delivery EXCEPT ![On(q)] = Owned(On(q), s, 1)]
           \/ /\ kind = "storm"
              /\ incident' = MergeInto(Opened(s, kind, key, "investigating", TRUE), s)
              /\ delivery' = [Relieved(delivery, s) EXCEPT ![On(q)] = Owned(On(q), s, 1)],
           request' = Investigating(q, s)
    PROVE  Step
  <1> DEFINE m == On(q)
  <1>0. m = On(q) /\ m \in Messages /\ delivery[m].status = "received"
    BY DEF Claimable
  <1>1. Opening(m, s, kind)
    BY <1>0, OwnerOpens
  <1>2. "investigating" \in {"investigating", "escalated"} /\ TRUE \in BOOLEAN
    OBVIOUS
  <1>3. /\ incident'[s].attempts = 1 /\ incident'[s].alerts = 1
        /\ \A i \in Incidents \ {s} : SameCounts(i)
    BY <1>2, OpenedCounts
  <1> HIDE DEF m
  <1>4. Founding(m, s, kind)
    BY <1>0, <1>1, <1>3 DEF Founding
  <1>5. /\ Others(q) /\ request'[q].stage = "investigate"
        /\ request'[q].incident = s /\ request'[q].itoken = <<s, 1>>
    BY DEF Investigating, Others, Typed, Pushes, RequestRecords
  <1> QED BY <1>0, <1>4, <1>5 DEF Step, FoundingStep

LEMMA IntakeSteps ==
    ASSUME Typed, Tables, Requested, NEW q \in Requests,
           \/ Completed(q) \/ Mask(q) \/ MaskingError(q) \/ MaskingFailureEscalation(q)
           \/ RunAfterMasking(q) \/ StormBranch(q) \/ ResumeEmbedding(q)
           \/ ReserveEmbedding(q) \/ ClaimEmbedding(q) \/ SaveEmbedding(q)
           \/ EmbeddingFailed(q) \/ PostEmbedding(q)
    PROVE  Step
  <1> DEFINE m == On(q)
  <1>0. /\ m = On(q) /\ m \in Messages /\ StageOK(q)
        /\ request[q].msg = m /\ request[q] \in Pushes /\ delivery[m] \in DeliveryRecords
    BY OnMessage DEF Completed, Mask, MaskingError, MaskingFailureEscalation, RunAfterMasking,
       StormBranch, ResumeEmbedding, ReserveEmbedding, ClaimEmbedding, SaveEmbedding,
       EmbeddingFailed, PostEmbedding, Typed, Requested, RequestsOK, On, Deliveries
  <1> HIDE DEF m
  <1>b. ASSUME NEW i \in Incidents, Choose(q, i) PROVE Step
    BY <1>b, ChooseSteps
  <1>c. ASSUME NEW hot \in BOOLEAN,
               request' = [request EXCEPT ![q].stage = "reserve", ![q].hot = hot],
               delivery' = delivery, incident' = incident
        PROVE  Step
    <2>1. Steady
      BY <1>c, StillSteady
    <2>2. "reserve" \in Stages \ Owning
      BY DEF Stages, Owning
    <2> QED BY <1>c, <2>1, <2>2, QuietRequest DEF Step
  <1>d. {"triage", "maskfail", "embed", "post", "declare", "calling"} \subseteq Stages \ Owning
    BY DEF Stages, Owning
  <1>e. AfterEmbedding(q) \in {"declare", "post"}
    BY DEF AfterEmbedding
  <1>f. ASSUME NEW s \in {"triage", "embed", "post", "declare"}, request' = To(q, s), Steady
        PROVE  Step
    BY <1>d, <1>f, QuietRequest DEF Step
  <1>1. CASE Completed(q)
    BY <1>1, DoneSteps DEF Completed
  <1>2. CASE Mask(q)
    <2>1. /\ delivery'[m] = [delivery[m] EXCEPT !.masked = TRUE, !.lease = "none"]
          /\ \A n \in Messages \ {m} : delivery'[n] = delivery[n]
      BY <1>0, <1>2 DEF Mask, Typed
    <2>2. RowSteady(m)
      BY <1>0, <2>1 DEF RowSteady, DeliveryRecords
    <2>3. Steady
      BY <1>0, <1>2, <2>1, <2>2, OneRowSteady DEF Mask
    <2> QED BY <1>2, <1>f, <2>3 DEF Mask
  <1>3. CASE MaskingError(q)
    BY <1>3, <1>d, MoveSteps DEF MaskingError
  <1>4. CASE MaskingFailureEscalation(q)
    <2>1. delivery[m].status # "processing"
      BY <1>0, <1>4 DEF MaskingFailureEscalation, Requested, MaskedRows
    <2> QED BY <1>0, <1>4, <2>1, EscalateSteps DEF MaskingFailureEscalation
  <1>5. CASE RunAfterMasking(q)
    BY <1>5, SiftSteps DEF RunAfterMasking
  <1>6. CASE PostEmbedding(q)
    BY <1>6, SiftSteps DEF PostEmbedding
  <1>7. CASE StormBranch(q)
    BY <1>7, <1>b, <1>c DEF StormBranch, OpenStorms
  <1>8. CASE ResumeEmbedding(q)
    <2>1. Surges \subseteq BOOLEAN
      BY DEF Surges
    <2>2. CASE \E hot \in Surges :
                 /\ request' = [request EXCEPT ![q].stage = "reserve", ![q].hot = hot]
                 /\ UNCHANGED <<delivery, incident, budget, answered>>
      BY <1>c, <2>1, <2>2
    <2>3. CASE \E s \in OpenStorms : Choose(q, s)
      BY <1>b, <2>3 DEF OpenStorms
    <2> QED BY <1>8, <2>2, <2>3 DEF ResumeEmbedding
  <1>9. CASE ReserveEmbedding(q)
    <2>1. delivery[m].status # "processing"
      BY <1>0, <1>9 DEF ReserveEmbedding
    <2>2. CASE /\ delivery' = [delivery EXCEPT ![m] = Charged(@)]
               /\ request' = To(q, "embed")
               /\ UNCHANGED <<incident, investigations, answered>>
      <3>1. /\ delivery'[m] = Charged(delivery[m])
            /\ \A n \in Messages \ {m} : delivery'[n] = delivery[n]
        BY <1>0, <2>2 DEF Typed
      <3>2. RowSteady(m)
        BY <1>0, <3>1 DEF RowSteady, Charged, DeliveryRecords
      <3>3. Steady
        BY <1>0, <2>2, <3>1, <3>2, OneRowSteady
      <3> QED BY <1>f, <2>2, <3>3
    <2>3. CASE EscalateAs(q, FALSE)
      BY <1>0, <2>1, <2>3, EscalateAsSteps
    <2>4. CASE \E s \in OpenStorms : Choose(q, s)
      BY <1>b, <2>4 DEF OpenStorms
    <2>5. CASE /\ \E s \in {"embed", AfterEmbedding(q)} : request' = To(q, s)
               /\ UNCHANGED <<delivery, incident, budget, answered>>
      BY <1>d, <1>e, <2>5, MoveSteps
    <2> QED BY <1>0, <1>9, <2>2, <2>3, <2>4, <2>5 DEF ReserveEmbedding
  <1>10. CASE ClaimEmbedding(q)
    <2>1. CASE Embeddable(delivery[m])
      <3> DEFINE d == delivery[m]
                 t == <<m, d.attempts + 1>>
      <3>1. /\ delivery'[m] = [d EXCEPT !.status = "embedding", !.attempts = @ + 1,
                                        !.token = t, !.lease = "live"]
            /\ \A n \in Messages \ {m} : delivery'[n] = delivery[n]
            /\ request' = [request EXCEPT ![q].stage = "calling", ![q].token = t]
            /\ incident' = incident
        BY <1>0, <1>10, <2>1 DEF ClaimEmbedding, Typed
      <3>2. t \in Tokens
        <4>1. d.attempts \in 0 .. MaxAttempts /\ d.attempts < MaxAttempts
          BY <1>0, <2>1 DEF Embeddable, DeliveryRecords
        <4>2. d.attempts + 1 \in 0 .. MaxAttempts
          BY <4>1, AlertsConstants
        <4> QED BY <1>0, <4>2, TokenValues
      <3> HIDE DEF t
      <3>3. RowSteady(m)
        BY <1>0, <2>1, <3>1 DEF RowSteady, Working, Embeddable, DeliveryRecords
      <3>4. Steady
        BY <1>0, <3>1, <3>3, OneRowSteady
      <3> QED BY <1>d, <3>1, <3>2, <3>4, QuietRequest DEF Step
    <2>2. CASE ~Embeddable(delivery[m])
      BY <1>0, <1>10, <1>d, <1>e, <2>2, MoveSteps DEF ClaimEmbedding
    <2> QED BY <2>1, <2>2
  <1>11. CASE SaveEmbedding(q)
    <2>1. /\ delivery'[m] = [delivery[m] EXCEPT !.embedded = TRUE, !.status = "received",
                                                !.lease = "none"]
          /\ \A n \in Messages \ {m} : delivery'[n] = delivery[n]
          /\ delivery[m].status = "embedding" /\ incident' = incident
          /\ request' = To(q, AfterEmbedding(q))
      BY <1>0, <1>11 DEF SaveEmbedding, Typed
    <2>2. RowSteady(m)
      BY <1>0, <2>1 DEF RowSteady, Working, DeliveryRecords
    <2>3. Steady
      BY <1>0, <2>1, <2>2, OneRowSteady
    <2> QED BY <1>e, <1>f, <2>1, <2>3
  <1>12. CASE EmbeddingFailed(q)
    <2>1. delivery[m].status # "processing"
      BY <1>0, <1>12 DEF EmbeddingFailed, StageOK
    <2> QED BY <1>0, <1>12, <1>b, <2>1, EscalateAsSteps DEF EmbeddingFailed, OpenStorms
  <1> QED BY <1>1, <1>2, <1>3, <1>4, <1>5, <1>6, <1>7, <1>8, <1>9, <1>10, <1>11, <1>12

\* save_owner_analysis and the final escalation.
LEMMA SaveSteps ==
    ASSUME Typed, NEW q \in Requests, On(q) \in Messages,
           request[q].stage \in {"renew", "investigate"}, request[q].incident \in Incidents,
           NEW outcome \in {"analyzed", "escalated"}, SaveAs(q, outcome)
    PROVE  Step
  <1> DEFINE m == On(q)
             i == request[q].incident
             saved == [incident EXCEPT ![i] = [incident[i] EXCEPT
                          !.status = outcome, !.lease = "expired", !.issue = "pending"]]
  <1>0. m = On(q) /\ m \in Messages /\ i = request[q].incident /\ i \in Incidents
    OBVIOUS
  <1>1. /\ incident' = saved \/ incident' = CloseMerged(saved, i)
        /\ delivery' = [delivery EXCEPT ![m] = [delivery[m] EXCEPT
                           !.status = "completed", !.owner = FALSE, !.lease = "none"]]
        /\ Done(q) /\ Holds(q)
    BY DEF SaveAs, Typed
  <1> HIDE DEF m, i
  <1>2. /\ incident[i] \in IncidentRecords /\ delivery[m] \in DeliveryRecords
        /\ saved \in [Incidents -> IncidentRecords]
        /\ saved[i] = [incident[i] EXCEPT !.status = outcome, !.lease = "expired",
                                          !.issue = "pending"]
        /\ \A j \in Incidents \ {i} : saved[j] = incident[j]
    <2>1. incident[i] \in IncidentRecords /\ delivery[m] \in DeliveryRecords
      BY <1>0 DEF Typed, Deliveries
    <2>2. [incident[i] EXCEPT !.status = outcome, !.lease = "expired", !.issue = "pending"]
             \in IncidentRecords
      BY <2>1 DEF IncidentRecords, Statuses, Leases
    <2> QED BY <1>0, <2>1, <2>2 DEF Typed
  <1>3. /\ saved[i].status = outcome /\ saved[i].attempts = incident[i].attempts
        /\ saved[i].alerts = incident[i].alerts
    BY ONLY <1>2 DEF IncidentRecords
  <1> HIDE DEF saved
  <1>4. \A j \in Incidents :
           /\ incident'[j].status = saved[j].status /\ incident'[j].token = saved[j].token
           /\ incident'[j].attempts = saved[j].attempts /\ incident'[j].alerts = saved[j].alerts
    <2>1. CASE incident' = saved
      BY <2>1
    <2>2. CASE incident' = CloseMerged(saved, i)
      <3> SUFFICES ASSUME NEW j \in Incidents
                   PROVE  /\ incident'[j].status = saved[j].status
                          /\ incident'[j].token = saved[j].token
                          /\ incident'[j].attempts = saved[j].attempts
                          /\ incident'[j].alerts = saved[j].alerts
        OBVIOUS
      <3>1. saved[j] \in IncidentRecords
        BY <1>2
      <3> QED BY ONLY <2>2, <3>1 DEF CloseMerged, IncidentRecords
    <2> QED BY <1>1, <2>1, <2>2
  <1>5. /\ delivery'[m].status = "completed" /\ delivery'[m].incident = delivery[m].incident
        /\ \A n \in Messages \ {m} : delivery'[n] = delivery[n]
    <2>1. /\ delivery'[m] = [delivery[m] EXCEPT !.status = "completed", !.owner = FALSE,
                                                !.lease = "none"]
          /\ \A n \in Messages \ {m} : delivery'[n] = delivery[n]
      BY <1>0, <1>1 DEF Typed
    <2> QED BY ONLY <1>2, <2>1 DEF DeliveryRecords
  <1>6. \A j \in Incidents \ {i} : CaseSteady(j)
    BY <1>2, <1>4 DEF CaseSteady, SameCounts
  <1>7. OwnerOf(q, i)
    BY <1>0, <1>1, <1>3, <1>4, <1>5, <1>6 DEF OwnerOf, Holds, HoldsIncident, HoldsDelivery
  <1>8. Others(q) /\ request'[q] = Idle
    BY <1>1 DEF Done, Others, Typed
  <1>9. Saving(q, i)
    BY <1>0, <1>3, <1>4, <1>5, <1>7, <1>8 DEF Saving
  <1> QED BY <1>0, <1>8, <1>9 DEF Step, OwnersStep

LEMMA OwnerSteps ==
    ASSUME Typed, Tables, Requested, NEW q \in Requests,
           \/ SimilarOrNew(q) \/ DeclareStorm(q) \/ Aggregate(q)
           \/ SaveOwnerAnalysis(q) \/ MergedMeanwhile(q) \/ ExpireOwnerLease(q)
           \/ ResumeOwner(q) \/ RenewOwnerLease(q) \/ SaveFinalEscalation(q)
    PROVE  Step
  <1> DEFINE m == On(q)
             i == request[q].incident
  <1>0. /\ m = On(q) /\ m \in Messages /\ Key[m] \in Keys /\ StageOK(q)
        /\ request[q].msg = m /\ i = request[q].incident
        /\ request[q].stage \in OnIncident => i \in Incidents /\ incident[i] \in IncidentRecords
        /\ delivery[m] \in DeliveryRecords
    BY OnMessage DEF SimilarOrNew, DeclareStorm, Aggregate, SaveOwnerAnalysis, MergedMeanwhile,
       ExpireOwnerLease, ResumeOwner, RenewOwnerLease, SaveFinalEscalation, Typed, Pushes,
       Requested, RequestsOK, On, Deliveries
  <1> HIDE DEF m, i
  <1>b. ASSUME NEW j \in Incidents, Choose(q, j) PROVE Step
    BY <1>b, ChooseSteps
  <1>1. CASE SimilarOrNew(q)
    <2>1. Claimable(q) /\ delivery[m].status # "processing"
      BY <1>0, <1>1 DEF SimilarOrNew, Claimable
    <2>2. CASE \E j \in Similar : Choose(q, j)
      BY <1>b, <2>2 DEF Similar
    <2>3. CASE \E j \in Incidents :
                 /\ incident[j].status = "absent"
                 /\ incident' = [incident EXCEPT ![j] =
                        NewIncident(j, "normal", Key[m], "investigating", TRUE)]
                 /\ delivery' = [delivery EXCEPT ![m] = Owned(m, j, 1)]
                 /\ request' = Investigating(q, j)
      BY <1>0, <2>1, <2>3, InvestigateSteps DEF Opened
    <2>4. CASE Escalate(q, "normal", Key[m], TRUE)
      BY <1>0, <2>1, <2>4, EscalateSteps
    <2> QED BY <1>0, <1>1, <2>2, <2>3, <2>4 DEF SimilarOrNew
  <1>2. CASE DeclareStorm(q)
    <2>1. Claimable(q) /\ delivery[m].status # "processing"
      BY <1>0, <1>2 DEF DeclareStorm, Claimable
    <2>2. CASE \E j \in OpenStorms : Choose(q, j)
      BY <1>b, <2>2 DEF OpenStorms
    <2>3. CASE \E s \in Incidents :
                 /\ incident[s].status = "absent"
                 /\ incident' = MergeInto([incident EXCEPT ![s] =
                        NewIncident(s, "storm", "storm", "investigating", TRUE)], s)
                 /\ delivery' = [Relieved(delivery, s) EXCEPT ![m] = Owned(m, s, 1)]
                 /\ request' = Investigating(q, s)
      BY <1>0, <2>1, <2>3, InvestigateSteps DEF Opened
    <2>4. CASE Escalate(q, "storm", "storm", TRUE)
      BY <1>0, <2>1, <2>4, EscalateSteps
    <2> QED BY <1>0, <1>2, <2>2, <2>3, <2>4 DEF DeclareStorm
  <1>3. CASE Aggregate(q)
    <2>1. /\ i \in Incidents /\ incident[i] \in IncidentRecords
          /\ delivery[m].status # "processing" /\ incident[i].status # "absent"
      BY <1>0, <1>3 DEF Aggregate, OnIncident, StageOK
    <2>2. /\ incident'[i] = Joined(incident[i], m, request[q].seen)
          /\ \A j \in Incidents \ {i} : incident'[j] = incident[j]
          /\ delivery'[m] = Attached(m, i)
          /\ \A n \in Messages \ {m} : delivery'[n] = delivery[n]
          /\ Done(q)
      BY <1>0, <1>3, <2>1 DEF Aggregate, Typed
    <2>3. /\ incident'[i].status = incident[i].status
          /\ incident'[i].token = incident[i].token
          /\ incident'[i].attempts = incident[i].attempts
          /\ incident'[i].alerts = incident[i].alerts + 1
      BY ONLY <2>1, <2>2 DEF Joined, IncidentRecords
    <2>4. delivery'[m].status = "completed" /\ delivery'[m].incident = i
      BY <1>0, <2>1, <2>2, RowFields
    <2>5. Joining(m, i)
      BY <2>1, <2>2, <2>3, <2>4 DEF Joining
    <2>6. Others(q) /\ request'[q].stage \notin Owning
      BY <2>2 DEF Done, Others, Typed, Idle, Owning
    <2> QED BY <1>0, <2>1, <2>5, <2>6 DEF Step, JoiningStep
  <1>4. CASE SaveOwnerAnalysis(q)
    BY <1>0, <1>4, SaveSteps DEF SaveOwnerAnalysis, OnIncident
  <1>5. CASE MergedMeanwhile(q)
    BY <1>5, DoneSteps DEF MergedMeanwhile
  <1>6. CASE ExpireOwnerLease(q)
    <2>1. /\ i \in Incidents /\ incident[i] \in IncidentRecords
      BY <1>0, <1>6 DEF ExpireOwnerLease, OnIncident
    <2>2. /\ incident'[i] = [incident[i] EXCEPT !.lease = "expired"]
          /\ \A j \in Incidents \ {i} : incident'[j] = incident[j]
          /\ delivery'[m] = [delivery[m] EXCEPT !.lease = "expired"]
          /\ \A n \in Messages \ {m} : delivery'[n] = delivery[n]
          /\ request' = [request EXCEPT ![q] = Idle]
      BY <1>0, <1>6, <2>1 DEF ExpireOwnerLease, Typed
    <2>3. CaseSteady(i)
      BY ONLY <2>1, <2>2 DEF CaseSteady, SameCounts, IncidentRecords
    <2>4. RowSteady(m)
      BY ONLY <1>0, <2>2 DEF RowSteady, DeliveryRecords
    <2>5. Steady
      BY <2>2, <2>3, <2>4 DEF Steady, RowSteady, CaseSteady, SameCounts
    <2> QED BY <2>2, <2>5, QuietRequest DEF Step
  <1>7. CASE ResumeOwner(q)
    <2>1. CASE Done(q)
      BY <1>7, <2>1, DoneSteps DEF ResumeOwner
    <2>2. CASE request' = [request EXCEPT ![q].stage = "renew",
                                          ![q].itoken = incident[i].token,
                                          ![q].spent = Spent(i)]
      <3>1. Steady
        BY <1>7, StillSteady DEF ResumeOwner
      <3>2. Others(q) /\ Rereading(q)
        BY <1>7, <2>2 DEF ResumeOwner, Others, Rereading, Typed, Pushes, RequestRecords
      <3> QED BY <3>1, <3>2 DEF Step, SteadyStep
    <2> QED BY <1>0, <1>7, <2>1, <2>2 DEF ResumeOwner
  <1>8. CASE RenewOwnerLease(q)
    <2> DEFINE n == incident[i].attempts + 1
    <2>1. /\ i \in Incidents /\ incident[i] \in IncidentRecords
      BY <1>0, <1>8 DEF RenewOwnerLease, OnIncident
    <2>2. /\ Holds(q) /\ incident[i].lease = "expired"
      BY <1>0, <1>8 DEF RenewOwnerLease, Renewable
    <2>3. incident' = [incident EXCEPT ![i] =
             [incident[i] EXCEPT !.token = <<i, n>>, !.lease = "live", !.attempts = n]]
      BY <1>0, <1>8, <2>1 DEF RenewOwnerLease, Typed
    <2>4. delivery' = [delivery EXCEPT ![m] =
             [delivery[m] EXCEPT !.token = <<i, n>>, !.lease = "live"]]
      BY <1>0, <1>8, <2>1 DEF RenewOwnerLease, Typed
    <2>5. request' = [request EXCEPT ![q] =
             [request[q] EXCEPT !.stage = "investigate", !.token = <<i, n>>,
                                !.itoken = <<i, n>>]]
      BY <1>0, <1>8, <2>1 DEF RenewOwnerLease, Typed
    <2>n. n = incident[i].attempts + 1
      OBVIOUS
    <2> HIDE DEF n
    <2>6. /\ incident'[i] = [incident[i] EXCEPT !.token = <<i, n>>, !.lease = "live",
                                                !.attempts = n]
          /\ \A j \in Incidents \ {i} : incident'[j] = incident[j]
          /\ delivery'[m] = [delivery[m] EXCEPT !.token = <<i, n>>, !.lease = "live"]
          /\ \A x \in Messages \ {m} : delivery'[x] = delivery[x]
      BY <1>0, <2>1, <2>3, <2>4 DEF Typed
    <2>7. /\ incident'[i].status = incident[i].status /\ incident'[i].attempts = n
          /\ incident'[i].token = <<i, n>> /\ incident'[i].alerts = incident[i].alerts
          /\ delivery'[m].status = delivery[m].status
          /\ delivery'[m].incident = delivery[m].incident /\ delivery'[m].token = <<i, n>>
      BY ONLY <1>0, <2>1, <2>6 DEF IncidentRecords, DeliveryRecords
    <2>8. /\ Others(q) /\ request'[q].stage = "investigate" /\ request'[q].incident = i
          /\ request'[q].itoken = <<i, n>>
      BY <1>0, <2>5 DEF Others, Typed, Pushes, RequestRecords
    <2>9. \A j \in Incidents \ {i} : CaseSteady(j)
      BY <2>6 DEF CaseSteady, SameCounts
    <2>10. OwnerOf(q, i)
      BY <1>0, <2>2, <2>6, <2>7, <2>9 DEF OwnerOf, Holds, HoldsIncident, HoldsDelivery
    <2>11. Renewing(q, i)
      <3>1. delivery[m].status = "processing" /\ incident[i].status = "investigating"
        BY <1>0, <2>10 DEF OwnerOf
      <3> QED BY <1>0, <2>2, <2>n, <2>7, <2>8, <2>10, <3>1 DEF Renewing
    <2> QED BY <2>1, <2>8, <2>11 DEF Step, OwnersStep
  <1>9. CASE SaveFinalEscalation(q)
    BY <1>0, <1>9, SaveSteps DEF SaveFinalEscalation, OnIncident
  <1> QED BY <1>1, <1>2, <1>3, <1>4, <1>5, <1>6, <1>7, <1>8, <1>9

LEMMA SurroundingSteps ==
    ASSUME Typed, Tables, Requested, Unfiled,
           \/ \E q \in Requests : Drop(q)
           \/ \E q \in Requests, m \in Messages : Checkpoint(q, m) \/ Redeliver(q, m)
           \/ \E m \in Messages : Acknowledge(m) \/ WorkLeaseExpires(m)
           \/ \E i \in Incidents : OwnerLeaseExpires(i) \/ IssueSent(i) \/ ReviewIncident(i)
    PROVE  Step
  <1>a. ASSUME Steady, request' = request PROVE Step
    BY <1>a DEF Step, SteadyStep
  <1>1. ASSUME NEW q \in Requests, Drop(q) PROVE Step
    <2>1. Steady
      BY <1>1, StillSteady DEF Drop
    <2> QED BY <1>1, <2>1, QuietRequest DEF Drop, Step
  <1>2. ASSUME NEW q \in Requests, NEW m \in Messages, Checkpoint(q, m) PROVE Step
    <2>1. /\ delivery'[m] = Received(m) /\ delivery[m].status = "absent"
          /\ \A n \in Messages \ {m} : delivery'[n] = delivery[n]
          /\ incident' = incident
      BY <1>2 DEF Checkpoint, Typed
    <2>2. delivery[m].incident = None
      BY <2>1 DEF Unfiled, Working
    <2>3. RowSteady(m)
      BY <2>1, <2>2 DEF RowSteady, Working, Received, NoDelivery
    <2>4. Steady
      BY <2>1, <2>3, OneRowSteady
    <2>5. Others(q) /\ request'[q].stage \notin Owning
      BY <1>2 DEF Checkpoint, Others, Typed, Idle, Owning
    <2> QED BY <2>4, <2>5 DEF Step, SteadyStep
  <1>3. ASSUME NEW q \in Requests, NEW m \in Messages, Redeliver(q, m) PROVE Step
    <2>1. Steady
      BY <1>3, StillSteady DEF Redeliver
    <2>2. /\ Others(q) /\ request'[q].stage = Route(m) /\ request'[q].msg = m
          /\ request'[q].incident = delivery[m].incident /\ request'[q].token = delivery[m].token
          /\ delivery' = delivery /\ delivery[m].lease # "live"
          /\ delivery[m].status \in {"received", "embedding", "processing"}
      BY <1>3 DEF Redeliver, Others, Enter, Typed, Idle
    <2>3. CASE delivery[m].status = "processing"
      <3>1. Redelivering(q, m)
        <4>1. delivery[m].masked
          BY <2>3 DEF Requested, MaskedRows
        <4>2. Route(m) = "owner"
          BY <2>3, <4>1 DEF Route
        <4> QED BY <2>2, <2>3, <4>2 DEF Redelivering
      <3> QED BY <2>1, <2>2, <3>1 DEF Step, SteadyStep
    <2>4. CASE delivery[m].status # "processing"
      <3>1. Route(m) \notin Owning
        BY <2>2, <2>4 DEF Route, Owning
      <3> QED BY <2>1, <2>2, <3>1 DEF Step, SteadyStep
    <2> QED BY <2>3, <2>4
  <1>4. ASSUME NEW m \in Messages, Acknowledge(m) PROVE Step
    BY <1>4, <1>a, StillSteady DEF Acknowledge
  <1>5. ASSUME NEW m \in Messages, WorkLeaseExpires(m) PROVE Step
    <2>1. /\ delivery'[m] = [delivery[m] EXCEPT !.lease = "expired"]
          /\ \A n \in Messages \ {m} : delivery'[n] = delivery[n]
          /\ incident' = incident /\ request' = request
          /\ delivery[m] \in DeliveryRecords
      BY <1>5 DEF WorkLeaseExpires, Typed, Deliveries
    <2>2. RowSteady(m)
      BY ONLY <2>1 DEF RowSteady, DeliveryRecords
    <2> QED BY <1>a, <2>1, <2>2, OneRowSteady
  <1>6. ASSUME NEW i \in Incidents, OwnerLeaseExpires(i) PROVE Step
    <2>1. /\ incident'[i] = [incident[i] EXCEPT !.lease = "expired"]
          /\ incident[i] \in IncidentRecords
          /\ \A j \in Incidents \ {i} : incident'[j] = incident[j]
          /\ request' = request
      BY <1>6 DEF OwnerLeaseExpires, Typed
    <2>2. CaseSteady(i)
      BY ONLY <2>1 DEF CaseSteady, SameCounts, IncidentRecords
    <2>3. ASSUME NEW m \in Messages PROVE RowSteady(m)
      <3>1. delivery[m] \in DeliveryRecords
        BY DEF Typed, Deliveries
      <3>2. \/ delivery'[m] = [delivery[m] EXCEPT !.lease = "expired"]
            \/ delivery'[m] = delivery[m]
        BY <1>6 DEF OwnerLeaseExpires
      <3> QED BY ONLY <3>1, <3>2 DEF RowSteady, DeliveryRecords
    <2>4. Steady
      BY <2>1, <2>2, <2>3 DEF Steady, CaseSteady, SameCounts
    <2> QED BY <1>a, <2>1, <2>4
  <1>7. ASSUME NEW i \in Incidents, IssueSent(i) PROVE Step
    <2>1. /\ incident'[i] = [incident[i] EXCEPT !.issue = "sent"]
          /\ incident[i] \in IncidentRecords
          /\ \A j \in Incidents \ {i} : incident'[j] = incident[j]
          /\ delivery' = delivery /\ request' = request
      BY <1>7 DEF IssueSent, Typed
    <2>2. CaseSteady(i)
      BY ONLY <2>1 DEF CaseSteady, SameCounts, IncidentRecords
    <2>3. Steady
      BY <2>1, <2>2 DEF Steady, CaseSteady, SameCounts, RowSteady
    <2> QED BY <1>a, <2>1, <2>3
  <1>8. ASSUME NEW i \in Incidents, ReviewIncident(i) PROVE Step
    <2>1. /\ incident'[i] = [incident[i] EXCEPT !.status = "resolved", !.token = None,
                                                !.lease = "expired"]
          /\ incident[i].status \in {"analyzed", "escalated"}
          /\ incident[i] \in IncidentRecords
          /\ \A j \in Incidents \ {i} : incident'[j] = incident[j]
          /\ delivery' = delivery /\ request' = request
      BY <1>8 DEF ReviewIncident, Typed
    <2>2. CaseSteady(i)
      BY ONLY <2>1 DEF CaseSteady, SameCounts, IncidentRecords
    <2>3. Steady
      BY <2>1, <2>2 DEF Steady, CaseSteady, SameCounts, RowSteady
    <2> QED BY <1>a, <2>1, <2>3
  <1> QED BY <1>1, <1>2, <1>3, <1>4, <1>5, <1>6, <1>7, <1>8

LEMMA NextSteps ==
    ASSUME OwnedInv, Unfiled, [Next]_vars
    PROVE  Step
  <1>0. Typed /\ Tables /\ Requested
    BY DEF OwnedInv
  <1>1. ASSUME NEW q \in Requests, Progress(q) PROVE Step
    BY <1>0, <1>1, IntakeSteps, OwnerSteps DEF Progress
  <1>2. CASE \/ \E q \in Requests : Drop(q)
             \/ \E q \in Requests, m \in Messages : Checkpoint(q, m) \/ Redeliver(q, m)
             \/ \E m \in Messages : Acknowledge(m) \/ WorkLeaseExpires(m)
             \/ \E i \in Incidents : OwnerLeaseExpires(i) \/ IssueSent(i) \/ ReviewIncident(i)
    BY <1>0, <1>2, SurroundingSteps
  <1>3. CASE UNCHANGED vars
    BY <1>3, StillSteady DEF vars, Step, SteadyStep
  <1>4. CASE \E q \in Requests : Progress(q)
    BY <1>1, <1>4
  <1> QED BY <1>2, <1>3, <1>4 DEF Next

-----------------------------------------------------------------------------
(* A live owner stays.                                                     *)

\* Owners' tokens only get newer: an investigation's token counts its attempts,
\* what a request holds of an incident is not ahead of it, and a redelivery
\* that still has its row's token came after the lease of that token ended.
Aged == \A i \in Incidents : incident[i].status = "investigating" =>
            incident[i].token = <<i, incident[i].attempts>>

RequestFresh(q) ==
    LET r == request[q]
        d == delivery[r.msg]
    IN /\ r.stage = "investigate" =>
             /\ incident[r.incident].status # "absent"
             /\ \E n \in Nat : r.itoken = <<r.incident, n>> /\ n <= incident[r.incident].attempts
       /\ r.stage \in {"owner", "renew"} =>
             /\ d.status \in {"processing", "completed"}
             /\ d.status = "processing" =>
                   /\ d.incident = r.incident
                   /\ \E n \in Nat : r.token = <<r.incident, n>> /\ n <= incident[r.incident].attempts
                   /\ d.token = r.token => d.lease # "live"

OneOwner == \A p, q \in Requests :
    p # q /\ request[p].stage = "investigate" /\ request[q].stage = "investigate"
    => request[p].itoken # request[q].itoken

AllFresh == \A q \in Requests : RequestFresh(q)

Fresh == Aged /\ AllFresh /\ OneOwner

\* What the tables do as time passes.
RowAging(m) ==
    /\ delivery[m].status = "completed" => delivery'[m].status = "completed"
    /\ delivery[m].status = "processing" =>
          \/ delivery'[m].status = "completed"
          \/ /\ delivery'[m].status = "processing" /\ delivery'[m].incident = delivery[m].incident
             /\ \/ /\ delivery'[m].token = delivery[m].token
                   /\ delivery'[m].lease = delivery[m].lease \/ delivery'[m].lease # "live"
                \/ \E n \in Nat : /\ delivery'[m].token = <<delivery[m].incident, n>>
                                  /\ n > incident[delivery[m].incident].attempts

CaseAging(i) == incident[i].status # "absent" =>
    incident'[i].status # "absent" /\ incident'[i].attempts >= incident[i].attempts

Aging == (\A m \in Messages : RowAging(m)) /\ (\A i \in Incidents : CaseAging(i))

Attempted == \A i \in Incidents : incident[i].attempts \in Nat

LEMMA AttemptsAreNumbers == ASSUME Typed, Typed' PROVE Attempted /\ Attempted'
  <1>1. Attempted
    BY AlertsConstants DEF Typed, Attempted, IncidentRecords
  <1>2. Attempted'
    BY AlertsConstants DEF Typed, Attempted, IncidentRecords
  <1> QED BY <1>1, <1>2

\* A request that does not move keeps what it holds.
LEMMA FreshOthers ==
    ASSUME Typed, Typed', Tables, Aging, NEW p \in Requests, RequestFresh(p),
           request'[p] = request[p]
    PROVE  RequestFresh(p)'
  <1> DEFINE r == request[p]
             m == r.msg
             i == r.incident
  <1>0. Attempted /\ Attempted'
    BY AttemptsAreNumbers
  <1>1. CASE r.stage = "investigate"
    <2>1. i \in Incidents
      BY <1>1 DEF Typed, Pushes, OnIncident
    <2>2. PICK n \in Nat : r.itoken = <<i, n>> /\ n <= incident[i].attempts
      BY <1>1 DEF RequestFresh
    <2>3. incident[i].status # "absent"
      BY <1>1 DEF RequestFresh
    <2>4. incident'[i].status # "absent" /\ incident'[i].attempts >= incident[i].attempts
      BY <2>1, <2>3 DEF Aging, CaseAging
    <2>5. n <= incident'[i].attempts
      BY <1>0, <2>1, <2>2, <2>4 DEF Attempted
    <2> QED BY <1>1, <2>2, <2>4, <2>5 DEF RequestFresh
  <1>2. CASE r.stage \in {"owner", "renew"}
    <2>1. i \in Incidents /\ m \in Messages
      BY <1>2 DEF Typed, Pushes, OnIncident
    <2>2. delivery[m].status \in {"processing", "completed"} /\ RowAging(m)
      BY <1>2, <2>1 DEF RequestFresh, Aging
    <2>3. CASE delivery'[m].status = "completed"
      BY <1>2, <2>3 DEF RequestFresh
    <2>4. CASE delivery'[m].status # "completed"
      <3>1. /\ delivery[m].status = "processing" /\ delivery'[m].status = "processing"
            /\ delivery[m].incident = i /\ delivery'[m].incident = i
        BY <1>2, <2>2, <2>4 DEF RowAging, RequestFresh
      <3>2. PICK n \in Nat : r.token = <<i, n>> /\ n <= incident[i].attempts
        BY <1>2, <3>1 DEF RequestFresh
      <3>3. incident[i].status = "investigating"
        BY <2>1, <3>1 DEF Tables, Mirrored
      <3>4. n <= incident'[i].attempts
        <4>1. incident'[i].attempts >= incident[i].attempts
          BY <2>1, <3>3 DEF Aging, CaseAging
        <4> QED BY <1>0, <2>1, <3>2, <4>1 DEF Attempted
      <3>5. delivery'[m].token = r.token => delivery'[m].lease # "live"
        <4>1. CASE /\ delivery'[m].token = delivery[m].token
                   /\ delivery'[m].lease = delivery[m].lease \/ delivery'[m].lease # "live"
          BY <1>2, <3>1, <4>1 DEF RequestFresh
        <4>2. CASE \E k \in Nat : delivery'[m].token = <<i, k>> /\ k > incident[i].attempts
          <5>1. PICK k \in Nat : delivery'[m].token = <<i, k>> /\ k > incident[i].attempts
            BY <4>2
          <5>2. k # n
            BY <1>0, <2>1, <3>2, <5>1 DEF Attempted
          <5> QED BY <3>2, <5>1, <5>2
        <4> QED BY <2>2, <2>4, <3>1, <4>1, <4>2 DEF RowAging
      <3> QED BY <1>2, <3>1, <3>2, <3>4, <3>5 DEF RequestFresh
    <2> QED BY <2>3, <2>4
  <1> QED BY <1>1, <1>2 DEF RequestFresh

\* One request moves, and becomes no owner.
LEMMA FreshKept ==
    ASSUME Typed, Typed', Tables, Fresh, Aged', Aging, NEW q \in Requests, Others(q),
           RequestFresh(q)', request'[q].stage # "investigate"
    PROVE  Fresh'
  <1>1. \A p \in Requests : RequestFresh(p)'
    <2>1. ASSUME NEW p \in Requests \ {q} PROVE RequestFresh(p)'
      BY FreshOthers DEF Others, Fresh, AllFresh
    <2> QED BY <2>1
  <1>2. OneOwner'
    BY DEF Others, Fresh, OneOwner
  <1> QED BY <1>1, <1>2 DEF Fresh, AllFresh

\* The new owner's token is newer than any other.
LEMMA FreshOwner ==
    ASSUME Typed, Typed', Tables, Fresh, Aged', Aging, NEW q \in Requests, Others(q),
           NEW i \in Incidents, request'[q].stage = "investigate", request'[q].incident = i,
           request'[q].itoken = <<i, incident'[i].attempts>>, incident'[i].status # "absent",
           incident[i].status = "absent" \/ incident'[i].attempts > incident[i].attempts
    PROVE  Fresh'
  <1>0. Attempted /\ Attempted'
    BY AttemptsAreNumbers
  <1>1. RequestFresh(q)'
    <2>1. incident'[i].attempts \in Nat /\ incident'[i].attempts <= incident'[i].attempts
      BY <1>0 DEF Attempted
    <2> QED BY <2>1 DEF RequestFresh
  <1>2. \A p \in Requests : RequestFresh(p)'
    <2>1. ASSUME NEW p \in Requests \ {q} PROVE RequestFresh(p)'
      BY FreshOthers DEF Others, Fresh, AllFresh
    <2> QED BY <1>1, <2>1
  <1>3. ASSUME NEW p \in Requests \ {q}, request'[p].stage = "investigate"
        PROVE  request'[p].itoken # request'[q].itoken
    <2>1. request'[p] = request[p] /\ RequestFresh(p)
      BY DEF Others, Fresh, AllFresh
    <2>2. PICK n \in Nat : /\ request[p].itoken = <<request[p].incident, n>>
                           /\ n <= incident[request[p].incident].attempts
      BY <1>3, <2>1 DEF RequestFresh
    <2>3. CASE request[p].incident # i
      BY <2>1, <2>2, <2>3
    <2>4. CASE request[p].incident = i
      <3>1. incident[i].status # "absent"
        BY <1>3, <2>1, <2>4 DEF RequestFresh
      <3>2. n # incident'[i].attempts
        BY <1>0, <2>2, <2>4, <3>1 DEF Attempted
      <3> QED BY <2>1, <2>2, <3>2
    <2> QED BY <2>3, <2>4
  <1>4. OneOwner'
    BY <1>3 DEF Others, Fresh, OneOwner
  <1> QED BY <1>2, <1>4 DEF Fresh, AllFresh

LEMMA FreshStep ==
    ASSUME Typed, Typed', Tables, Fresh, Step
    PROVE  Fresh'
  <1>0. Attempted /\ Attempted'
    BY AttemptsAreNumbers
  <1>n. \A q \in Requests : request'[q].stage \notin Owning => RequestFresh(q)'
    BY DEF RequestFresh, Owning
  <1>1. CASE SteadyStep
    <2>1. \A i \in Incidents : CaseAging(i)
      BY <1>0, <1>1 DEF SteadyStep, Steady, CaseSteady, SameCounts, CaseAging, Attempted
    <2>2. \A m \in Messages : RowAging(m)
      BY <1>1 DEF SteadyStep, Steady, RowSteady, RowAging, Working
    <2>3. Aging
      BY <2>1, <2>2 DEF Aging
    <2>4. Aged'
      BY <1>1 DEF SteadyStep, Steady, CaseSteady, SameCounts, Fresh, Aged
    <2>5. CASE request' = request
      <3>1. \A q \in Requests : RequestFresh(q)'
        BY <2>3, <2>5, FreshOthers DEF Fresh, AllFresh
      <3> QED BY <2>4, <2>5, <3>1 DEF Fresh, AllFresh, OneOwner
    <2>6. ASSUME NEW q \in Requests, Others(q), request'[q].stage \notin Owning
          PROVE  Fresh'
      BY <1>n, <2>3, <2>4, <2>6, FreshKept DEF Owning
    <2>7. ASSUME NEW q \in Requests, Others(q), NEW m \in Messages, Redelivering(q, m)
          PROVE  Fresh'
      <3> DEFINE i == delivery[m].incident
      <3>1. /\ i \in Incidents /\ incident[i].status = "investigating"
            /\ delivery[m].token = incident[i].token
        BY <2>7 DEF Redelivering, Tables, Mirrored
      <3>2. /\ delivery[m].token = <<i, incident[i].attempts>> /\ incident[i].attempts \in Nat
            /\ incident'[i].attempts = incident[i].attempts
        BY <1>0, <1>1, <3>1
        DEF Fresh, Aged, Attempted, SteadyStep, Steady, CaseSteady, SameCounts
      <3>3. incident'[i].attempts \in Nat /\ incident'[i].attempts <= incident'[i].attempts
        BY <3>2
      <3>4. RequestFresh(q)'
        BY <2>7, <3>2, <3>3 DEF Redelivering, RequestFresh
      <3> QED BY <2>3, <2>4, <2>7, <3>4, FreshKept DEF Redelivering
    <2>8. ASSUME NEW q \in Requests, Others(q), Rereading(q) PROVE Fresh'
      <3>1. RequestFresh(q)
        BY DEF Fresh, AllFresh
      <3>2. RequestFresh(q)'
        <4> DEFINE m == request[q].msg
                   i == request[q].incident
        <4>1. i \in Incidents /\ m \in Messages
          BY <2>8 DEF Rereading, Typed, Pushes, OnIncident
        <4>2. RowSteady(m) /\ CaseSteady(i)
          BY <1>1, <4>1 DEF SteadyStep, Steady
        <4>3. /\ delivery'[m].status = delivery[m].status
              /\ delivery'[m].token = delivery[m].token
              /\ delivery'[m].incident = delivery[m].incident
              /\ delivery'[m].lease = delivery[m].lease \/ delivery'[m].lease # "live"
              /\ incident'[i].attempts = incident[i].attempts
          BY <2>8, <3>1, <4>2
          DEF RequestFresh, Rereading, RowSteady, CaseSteady, SameCounts, Working
        <4> QED BY <2>8, <3>1, <4>3 DEF RequestFresh, Rereading
      <3> QED BY <2>3, <2>4, <2>8, <3>2, FreshKept DEF Rereading
    <2> QED BY <1>1, <2>5, <2>6, <2>7, <2>8 DEF SteadyStep
  <1>2. CASE FoundingStep
    <2>1. PICK q \in Requests, m \in Messages, s \in Incidents, kind \in {"normal", "storm"} :
             /\ Founding(m, s, kind) /\ Others(q)
             /\ \/ request'[q].stage \notin Owning
                \/ /\ request'[q].stage = "investigate" /\ request'[q].incident = s
                   /\ request'[q].itoken = <<s, 1>>
      BY <1>2 DEF FoundingStep
    <2>2. \A i \in Incidents : CaseAging(i)
      BY <1>0, <2>1 DEF Founding, Opening, QuietCase, SameCounts, CaseAging, Attempted
    <2>3. \A n \in Messages : RowAging(n)
      <3>1. RowAging(m)
        BY <2>1 DEF Founding, Opening, RowAging
      <3>2. ASSUME NEW n \in Messages \ {m} PROVE RowAging(n)
        BY <2>1 DEF Founding, Opening, RowAging
      <3> QED BY <3>1, <3>2
    <2>4. Aging
      BY <2>2, <2>3 DEF Aging
    <2>5. Aged'
      <3>1. ASSUME NEW i \in Incidents, incident'[i].status = "investigating"
            PROVE  incident'[i].token = <<i, incident'[i].attempts>>
        <4>1. CASE i = s
          BY <2>1, <4>1 DEF Founding, Opening
        <4>2. CASE i # s
          BY <2>1, <3>1, <4>2 DEF Founding, Opening, QuietCase, SameCounts, Fresh, Aged
        <4> QED BY <4>1, <4>2
      <3> QED BY <3>1 DEF Aged
    <2>6. CASE request'[q].stage \notin Owning
      BY <1>n, <2>1, <2>4, <2>5, <2>6, FreshKept DEF Owning
    <2>7. CASE /\ request'[q].stage = "investigate" /\ request'[q].incident = s
               /\ request'[q].itoken = <<s, 1>>
      <3>1. /\ incident[s].status = "absent" /\ incident'[s].status # "absent"
            /\ incident'[s].attempts = 1
        BY <2>1 DEF Founding, Opening
      <3> QED BY <2>1, <2>4, <2>5, <2>7, <3>1, FreshOwner
    <2> QED BY <2>1, <2>6, <2>7
  <1>3. CASE JoiningStep
    <2>1. PICK q \in Requests, m \in Messages, i \in Incidents :
             Joining(m, i) /\ Others(q) /\ request'[q].stage \notin Owning
      BY <1>3 DEF JoiningStep
    <2>2. \A j \in Incidents : CaseAging(j)
      BY <1>0, <2>1 DEF Joining, CaseAging, Attempted
    <2>3. \A n \in Messages : RowAging(n)
      BY <2>1 DEF Joining, RowAging
    <2>4. Aging /\ Aged'
      BY <2>1, <2>2, <2>3 DEF Aging, Joining, Fresh, Aged
    <2> QED BY <1>n, <2>1, <2>4, FreshKept DEF Owning
  <1>4. CASE OwnersStep
    <2>1. PICK q \in Requests, i \in Incidents : Others(q) /\ (Saving(q, i) \/ Renewing(q, i))
      BY <1>4 DEF OwnersStep
    <2> DEFINE m == On(q)
    <2>2. /\ m \in Messages /\ incident[i].status = "investigating"
          /\ delivery[m].status = "processing" /\ delivery[m].incident = i
          /\ delivery'[m].incident = i
          /\ \A n \in Messages \ {m} : delivery'[n] = delivery[n]
          /\ \A j \in Incidents \ {i} : CaseSteady(j)
      BY <2>1 DEF Saving, Renewing, OwnerOf
    <2>3. \A j \in Incidents \ {i} : CaseAging(j)
      BY <1>0, <2>2 DEF CaseSteady, SameCounts, CaseAging, Attempted
    <2>4. CaseAging(i)
      BY <1>0, <2>1 DEF Saving, Renewing, CaseAging, Attempted
    <2>5. \A n \in Messages \ {m} : RowAging(n)
      BY <2>2 DEF RowAging
    <2>6. ASSUME NEW j \in Incidents \ {i}, incident'[j].status = "investigating"
          PROVE  incident'[j].token = <<j, incident'[j].attempts>>
      BY <2>2, <2>6 DEF CaseSteady, SameCounts, Fresh, Aged
    <2>7. CASE Saving(q, i)
      <3>1. RowAging(m)
        BY <2>7 DEF Saving, RowAging
      <3>2. Aging
        BY <2>3, <2>4, <2>5, <3>1 DEF Aging
      <3>3. Aged'
        BY <2>6, <2>7 DEF Aged, Saving
      <3>4. request'[q].stage \notin Owning
        BY <2>7 DEF Saving, Idle, Owning
      <3> QED BY <1>n, <2>1, <3>2, <3>3, <3>4, FreshKept DEF Owning
    <2>8. CASE Renewing(q, i)
      <3> DEFINE n == incident'[i].attempts
      <3>1. /\ n \in Nat /\ n > incident[i].attempts /\ incident'[i].status # "absent"
            /\ incident'[i].token = <<i, n>> /\ delivery'[m].token = <<i, n>>
            /\ delivery'[m].status = "processing"
        BY <1>0, <2>8 DEF Renewing, Attempted
      <3>2. RowAging(m)
        BY <2>2, <3>1 DEF RowAging
      <3>3. Aging
        BY <2>3, <2>4, <2>5, <3>2 DEF Aging
      <3>4. Aged'
        BY <2>6, <3>1 DEF Aged
      <3>5. /\ request'[q].stage = "investigate" /\ request'[q].incident = i
            /\ request'[q].itoken = <<i, incident'[i].attempts>>
        BY <2>8 DEF Renewing
      <3> QED BY <2>1, <3>1, <3>3, <3>4, <3>5, FreshOwner
    <2> QED BY <2>1, <2>7, <2>8
  <1> QED BY <1>1, <1>2, <1>3, <1>4 DEF Step

-----------------------------------------------------------------------------
(* The invariant of the steps.                                             *)

LEMMA UnfiledStep ==
    ASSUME Unfiled, Step
    PROVE  Unfiled'
  <1>1. CASE SteadyStep
    BY <1>1 DEF SteadyStep, Steady, RowSteady, Working, Unfiled
  <1>2. CASE FoundingStep
    BY <1>2 DEF FoundingStep, Founding, Opening, Working, Unfiled
  <1>3. CASE JoiningStep
    BY <1>3 DEF JoiningStep, Joining, Working, Unfiled
  <1>4. CASE OwnersStep
    BY <1>4 DEF OwnersStep, Saving, Renewing, OwnerOf, Working, Unfiled
  <1> QED BY <1>1, <1>2, <1>3, <1>4 DEF Step

StepsInv == OwnedInv /\ Unfiled /\ Fresh

LEMMA StepsInit == Init => StepsInv
  <1> SUFFICES ASSUME Init PROVE StepsInv
    OBVIOUS
  <1>1. /\ \A m \in Messages : delivery[m].incident = None
        /\ \A i \in Incidents : incident[i].status = "absent"
        /\ \A q \in Requests : request[q].stage = "idle"
    BY DEF Init, NoDelivery, NoIncident, Idle
  <1>2. Unfiled /\ Fresh
    BY <1>1 DEF Unfiled, Fresh, Aged, AllFresh, RequestFresh, OneOwner
  <1> QED BY <1>2, OwnedInit DEF StepsInv

LEMMA StepsNext == ~Overrun /\ StepsInv /\ [Next]_vars => StepsInv' /\ Step
  <1> SUFFICES ASSUME ~Overrun, OwnedInv, Unfiled, Fresh, [Next]_vars
               PROVE  StepsInv' /\ Step
    BY DEF StepsInv
  <1>1. OwnedInv'
    BY OwnedNext
  <1>2. Step
    BY NextSteps
  <1>3. Unfiled'
    BY <1>2, UnfiledStep
  <1>4. Fresh'
    BY <1>1, <1>2, FreshStep DEF OwnedInv
  <1> QED BY <1>1, <1>2, <1>3, <1>4 DEF StepsInv

\* The owner whose lease is live keeps the incident until it saves, or until a
\* storm merges the incident (app/owner.py: renew_owner_lease,
\* save_owner_analysis).
Respected(q) ==
    LET i == request[q].incident IN
    /\ request[q].stage = "investigate"
    /\ incident[i].status = "investigating"
    /\ incident[i].token = request[q].itoken /\ incident[i].lease = "live"
    => \/ /\ incident'[i].status = "investigating"
          /\ incident'[i].token = incident[i].token
       \/ incident'[i].status = "merged"
       \/ request'[q] = Idle

LEMMA StepRespects ==
    ASSUME StepsInv, Step, NEW q \in Requests
    PROVE  Respected(q)
  <1> DEFINE i == request[q].incident
  <1> SUFFICES ASSUME request[q].stage = "investigate", incident[i].status = "investigating",
                      incident[i].token = request[q].itoken, incident[i].lease = "live"
               PROVE  \/ /\ incident'[i].status = "investigating"
                         /\ incident'[i].token = incident[i].token
                      \/ incident'[i].status = "merged"
                      \/ request'[q] = Idle
    BY DEF Respected
  <1>0. i \in Incidents
    BY DEF StepsInv, OwnedInv, Typed, Pushes, OnIncident
  <1>1. CASE SteadyStep
    BY <1>0, <1>1 DEF SteadyStep, Steady, CaseSteady
  <1>2. CASE FoundingStep
    <2>1. PICK m \in Messages, s \in Incidents, kind \in {"normal", "storm"} :
             Founding(m, s, kind)
      BY <1>2 DEF FoundingStep
    <2>2. i # s
      BY <2>1 DEF Founding, Opening
    <2> QED BY <1>0, <2>1, <2>2 DEF Founding, Opening, QuietCase
  <1>3. CASE JoiningStep
    BY <1>0, <1>3 DEF JoiningStep, Joining
  <1>4. CASE OwnersStep
    <2>1. PICK p \in Requests, j \in Incidents : Saving(p, j) \/ Renewing(p, j)
      BY <1>4 DEF OwnersStep
    <2>2. CASE j # i
      BY <1>0, <2>1, <2>2 DEF Saving, Renewing, OwnerOf, CaseSteady
    <2>3. CASE j = i /\ Renewing(p, j)
      BY <2>3 DEF Renewing
    <2>4. CASE j = i /\ p = q /\ Saving(p, j)
      BY <2>4 DEF Saving
    <2>5. CASE j = i /\ p # q /\ Saving(p, j)
      <3>1. /\ request[p].stage \in {"renew", "investigate"}
            /\ incident[i].token = request[p].itoken /\ On(p) \in Messages
            /\ delivery[On(p)].status = "processing" /\ delivery[On(p)].incident = i
            /\ delivery[On(p)].token = request[p].token
        BY <2>5 DEF Saving, OwnerOf
      <3>2. delivery[On(p)].lease = "live"
        BY <3>1 DEF StepsInv, OwnedInv, Tables, Mirrored
      <3>3. request[p].stage # "renew"
        BY <3>1, <3>2 DEF StepsInv, Fresh, AllFresh, RequestFresh, On
      <3>4. request[p].stage # "investigate"
        BY <2>5, <3>1 DEF StepsInv, Fresh, OneOwner
      <3> QED BY <3>1, <3>3, <3>4
    <2> QED BY <2>1, <2>2, <2>3, <2>4, <2>5
  <1> QED BY <1>1, <1>2, <1>3, <1>4 DEF Step

\* A redelivery, a request with an old snapshot or a replaced owner never takes
\* an incident from the owner whose lease is live.
THEOREM LiveOwnerStays == ASSUME ~Overrun PROVE Spec => OwnerIsRespected
  <1>0. StepsInv /\ [Next]_vars => StepsInv'
    BY StepsNext
  <1>1. StepsInv /\ [Next]_vars => [\A q \in Requests : Respected(q)]_vars
    BY StepsNext, StepRespects
  <1>2. Spec => [][\A q \in Requests : Respected(q)]_vars
    BY StepsInit, <1>0, <1>1, PTL DEF Spec
  <1> QED BY <1>2 DEF OwnerIsRespected, Respected

-----------------------------------------------------------------------------
(* alert_count.                                                            *)

Named(i) == {m \in Messages : delivery[m].incident = i}

CountedOn(i) == /\ incident[i].alerts \in Nat
                /\ IsFiniteSet(Named(i)) /\ incident[i].alerts >= Cardinality(Named(i))

Counted == \A i \in Incidents : CountedOn(i)

\* An incident that no message newly names is still counted.
LEMMA CountedSame ==
    ASSUME NEW i \in Incidents, CountedOn(i), incident'[i].alerts = incident[i].alerts,
           Named(i)' \subseteq Named(i)
    PROVE  CountedOn(i)'
  <1>1. /\ IsFiniteSet(Named(i)') /\ Cardinality(Named(i)') <= Cardinality(Named(i))
        /\ Cardinality(Named(i)') \in Nat /\ Cardinality(Named(i)) \in Nat
    BY FS_Subset, FS_CardinalityType DEF CountedOn
  <1> QED BY <1>1 DEF CountedOn

LEMMA CountedInit == Init => Counted
  <1> SUFFICES ASSUME Init, NEW i \in Incidents PROVE CountedOn(i)
    BY DEF Counted
  <1>1. Named(i) = {}
    BY AlertsConstants DEF Init, NoDelivery, Named
  <1>2. incident[i].alerts \in Nat
    BY TypedInit DEF Typed, IncidentRecords
  <1> QED BY <1>1, <1>2, FS_EmptySet DEF CountedOn

LEMMA CountedStep ==
    ASSUME StepsInv, Typed', Counted, Step
    PROVE  Counted'
  <1>0. StepsInv => Unfiled /\ Tables
    BY DEF StepsInv, OwnedInv
  <1>1. CASE SteadyStep
    <2>1. ASSUME NEW i \in Incidents PROVE CountedOn(i)'
      <3>1. incident'[i].alerts = incident[i].alerts
        BY <1>1 DEF SteadyStep, Steady, CaseSteady, SameCounts
      <3>2. Named(i)' \subseteq Named(i)
        BY <1>1 DEF SteadyStep, Steady, RowSteady, Named
      <3> QED BY <3>1, <3>2, CountedSame DEF Counted
    <2> QED BY <2>1 DEF Counted
  <1>2. CASE FoundingStep
    <2>1. PICK m \in Messages, s \in Incidents, kind \in {"normal", "storm"} :
             Founding(m, s, kind)
      BY <1>2 DEF FoundingStep
    <2>2. ASSUME NEW i \in Incidents \ {s} PROVE CountedOn(i)'
      <3>1. incident'[i].alerts = incident[i].alerts
        BY <2>1 DEF Founding, SameCounts
      <3>2. Named(i)' \subseteq Named(i)
        BY <2>1 DEF Founding, Opening, Named
      <3> QED BY <3>1, <3>2, CountedSame DEF Counted
    <2>3. CountedOn(s)'
      <3>1. \A n \in Messages : delivery[n].incident # s
        BY <1>0, <2>1, AlertsConstants
        DEF Founding, Opening, Unfiled, Working, Tables, Mirrored, Filed
      <3>2. Named(s)' = {m}
        BY <2>1, <3>1 DEF Founding, Opening, Named
      <3>3. incident'[s].alerts = 1
        BY <2>1 DEF Founding
      <3> QED BY <3>2, <3>3, FS_Singleton DEF CountedOn
    <2> QED BY <2>2, <2>3 DEF Counted
  <1>3. CASE JoiningStep
    <2>1. PICK m \in Messages, i \in Incidents : Joining(m, i)
      BY <1>3 DEF JoiningStep
    <2>2. ASSUME NEW j \in Incidents \ {i} PROVE CountedOn(j)'
      <3>1. incident'[j].alerts = incident[j].alerts
        BY <2>1 DEF Joining
      <3>2. Named(j)' \subseteq Named(j)
        BY <2>1 DEF Joining, Named
      <3> QED BY <3>1, <3>2, CountedSame DEF Counted
    <2>3. CountedOn(i)'
      <3>1. Named(i)' = Named(i) \cup {m}
        BY <2>1 DEF Joining, Named
      <3>2. /\ IsFiniteSet(Named(i)) /\ incident[i].alerts \in Nat
            /\ incident[i].alerts >= Cardinality(Named(i))
            /\ incident'[i].alerts = incident[i].alerts + 1
        BY <2>1 DEF Counted, CountedOn, Joining
      <3>3. /\ IsFiniteSet(Named(i) \cup {m}) /\ Cardinality(Named(i)) \in Nat
            /\ \/ Cardinality(Named(i) \cup {m}) = Cardinality(Named(i))
               \/ Cardinality(Named(i) \cup {m}) = Cardinality(Named(i)) + 1
        BY <3>2, FS_AddElement, FS_CardinalityType
      <3>4. /\ incident'[i].alerts \in Nat
            /\ incident'[i].alerts >= Cardinality(Named(i) \cup {m})
        BY <3>2, <3>3
      <3> QED BY <3>1, <3>3, <3>4 DEF CountedOn
    <2> QED BY <2>2, <2>3 DEF Counted
  <1>4. CASE OwnersStep
    <2>1. PICK q \in Requests, i \in Incidents : OwnerOf(q, i)
      BY <1>4 DEF OwnersStep, Saving, Renewing
    <2>2. ASSUME NEW j \in Incidents PROVE CountedOn(j)'
      <3>1. incident'[j].alerts = incident[j].alerts
        BY <2>1 DEF OwnerOf, CaseSteady, SameCounts
      <3>2. Named(j)' \subseteq Named(j)
        BY <2>1 DEF OwnerOf, Named
      <3> QED BY <3>1, <3>2, CountedSame DEF Counted
    <2> QED BY <2>2 DEF Counted
  <1> QED BY <1>1, <1>2, <1>3, <1>4 DEF Step

\* Whatever joins, opens or is merged, the alert_count of an incident is at
\* least the number of the deliveries that name it (app/noise.py,
\* aggregate_to_incident).
THEOREM AlertsCounted == ASSUME ~Overrun PROVE Spec => []CountIsComplete
  <1>0. StepsInv /\ Counted /\ [Next]_vars => StepsInv' /\ Counted'
    BY StepsNext, CountedStep DEF StepsInv, OwnedInv
  <1>1. Counted => CountIsComplete
    BY DEF Counted, CountedOn, Named, CountIsComplete
  <1> QED BY StepsInit, CountedInit, <1>0, <1>1, PTL DEF Spec

=============================================================================
