-------------------------- MODULE SlackEventsProofs --------------------------
(***************************************************************************)
(* Theorems about SlackEvents for any number of events, incidents, worker  *)
(* requests and attempts.                                                  *)
(***************************************************************************)
EXTENDS SlackEvents, FiniteSetTheorems, TLAPS

-----------------------------------------------------------------------------
(* Types.  A request in progress names an event.                           *)

Typed == TypeOK /\ \A w \in Workers : worker[w].stage # "idle" => worker[w].event \in Events

\* The rows that a step writes are rows.
LEMMA RowValues ==
    ASSUME Typed, NEW e \in Events
    PROVE  /\ [event[e] EXCEPT !.status = "pending"] \in EventRecords
           /\ [event[e] EXCEPT !.status = "deleted"] \in EventRecords
           /\ [event[e] EXCEPT !.lease = "expired"] \in EventRecords
           /\ [event[e] EXCEPT !.reserved = TRUE] \in EventRecords
           /\ FailedRow(e) \in EventRecords
           /\ CompletedRow(e) \in EventRecords
           /\ ReleasedRow(e) \in EventRecords
           /\ \A w \in Workers : AttemptsLeft(e) => ClaimedRow(w, e) \in EventRecords
  <1>1. event[e] \in EventRecords
    BY DEF Typed, TypeOK
  <1>2. ASSUME NEW w \in Workers, AttemptsLeft(e) PROVE ClaimedRow(w, e) \in EventRecords
    <2>1. worker[w].incident \in Incidents \cup {None}
      BY DEF Typed, TypeOK, WorkerRecords
    <2>2. event[e].attempts + 1 \in 0 .. MaxAttempts
      BY <1>1, <1>2, SlackConstants DEF AttemptsLeft, EventRecords
    <2> QED BY <1>1, <2>1, <2>2 DEF ClaimedRow, EventRecords
  <1>3. /\ [event[e] EXCEPT !.status = "pending"] \in EventRecords
        /\ [event[e] EXCEPT !.status = "deleted"] \in EventRecords
        /\ [event[e] EXCEPT !.lease = "expired"] \in EventRecords
        /\ [event[e] EXCEPT !.reserved = TRUE] \in EventRecords
    BY ONLY <1>1 DEF EventRecords
  <1>4. FailedRow(e) \in EventRecords /\ CompletedRow(e) \in EventRecords
    BY ONLY <1>1 DEF FailedRow, CompletedRow, EventRecords
  <1>5. ReleasedRow(e) \in EventRecords
    BY ONLY <1>1, <1>4 DEF ReleasedRow, EventRecords
  <1> QED BY <1>2, <1>3, <1>4, <1>5

\* The fields that a move of a request changes, and those it keeps.
LEMMA WorkerFields ==
    ASSUME Typed, NEW w \in Workers
    PROVE  /\ \A s : /\ At(w, s).stage = s
                     /\ At(w, s).event = worker[w].event
                     /\ At(w, s).incident = worker[w].incident
           /\ \A s \in Stages : At(w, s) \in WorkerRecords
           /\ [At(w, "fixed") EXCEPT !.unsafe = TRUE] \in WorkerRecords
           /\ [At(w, "fixed") EXCEPT !.unsafe = TRUE].stage = "fixed"
           /\ [At(w, "fixed") EXCEPT !.unsafe = TRUE].event = worker[w].event
           /\ [At(w, "fixed") EXCEPT !.unsafe = TRUE].incident = worker[w].incident
  <1>1. worker[w] \in WorkerRecords
    BY DEF Typed, TypeOK
  <1> QED BY ONLY <1>1 DEF At, WorkerRecords, Stages

LEMMA NewWorkers ==
    /\ Idle \in WorkerRecords
    /\ \A e \in Events : FoundOf(e) \in WorkerRecords
  <1>1. ASSUME NEW e \in Events PROVE Thread[e] \in Incidents
    BY SlackConstants
  <1> QED BY <1>1 DEF Idle, FoundOf, WorkerRecords, Stages

-----------------------------------------------------------------------------
(* What one step does to a request and to a row.                           *)

\* A request that goes on, with the event and the incident it has.
Proceeds(w) ==
    /\ worker[w].stage # "idle" /\ worker'[w].stage # "idle"
    /\ worker'[w].event = worker[w].event /\ worker'[w].incident = worker[w].incident

\* Where a request can get to from where it is.
Onward(w) ==
    \/ worker'[w].stage = "claimed" /\ Claim(w)
    \/ worker'[w].stage = "fetch" /\ worker[w].stage = "claimed"
    \/ worker'[w].stage = "run" /\ worker[w].stage = "fetch" /\ Reserve(w)
    \/ worker'[w].stage = "running" /\ Run(w)
    \/ worker'[w].stage \in {"fixed", "complete", "undelivered", "errored"} /\ Holds(w)
    \/ worker'[w].stage = "reply" /\ Save(w) /\ InProcess(worker[w].event)
    \/ worker'[w].stage = "notice" /\ (Exhaust(w) \/ Release(w))

\* What one step may do to a request.
WorkerFate(w) ==
    \/ worker'[w] = worker[w]
    \/ worker'[w] = Idle
    \/ \E e \in Events : Lookup(w, e) /\ worker'[w] = FoundOf(e)
    \/ Proceeds(w) /\ Onward(w)

\* Only one request moves.
Moves(w) == \A v \in Workers \ {w} : worker'[v] = worker[v]

LEMMA GoToFate ==
    ASSUME Typed, NEW w \in Workers, NEW s \in Stages \ {"idle"},
           worker[w].stage # "idle", GoTo(w, s)
    PROVE  /\ Moves(w) /\ Proceeds(w) /\ worker'[w].stage = s
           /\ worker'[w] \in WorkerRecords
  <1>1. worker \in [Workers -> WorkerRecords]
    BY DEF Typed, TypeOK
  <1>2. worker'[w] = At(w, s) /\ Moves(w)
    BY <1>1 DEF GoTo, Moves
  <1>3. At(w, s).stage = s /\ At(w, s).event = worker[w].event
        /\ At(w, s).incident = worker[w].incident /\ At(w, s) \in WorkerRecords
    BY WorkerFields
  <1> QED BY <1>2, <1>3 DEF Proceeds

LEMMA EndsFate ==
    ASSUME Typed, NEW w \in Workers, Ends(w)
    PROVE  Moves(w) /\ worker'[w] = Idle
  BY DEF Ends, Moves, Typed, TypeOK

\* Every step of the follow-up moves at most one request, and along these ways.
LEMMA WorkerSummary ==
    ASSUME Typed, [Next]_vars
    PROVE  /\ worker' \in [Workers -> WorkerRecords]
           /\ worker' = worker \/ \E w \in Workers : Moves(w)
           /\ \A w \in Workers : WorkerFate(w)
  <1>t. worker \in [Workers -> WorkerRecords]
    BY DEF Typed, TypeOK
  <1> DEFINE Fine == /\ worker' \in [Workers -> WorkerRecords]
                     /\ worker' = worker \/ \E w \in Workers : Moves(w)
                     /\ \A w \in Workers : WorkerFate(w)
  <1>s. SUFFICES Fine
    OBVIOUS
  <1>k. ASSUME NEW w \in Workers, Moves(w), worker'[w] \in WorkerRecords, WorkerFate(w),
               \E x : worker' = [worker EXCEPT ![w] = x]
        PROVE  Fine
    <2>1. \A v \in Workers : v = w \/ WorkerFate(v)
      BY <1>k DEF Moves, WorkerFate
    <2> QED BY <1>k, <1>t, <2>1
  <1>e. ASSUME NEW w \in Workers, Ends(w) PROVE Fine
    <2>1. Moves(w) /\ worker'[w] = Idle
      BY <1>e, EndsFate
    <2> QED BY <1>e, <1>k, <2>1, NewWorkers DEF Ends, WorkerFate
  <1>g. ASSUME NEW w \in Workers, NEW s \in Stages \ {"idle"}, worker[w].stage # "idle",
               GoTo(w, s), worker'[w].stage = s => Onward(w)
        PROVE  Fine
    <2>1. Moves(w) /\ Proceeds(w) /\ worker'[w].stage = s /\ worker'[w] \in WorkerRecords
      BY <1>g, GoToFate
    <2> QED BY <1>g, <1>k, <2>1 DEF GoTo, WorkerFate
  <1> HIDE DEF Fine
  <1>1. ASSUME NEW w \in Workers, NEW e \in Events, Lookup(w, e) PROVE Fine
    <2>1. Moves(w) /\ worker'[w] = FoundOf(e)
      BY <1>1, <1>t DEF Lookup, Moves
    <2> QED BY <1>1, <1>k, <2>1, NewWorkers DEF Lookup, WorkerFate
  <1>2. ASSUME NEW w \in Workers, Claim(w) PROVE Fine
    BY <1>2, <1>g DEF Claim, Onward, Stages
  <1>3. ASSUME NEW w \in Workers, Exhaust(w) PROVE Fine
    BY <1>3, <1>g DEF Exhaust, Onward, Stages
  <1>4. ASSUME NEW w \in Workers, Decide(w) PROVE Fine
    <2>1. PICK s \in {"complete", "fixed", "fetch"} : GoTo(w, s)
      BY <1>4 DEF Decide
    <2> QED BY <1>4, <1>g, <2>1 DEF Decide, Onward, Holds, Holding, Stages
  <1>5. ASSUME NEW w \in Workers, Reserve(w) PROVE Fine
    <2>1. CASE GoTo(w, "run")
      BY <1>5, <1>g, <2>1 DEF Reserve, Onward, Stages
    <2>2. CASE GoTo(w, "fixed")
      BY <1>5, <1>g, <2>2 DEF Reserve, Onward, Holds, Holding, Stages
    <2> QED BY <1>5, <2>1, <2>2 DEF Reserve
  <1>6. ASSUME NEW w \in Workers, Run(w) PROVE Fine
    BY <1>6, <1>g DEF Run, Onward, Stages
  <1>7. ASSUME NEW w \in Workers, Unsafe(w) PROVE Fine
    <2> DEFINE x == [At(w, "fixed") EXCEPT !.unsafe = TRUE]
    <2>1. Moves(w) /\ worker'[w] = x
      BY <1>7, <1>t DEF Unsafe, Moves
    <2>2. x \in WorkerRecords /\ x.stage = "fixed" /\ x.event = worker[w].event
          /\ x.incident = worker[w].incident
      BY WorkerFields
    <2>3. Proceeds(w) /\ Onward(w)
      BY <1>7, <2>1, <2>2 DEF Unsafe, Proceeds, Onward, Holds, Holding
    <2> QED BY <1>7, <1>k, <2>1, <2>2, <2>3 DEF Unsafe, WorkerFate
  <1>8. ASSUME NEW w \in Workers, Errs(w) PROVE Fine
    BY <1>8, <1>g DEF Errs, Onward, Holds, Holding, Stages
  <1>9. ASSUME NEW w \in Workers, Save(w) PROVE Fine
    BY <1>9, <1>e, <1>g DEF Save, Onward, Stages
  <1>10. ASSUME NEW w \in Workers, PostFixed(w) PROVE Fine
    BY <1>10, <1>g DEF PostFixed, Onward, Holds, Holding, Stages
  <1>11. ASSUME NEW w \in Workers, Release(w) PROVE Fine
    BY <1>11, <1>e, <1>g DEF Release, Onward, Stages
  <1>12. ASSUME NEW w \in Workers, AlreadySettled(w) \/ TurnedAway(w) \/ Drop(w) \/ Reply(w)
                                   \/ Complete(w) \/ Notice(w)
         PROVE  Fine
    BY <1>12, <1>e DEF AlreadySettled, TurnedAway, Drop, Reply, Complete, Notice
  <1>13. ASSUME UNCHANGED worker PROVE Fine
    BY <1>13, <1>t DEF Fine, WorkerFate
  <1> QED
    BY <1>1, <1>2, <1>3, <1>4, <1>5, <1>6, <1>7, <1>8, <1>9, <1>10, <1>11, <1>12, <1>13
       DEF Next, vars, EventStep, ClaimStep, HolderStep, IncidentMoves, Receive,
           LeaseExpires, Purge

\* What one step may do to a row.
RowFate(e) ==
    \/ event'[e] = event[e]
    \/ /\ event[e].status \in {"absent", "pending"}
       /\ event'[e] = [event[e] EXCEPT !.status = "pending"]
    \/ LeaseExpires(e) /\ event'[e] = [event[e] EXCEPT !.lease = "expired"]
    \/ Purge(e) /\ event'[e] = [event[e] EXCEPT !.status = "deleted"]
    \/ \E w \in Workers :
          /\ worker[w].event = e
          /\ \/ Claim(w) /\ event'[e] = ClaimedRow(w, e)
             \/ Exhaust(w) /\ event'[e] = FailedRow(e)
             \/ Reserve(w) /\ event'[e] = [event[e] EXCEPT !.reserved = TRUE]
             \/ /\ Holds(w) /\ InProcess(e)
                /\ worker'[w].stage \notin Holding
                /\ event'[e] \in {CompletedRow(e), ReleasedRow(e)}

\* Only one row changes, if any, and along these ways.
LEMMA RowSummary ==
    ASSUME Typed, [Next]_vars
    PROVE  /\ event' \in [Events -> EventRecords]
           /\ \A e \in Events : RowFate(e)
  <1>t. event \in [Events -> EventRecords] /\ worker \in [Workers -> WorkerRecords]
    BY DEF Typed, TypeOK
  <1> DEFINE Fine == event' \in [Events -> EventRecords] /\ \A e \in Events : RowFate(e)
  <1>s. SUFFICES Fine
    OBVIOUS
  <1>u. ASSUME UNCHANGED event PROVE Fine
    BY <1>u, <1>t DEF RowFate
  <1>k. ASSUME NEW e \in Events, NEW x \in EventRecords, event' = [event EXCEPT ![e] = x],
               event'[e] = x => RowFate(e)
        PROVE  Fine
    <2>1. event'[e] = x /\ \A f \in Events \ {e} : event'[f] = event[f]
      BY <1>k, <1>t
    <2>2. \A f \in Events : f = e \/ RowFate(f)
      BY <2>1 DEF RowFate
    <2> QED BY <1>k, <1>t, <2>1, <2>2
  <1> HIDE DEF Fine
  <1>g. ASSUME NEW w \in Workers, worker[w].stage # "idle" PROVE worker[w].event \in Events
    BY <1>g DEF Typed
  <1>h. ASSUME NEW w \in Workers, NEW s, s \notin Holding, GoTo(w, s)
        PROVE  worker'[w].stage \notin Holding
    <2>1. worker'[w] = At(w, s)
      BY <1>h, <1>t DEF GoTo
    <2> QED BY <1>h, <2>1, WorkerFields
  <1>i. ASSUME NEW w \in Workers, Ends(w) PROVE worker'[w].stage \notin Holding
    BY <1>i, EndsFate DEF Idle, Holding
  <1>1. ASSUME NEW e \in Events, Receive(e) PROVE Fine
    BY <1>1, <1>k, RowValues DEF Receive, RowFate
  <1>2. ASSUME NEW e \in Events, LeaseExpires(e) PROVE Fine
    <2>1. event' = [event EXCEPT ![e] = [event[e] EXCEPT !.lease = "expired"]]
      BY <1>2 DEF LeaseExpires
    <2> QED BY <1>2, <1>k, <2>1, RowValues DEF RowFate
  <1>3. ASSUME NEW e \in Events, Purge(e) PROVE Fine
    <2>1. event' = [event EXCEPT ![e] = [event[e] EXCEPT !.status = "deleted"]]
      BY <1>3 DEF Purge
    <2> QED BY <1>3, <1>k, <2>1, RowValues DEF RowFate
  <1>4. ASSUME NEW w \in Workers, Claim(w) PROVE Fine
    <2> DEFINE e == worker[w].event
    <2>1. e \in Events /\ AttemptsLeft(e) /\ event' = [event EXCEPT ![e] = ClaimedRow(w, e)]
      BY <1>4, <1>g DEF Claim
    <2>2. ClaimedRow(w, e) \in EventRecords
      BY <2>1, RowValues
    <2> HIDE DEF e
    <2>3. worker[w].event = e
      BY DEF e
    <2> QED BY <1>4, <1>k, <2>1, <2>2, <2>3 DEF RowFate
  <1>5. ASSUME NEW w \in Workers, Exhaust(w) PROVE Fine
    <2> DEFINE e == worker[w].event
    <2>1. e \in Events /\ event' = [event EXCEPT ![e] = FailedRow(e)]
      BY <1>5, <1>g DEF Exhaust
    <2>2. FailedRow(e) \in EventRecords
      BY <2>1, RowValues
    <2> HIDE DEF e
    <2>3. worker[w].event = e
      BY DEF e
    <2> QED BY <1>5, <1>k, <2>1, <2>2, <2>3 DEF RowFate
  <1>6. ASSUME NEW w \in Workers, Reserve(w) PROVE Fine
    <2> DEFINE e == worker[w].event
    <2>1. e \in Events
      BY <1>6, <1>g DEF Reserve
    <2>2. UNCHANGED event \/ event' = [event EXCEPT ![e] = [event[e] EXCEPT !.reserved = TRUE]]
      BY <1>6 DEF Reserve
    <2>3. [event[e] EXCEPT !.reserved = TRUE] \in EventRecords
      BY <2>1, RowValues
    <2> HIDE DEF e
    <2>4. worker[w].event = e
      BY DEF e
    <2> QED BY <1>6, <1>k, <1>u, <2>1, <2>2, <2>3, <2>4 DEF RowFate
  <1>7. ASSUME NEW w \in Workers, Save(w) \/ Complete(w) \/ Release(w) PROVE Fine
    <2> DEFINE e == worker[w].event
    <2>1. e \in Events /\ Holds(w)
      BY <1>7, <1>g DEF Save, Complete, Release, Holds, Holding
    <2>2. \/ UNCHANGED event
          \/ InProcess(e) /\ event' = [event EXCEPT ![e] = CompletedRow(e)]
          \/ InProcess(e) /\ event' = [event EXCEPT ![e] = ReleasedRow(e)]
      BY <1>7 DEF Save, Complete, Release
    <2>3. worker'[w].stage \notin Holding
      BY <1>7, <1>h, <1>i DEF Save, Complete, Release, Holding
    <2>4. CompletedRow(e) \in EventRecords /\ ReleasedRow(e) \in EventRecords
      BY <2>1, RowValues
    <2> HIDE DEF e
    <2>5. worker[w].event = e
      BY DEF e
    <2>6. ASSUME event'[e] \in {CompletedRow(e), ReleasedRow(e)}, InProcess(e)
          PROVE  RowFate(e)
      BY <2>1, <2>3, <2>5, <2>6 DEF RowFate
    <2> QED BY <1>k, <1>u, <2>1, <2>2, <2>4, <2>6
  <1> QED
    BY <1>1, <1>2, <1>3, <1>4, <1>5, <1>6, <1>7, <1>u
       DEF Next, vars, EventStep, ClaimStep, HolderStep, IncidentMoves, Lookup,
           AlreadySettled, TurnedAway, Drop, Decide, Run, Unsafe, Errs, Reply, PostFixed,
           Notice

\* What the fates of a row have in common: it keeps its reservation and counts its
\* attempts up, and a settled row stays as it is until the retention job.
LEMMA RowKeeps ==
    ASSUME Typed, NEW e \in Events, RowFate(e)
    PROVE  /\ event[e].reserved => event'[e].reserved
           /\ event'[e].attempts >= event[e].attempts
           /\ Settled(e) => \/ event'[e].status = event[e].status
                            \/ ~Served(e) /\ event'[e].status = "deleted"
  <1>1. event[e] \in EventRecords /\ event[e].attempts \in Nat
    BY DEF Typed, TypeOK, EventRecords
  <1>2. CASE event'[e] = event[e]
    BY <1>1, <1>2
  <1>3. CASE /\ event[e].status \in {"absent", "pending"}
             /\ event'[e] = [event[e] EXCEPT !.status = "pending"]
    BY <1>1, <1>3 DEF EventRecords, Settled
  <1>4. CASE LeaseExpires(e) /\ event'[e] = [event[e] EXCEPT !.lease = "expired"]
    BY <1>1, <1>4 DEF EventRecords
  <1>5. CASE Purge(e) /\ event'[e] = [event[e] EXCEPT !.status = "deleted"]
    BY <1>1, <1>5 DEF EventRecords, Purge
  <1>6. ASSUME NEW w \in Workers, worker[w].event = e, Claim(w),
               event'[e] = ClaimedRow(w, e)
        PROVE  event[e].reserved = event'[e].reserved /\ ~Settled(e)
               /\ event'[e].attempts = event[e].attempts + 1
    <2>1. ~Settled(e)
      BY <1>6 DEF Claim, Claimable, Settled
    <2>2. ClaimedRow(w, e).reserved = event[e].reserved
          /\ ClaimedRow(w, e).attempts = event[e].attempts + 1
      BY ONLY <1>1 DEF ClaimedRow, EventRecords
    <2> QED BY <1>6, <2>1, <2>2
  <1>7. ASSUME event'[e] = FailedRow(e)
        PROVE  event[e].reserved = event'[e].reserved
               /\ event'[e].attempts = event[e].attempts
    BY <1>1, <1>7 DEF EventRecords, FailedRow
  <1>8. ASSUME event'[e] = [event[e] EXCEPT !.reserved = TRUE]
        PROVE  event'[e].reserved /\ event'[e].attempts = event[e].attempts
               /\ event'[e].status = event[e].status
    BY <1>1, <1>8 DEF EventRecords
  <1>9. ASSUME event'[e] \in {CompletedRow(e), ReleasedRow(e)}
        PROVE  event[e].reserved = event'[e].reserved
               /\ event'[e].attempts = event[e].attempts
    BY <1>1, <1>9 DEF EventRecords, CompletedRow, ReleasedRow, FailedRow
  <1>10. ASSUME NEW w \in Workers, worker[w].event = e, Exhaust(w) PROVE ~Settled(e)
    BY <1>10 DEF Exhaust, Claimable, Settled
  <1>11. InProcess(e) => ~Settled(e)
    BY DEF InProcess, Settled
  <1> QED BY <1>1, <1>2, <1>3, <1>4, <1>5, <1>6, <1>7, <1>8, <1>9, <1>10, <1>11 DEF RowFate

-----------------------------------------------------------------------------
(* Type correctness.                                                       *)

LEMMA TypedStep ==
    ASSUME Typed, [Next]_vars
    PROVE  Typed'
  <1>1. event' \in [Events -> EventRecords]
    BY RowSummary
  <1>2. worker' \in [Workers -> WorkerRecords] /\ \A w \in Workers : WorkerFate(w)
    BY WorkerSummary
  <1>3. ASSUME NEW w \in Workers, worker'[w].stage # "idle"
        PROVE  worker'[w].event \in Events
    <2>1. Idle.stage = "idle"
      BY DEF Idle
    <2>2. \A e \in Events : FoundOf(e).event = e
      BY DEF FoundOf
    <2> QED BY <1>2, <1>3, <2>1, <2>2 DEF WorkerFate, Proceeds, Typed
  <1>4. ASSUME NEW w \in Workers, worker[w].stage # "idle" PROVE worker[w].event \in Events
    BY <1>4 DEF Typed
  <1> DEFINE Others == /\ incident' \in [Incidents -> {"unknown", "open", "linked", "closed"}]
                       /\ comment' \subseteq Events
                       /\ charged' \in Nat
                       /\ task' \in [Events -> {"free", "queued", "answered"}]
                       /\ runs' \in [Events -> Nat]
                       /\ told' \in [Events -> Nat]
                       /\ outlived' \in BOOLEAN
  <1>a. ASSUME NEW e \in Events, UNCHANGED task \/ Answered200(e) \/ Answered503(e)
        PROVE  task' \in [Events -> {"free", "queued", "answered"}]
    BY <1>a DEF Answered200, Answered503, Typed, TypeOK
  <1>b. ASSUME NEW e \in Events
        PROVE  /\ [told EXCEPT ![e] = @ + 1] \in [Events -> Nat]
               /\ [runs EXCEPT ![e] = @ + 1] \in [Events -> Nat]
    BY DEF Typed, TypeOK
  <1>s. SUFFICES Others
    BY <1>1, <1>2, <1>3 DEF Typed, TypeOK
  <1>u. ASSUME UNCHANGED <<incident, comment, charged, task, runs, told, outlived>> PROVE Others
    BY <1>u DEF Typed, TypeOK
  <1>5. ASSUME NEW i \in Incidents, IncidentMoves(i) PROVE Others
    BY <1>5 DEF IncidentMoves, Later, Typed, TypeOK
  <1>6. ASSUME NEW e \in Events, Receive(e) PROVE Others
    BY <1>6 DEF Receive, Typed, TypeOK
  <1>7. ASSUME NEW e \in Events, LeaseExpires(e) PROVE Others
    BY <1>7 DEF LeaseExpires, Held, Typed, TypeOK
  <1>8. ASSUME NEW w \in Workers, AlreadySettled(w) \/ TurnedAway(w) \/ Complete(w) \/ Release(w)
        PROVE  Others
    <2>1. worker[w].event \in Events
      BY <1>8, <1>4 DEF AlreadySettled, TurnedAway, Complete, Release
    <2>2. /\ UNCHANGED task \/ Answered200(worker[w].event) \/ Answered503(worker[w].event)
          /\ UNCHANGED <<incident, comment, charged, runs, told, outlived>>
      BY <1>8 DEF AlreadySettled, TurnedAway, Complete, Release
    <2>3. task' \in [Events -> {"free", "queued", "answered"}]
      BY <1>a, <2>1, <2>2
    <2> QED BY <2>2, <2>3 DEF Typed, TypeOK
  <1>9. ASSUME NEW w \in Workers, Reserve(w) PROVE Others
    BY <1>9 DEF Reserve, Typed, TypeOK
  <1>10. ASSUME NEW w \in Workers, Run(w) PROVE Others
    BY <1>10, <1>4, <1>b DEF Run, Typed, TypeOK
  <1>11. ASSUME NEW w \in Workers, Save(w) PROVE Others
    <2>1. worker[w].event \in Events
      BY <1>11, <1>4 DEF Save
    <2>2. /\ UNCHANGED task \/ Answered200(worker[w].event)
          /\ comment' = comment \cup {worker[w].event} \/ UNCHANGED comment
          /\ UNCHANGED <<incident, charged, runs, told, outlived>>
      BY <1>11 DEF Save
    <2>3. task' \in [Events -> {"free", "queued", "answered"}]
      BY <1>a, <2>1, <2>2
    <2> QED BY <2>1, <2>2, <2>3 DEF Typed, TypeOK
  <1>12. ASSUME NEW w \in Workers, Reply(w) \/ Notice(w) PROVE Others
    <2>1. worker[w].event \in Events
      BY <1>12, <1>4 DEF Reply, Notice
    <2>2. /\ Answered200(worker[w].event)
          /\ told' = [told EXCEPT ![worker[w].event] = @ + 1] \/ UNCHANGED told
          /\ UNCHANGED <<incident, comment, charged, runs, outlived>>
      BY <1>12 DEF Reply, Notice
    <2>3. task' \in [Events -> {"free", "queued", "answered"}]
      BY <1>a, <2>1, <2>2
    <2> QED BY <1>b, <2>1, <2>2, <2>3 DEF Typed, TypeOK
  <1> HIDE DEF Others
  <1> QED
    BY <1>5, <1>6, <1>7, <1>8, <1>9, <1>10, <1>11, <1>12, <1>u
       DEF Next, vars, EventStep, ClaimStep, HolderStep, Purge, Lookup, Claim, Exhaust, Drop,
           Decide, Unsafe, Errs, PostFixed

LEMMA InitTyped ==
    ASSUME Init
    PROVE  Typed
  <1>1. Absent \in EventRecords
    BY SlackConstants DEF Absent, EventRecords
  <1> QED BY <1>1, NewWorkers DEF Init, Typed, TypeOK, Idle

LEMMA AlwaysTyped == Spec => []Typed
  <1>1. Init => Typed
    BY InitTyped
  <1>2. Typed /\ [Next]_vars => Typed'
    BY TypedStep
  <1> QED BY <1>1, <1>2, PTL DEF Spec

\* The rows, the tasks and the requests keep their types, and no row counts more attempts
\* than MAX_SLACK_EVENT_ATTEMPTS.
THEOREM SlackTypes == Spec => []TypeOK
  <1>1. Typed => TypeOK
    BY DEF Typed
  <1> QED BY <1>1, AlwaysTyped, PTL

-----------------------------------------------------------------------------
(* Charges.  An attempt pays for one model run at most, which is spare as  *)
(* long as the request that claimed it has not called the model.           *)

Spare(e) == {w \in Workers : worker[w].stage \in {"claimed", "fetch", "run"}
                             /\ worker[w].event = e}

Paid == {e \in Events : event[e].reserved}

ChargeInv ==
    /\ charged = Cardinality(Paid)
    /\ \A e \in Events : /\ runs[e] + Cardinality(Spare(e)) <= event[e].attempts
                         /\ runs[e] > 0 => event[e].reserved
    /\ \A w \in Workers : worker[w].stage \in {"run", "running"} =>
                              event[worker[w].event].reserved

LEMMA ChargeInit ==
    ASSUME Init
    PROVE  ChargeInv
  <1>1. Paid = {} /\ \A e \in Events : Spare(e) = {}
    BY DEF Init, Absent, Idle, Paid, Spare
  <1>2. Cardinality({}) = 0
    BY FS_EmptySet
  <1>3. /\ charged = 0 /\ \A e \in Events : runs[e] = 0 /\ event[e].attempts = 0
        /\ \A w \in Workers : worker[w].stage = "idle"
    BY DEF Init, Absent, Idle
  <1>4. \A e \in Events : runs[e] + Cardinality(Spare(e)) <= event[e].attempts
    BY <1>1, <1>2, <1>3
  <1> QED BY <1>1, <1>2, <1>3, <1>4 DEF ChargeInv

LEMMA SpareFinite ==
    ASSUME NEW e \in Events
    PROVE  /\ IsFiniteSet(Spare(e)) /\ Cardinality(Spare(e)) \in Nat
           /\ IsFiniteSet(Spare(e)') /\ Cardinality(Spare(e)') \in Nat
  <1>1. Spare(e) \subseteq Workers /\ Spare(e)' \subseteq Workers
    BY DEF Spare
  <1> QED BY <1>1, SlackConstants, FS_Subset, FS_CardinalityType

\* A request that has a spare run afterwards had it before or has just claimed its event.
LEMMA SpareGrows ==
    ASSUME Typed, [Next]_vars, NEW e \in Events, NEW w \in Workers, w \in Spare(e)', w \notin Spare(e)
    PROVE  Claim(w) /\ worker[w].event = e /\ Moves(w)
  <1>1. WorkerFate(w)
    BY WorkerSummary
  <1>2. worker'[w] # Idle /\ \A f \in Events : worker'[w] # FoundOf(f)
    BY DEF Spare, Idle, FoundOf
  <1>3. worker'[w] # worker[w]
    BY DEF Spare
  <1>4. Proceeds(w) /\ Onward(w)
    BY <1>1, <1>2, <1>3 DEF WorkerFate
  <1>5. worker[w].event = e
    BY <1>4 DEF Proceeds, Spare
  <1>6. worker'[w].stage \in {"claimed", "fetch", "run"} /\ worker[w].stage \notin {"claimed", "fetch", "run"}
    BY <1>5 DEF Spare
  <1>7. Claim(w)
    BY <1>4, <1>6 DEF Onward
  <1>8. Moves(w)
    BY <1>3, WorkerSummary DEF Moves
  <1> QED BY <1>5, <1>7, <1>8

LEMMA ChargeStep ==
    ASSUME Typed, ChargeInv, [Next]_vars
    PROVE  ChargeInv'
  <1>t. /\ event \in [Events -> EventRecords] /\ event' \in [Events -> EventRecords]
        /\ worker \in [Workers -> WorkerRecords]
        /\ runs \in [Events -> Nat] /\ charged \in Nat
    BY RowSummary DEF Typed, TypeOK
  <1>k. \A e \in Events : /\ event[e].reserved => event'[e].reserved
                          /\ event'[e].attempts >= event[e].attempts
    BY RowSummary, RowKeeps
  <1>n. \A e \in Events : event[e].attempts \in Nat /\ event'[e].attempts \in Nat
    BY <1>t DEF EventRecords
  <1>g. \A w \in Workers : worker[w].stage # "idle" => worker[w].event \in Events
    BY DEF Typed
  \* The number of charges.
  <1>1. charged' = Cardinality(Paid')
    <2>1. ASSUME NEW w \in Workers, Reserve(w), ~Reserved(worker[w].event), charged' # charged
          PROVE  charged' = Cardinality(Paid')
      <3> DEFINE e == worker[w].event
      <3>1. /\ e \in Events /\ e \notin Paid /\ charged' = charged + 1
            /\ event' = [event EXCEPT ![e].reserved = TRUE]
        BY <2>1, <1>g DEF Reserve, Reserved, Paid
      <3>2. event'[e].reserved /\ \A f \in Events \ {e} : event'[f] = event[f]
        BY <1>t, <3>1 DEF EventRecords
      <3> HIDE DEF e
      <3>3. Paid' = Paid \cup {e}
        BY <3>1, <3>2 DEF Paid
      <3>4. IsFiniteSet(Paid)
        BY SlackConstants, FS_Subset DEF Paid
      <3> QED BY <3>1, <3>3, <3>4, FS_AddElement DEF ChargeInv
    <2>2. ASSUME UNCHANGED charged, \A e \in Events : event'[e].reserved = event[e].reserved
          PROVE  charged' = Cardinality(Paid')
      BY <2>2 DEF Paid, ChargeInv
    <2>3. ASSUME NEW e \in Events, RowFate(e),
                 event'[e].reserved # event[e].reserved
          PROVE  \E w \in Workers : Reserve(w) /\ charged' # charged
      <3>1. event[e] \in EventRecords /\ event'[e] \in EventRecords
        BY <1>t
      <3>2. /\ [event[e] EXCEPT !.status = "pending"].reserved = event[e].reserved
            /\ [event[e] EXCEPT !.status = "deleted"].reserved = event[e].reserved
            /\ [event[e] EXCEPT !.lease = "expired"].reserved = event[e].reserved
            /\ FailedRow(e).reserved = event[e].reserved
            /\ CompletedRow(e).reserved = event[e].reserved
            /\ ReleasedRow(e).reserved = event[e].reserved
            /\ \A w \in Workers : ClaimedRow(w, e).reserved = event[e].reserved
        BY ONLY <3>1 DEF EventRecords, FailedRow, CompletedRow, ReleasedRow, ClaimedRow
      <3>3. PICK w \in Workers : Reserve(w) /\ worker[w].event = e
        BY <2>3, <3>2 DEF RowFate
      <3>4. ~UNCHANGED event
        BY <2>3
      <3>5. charged' = charged + 1
        BY <3>3, <3>4 DEF Reserve
      <3>6. charged' # charged
        BY <1>t, <3>5
      <3> QED BY <3>3, <3>6
    <2>4. ASSUME ~UNCHANGED charged
          PROVE  \E w \in Workers : Reserve(w) /\ ~Reserved(worker[w].event)
      BY <2>4 DEF Next, vars, EventStep, ClaimStep, HolderStep, IncidentMoves, Receive,
            LeaseExpires, Purge, Lookup, Claim, Exhaust, AlreadySettled, TurnedAway, Drop,
            Decide, Reserve, Run, Unsafe, Errs, Save, Reply, PostFixed, Complete, Release, Notice
    <2>5. \A e \in Events : RowFate(e)
      BY RowSummary
    <2> QED BY <2>1, <2>2, <2>3, <2>4, <2>5
  \* Runs are paid for.
  <1>2. ASSUME NEW w \in Workers, worker'[w].stage \in {"run", "running"}
        PROVE  event'[worker'[w].event].reserved
    <2>1. WorkerFate(w)
      BY WorkerSummary
    <2>2. worker'[w] # Idle /\ \A e \in Events : worker'[w] # FoundOf(e)
      BY <1>2 DEF Idle, FoundOf
    <2>3. CASE worker'[w] = worker[w]
      BY <1>2, <1>g, <1>k, <2>3 DEF ChargeInv
    <2>4. CASE Proceeds(w) /\ Onward(w)
      <3> DEFINE e == worker[w].event
      <3>1. e \in Events /\ worker'[w].event = e
        BY <1>g, <2>4 DEF Proceeds
      <3>2. (Reserve(w) /\ worker'[w].stage = "run") \/ Run(w)
        BY <1>2, <2>4 DEF Onward
      <3>3. ASSUME Run(w) PROVE event[e].reserved
        BY <3>3 DEF Run, ChargeInv
      <3>4. ASSUME Reserve(w), worker'[w].stage = "run" PROVE event'[e].reserved
        <4>1. GoTo(w, "fixed") => worker'[w].stage = "fixed"
          BY <3>4, GoToFate DEF Reserve, Stages
        <4>2. \/ Reserved(e)
              \/ event' = [event EXCEPT ![e].reserved = TRUE]
          BY <3>4, <4>1 DEF Reserve
        <4> QED BY <1>t, <1>k, <3>1, <4>2 DEF Reserved, EventRecords
      <3> QED BY <1>k, <3>1, <3>2, <3>3, <3>4
    <2> QED BY <2>1, <2>2, <2>3, <2>4 DEF WorkerFate
  \* Runs and spare runs.
  <1>3. ASSUME NEW e \in Events
        PROVE  /\ runs'[e] + Cardinality(Spare(e)') <= event'[e].attempts
               /\ runs'[e] > 0 => event'[e].reserved
    <2>0. /\ runs[e] \in Nat /\ IsFiniteSet(Spare(e)) /\ Cardinality(Spare(e)) \in Nat
          /\ Cardinality(Spare(e)') \in Nat
          /\ runs[e] + Cardinality(Spare(e)) <= event[e].attempts
          /\ runs[e] > 0 => event[e].reserved
          /\ event[e].attempts \in Nat /\ event'[e].attempts \in Nat
          /\ event'[e].attempts >= event[e].attempts
          /\ event[e].reserved => event'[e].reserved
      BY <1>t, <1>k, <1>n, SpareFinite DEF ChargeInv
    <2>1. ASSUME Spare(e)' \subseteq Spare(e), runs'[e] = runs[e]
          PROVE  /\ runs'[e] + Cardinality(Spare(e)') <= event'[e].attempts
                 /\ runs'[e] > 0 => event'[e].reserved
      <3>1. Cardinality(Spare(e)') <= Cardinality(Spare(e))
        BY <2>0, <2>1, FS_Subset
      <3> QED BY ONLY <2>0, <2>1, <3>1
    <2>2. ASSUME NEW w \in Workers, Run(w), worker[w].event = e
          PROVE  /\ runs'[e] + Cardinality(Spare(e)') <= event'[e].attempts
                 /\ runs'[e] > 0 => event'[e].reserved
      <3>1. runs'[e] = runs[e] + 1 /\ event[e].reserved /\ event' = event
        BY <2>2, <1>t DEF Run, ChargeInv
      <3>2. worker'[w].stage = "running" /\ Moves(w)
        BY <2>2, GoToFate DEF Run, Stages
      <3>3. w \in Spare(e) /\ Spare(e)' = Spare(e) \ {w}
        BY <2>2, <3>2 DEF Run, Spare, Moves
      <3>4. Cardinality(Spare(e)') = Cardinality(Spare(e)) - 1
        BY <2>0, <3>3, FS_RemoveElement
      <3>5. event'[e].attempts = event[e].attempts /\ event'[e].reserved
        BY <3>1
      <3>6. runs'[e] = runs[e] + 1
        BY <3>1
      <3> QED BY ONLY <2>0, <3>4, <3>5, <3>6
    <2>3. ASSUME NEW w \in Workers, Claim(w), worker[w].event = e, Moves(w)
          PROVE  /\ runs'[e] + Cardinality(Spare(e)') <= event'[e].attempts
                 /\ runs'[e] > 0 => event'[e].reserved
      <3>1. runs'[e] = runs[e] /\ event'[e] = ClaimedRow(w, e)
        BY <2>3, <1>t DEF Claim
      <3>2. event'[e].attempts = event[e].attempts + 1
        BY <1>t, <3>1 DEF ClaimedRow, EventRecords
      <3>3. w \notin Spare(e) /\ Spare(e)' \subseteq Spare(e) \cup {w}
        BY <2>3 DEF Claim, Spare, Moves
      <3>4. Cardinality(Spare(e) \cup {w}) = Cardinality(Spare(e)) + 1
            /\ IsFiniteSet(Spare(e) \cup {w})
        BY <2>0, <3>3, FS_AddElement
      <3>5. Cardinality(Spare(e)') <= Cardinality(Spare(e)) + 1
        BY <3>3, <3>4, FS_Subset
      <3> QED BY ONLY <2>0, <3>1, <3>2, <3>5
    <2>4. runs'[e] = runs[e] \/ \E w \in Workers : Run(w) /\ worker[w].event = e
      <3>1. UNCHANGED runs \/ \E w \in Workers : Run(w)
        BY DEF Next, vars, EventStep, ClaimStep, HolderStep, IncidentMoves, Receive,
            LeaseExpires, Purge, Lookup, Claim, Exhaust, AlreadySettled, TurnedAway, Drop,
            Decide, Reserve, Unsafe, Errs, Save, Reply, PostFixed, Complete, Release, Notice
      <3> QED BY <3>1, <1>t DEF Run
    <2>5. ASSUME runs'[e] = runs[e], ~(Spare(e)' \subseteq Spare(e))
          PROVE  \E w \in Workers : Claim(w) /\ worker[w].event = e /\ Moves(w)
      <3>1. PICK w : w \in Spare(e)' /\ w \notin Spare(e)
        BY <2>5
      <3>2. w \in Workers
        BY <3>1 DEF Spare
      <3> QED BY <3>1, <3>2, SpareGrows
    <2> QED BY <2>1, <2>2, <2>3, <2>4, <2>5
  <1> QED BY <1>1, <1>2, <1>3 DEF ChargeInv

\* No attempt runs the model twice, no run is free, and no event is charged twice.
THEOREM FollowupsArePaid == Spec => []RunsAreCharged
  <1> DEFINE Inv == Typed /\ ChargeInv
  <1>1. Init => Inv
    BY InitTyped, ChargeInit
  <1>2. Inv /\ [Next]_vars => Inv'
    BY TypedStep, ChargeStep
  <1>3. Inv => RunsAreCharged
    <2>1. ASSUME Inv, NEW e \in Events
          PROVE  runs[e] <= event[e].attempts /\ (runs[e] > 0 => event[e].reserved)
      <3>1. runs[e] \in Nat /\ event[e].attempts \in Nat
        BY <2>1 DEF Typed, TypeOK, EventRecords
      <3>2. runs[e] + Cardinality(Spare(e)) <= event[e].attempts
            /\ (runs[e] > 0 => event[e].reserved)
        BY <2>1 DEF ChargeInv
      <3>3. Cardinality(Spare(e)) \in Nat
        BY SpareFinite
      <3> QED BY ONLY <3>1, <3>2, <3>3
    <2> QED BY <2>1 DEF ChargeInv, RunsAreCharged, Paid
  <1> HIDE DEF Inv
  <1> QED BY <1>1, <1>2, <1>3, PTL DEF Spec

-----------------------------------------------------------------------------
(* Outcomes.  A request about to tell the thread something stands for the  *)
(* only end its event has had.                                             *)

Teller(w) == worker[w].stage \in {"reply", "notice"}

OutcomeInv ==
    /\ OutcomeIsOne
    /\ \A w \in Workers :
          LET e == worker[w].event IN
          /\ worker[w].stage = "reply" => event[e].status = "completed" /\ e \in comment
          /\ worker[w].stage = "notice" => event[e].status = "failed"
          /\ Teller(w) => told[e] = 0
          /\ worker[w].stage = "running" => runs[e] > 0
    /\ \A v, w \in Workers :
          Teller(v) /\ Teller(w) /\ worker[v].event = worker[w].event => v = w

\* Who tells the thread, who records a comment and who comes to tell next.
LEMMA Tellings ==
    ASSUME Typed, [Next]_vars
    PROVE  /\ \/ UNCHANGED told
              \/ \E w \in Workers : /\ Teller(w) /\ worker'[w] = Idle
                                    /\ told' = [told EXCEPT ![worker[w].event] = @ + 1]
                                    /\ UNCHANGED <<event, comment, runs>>
           /\ \/ UNCHANGED comment
              \/ \E w \in Workers : /\ worker[w].stage = "running"
                                    /\ event' = [event EXCEPT ![worker[w].event]
                                                         = CompletedRow(worker[w].event)]
                                    /\ comment' = comment \cup {worker[w].event}
           /\ \A e \in Events : runs'[e] >= runs[e]
  <1>t. worker \in [Workers -> WorkerRecords] /\ runs \in [Events -> Nat]
    BY DEF Typed, TypeOK
  <1>1. \/ UNCHANGED told
        \/ \E w \in Workers : (Reply(w) \/ Notice(w)) /\ ~UNCHANGED told
    BY DEF Next, vars, EventStep, ClaimStep, HolderStep, IncidentMoves, Receive,
           LeaseExpires, Purge, Lookup, Claim, Exhaust, AlreadySettled, TurnedAway, Drop,
           Decide, Reserve, Run, Unsafe, Errs, Save, PostFixed, Complete, Release
  <1>2. ASSUME NEW w \in Workers, Reply(w) \/ Notice(w), ~UNCHANGED told
        PROVE  /\ Teller(w) /\ worker'[w] = Idle
               /\ told' = [told EXCEPT ![worker[w].event] = @ + 1]
               /\ UNCHANGED <<event, comment, runs>>
    BY <1>2, EndsFate DEF Reply, Notice, Teller
  <1>3. \/ UNCHANGED comment
        \/ \E w \in Workers : Save(w) /\ ~UNCHANGED comment
    BY DEF Next, vars, EventStep, ClaimStep, HolderStep, IncidentMoves, Receive,
           LeaseExpires, Purge, Lookup, Claim, Exhaust, AlreadySettled, TurnedAway, Drop,
           Decide, Reserve, Run, Unsafe, Errs, Reply, PostFixed, Complete, Release, Notice
  <1>4. ASSUME NEW w \in Workers, Save(w), ~UNCHANGED comment
        PROVE  /\ worker[w].stage = "running"
               /\ event' = [event EXCEPT ![worker[w].event] = CompletedRow(worker[w].event)]
               /\ comment' = comment \cup {worker[w].event}
    BY <1>4 DEF Save
  <1>5. UNCHANGED runs \/ \E w \in Workers : runs' = [runs EXCEPT ![worker[w].event] = @ + 1]
    BY DEF Next, vars, EventStep, ClaimStep, HolderStep, IncidentMoves, Receive,
           LeaseExpires, Purge, Lookup, Claim, Exhaust, AlreadySettled, TurnedAway, Drop,
           Decide, Reserve, Run, Unsafe, Errs, Save, Reply, PostFixed, Complete, Release, Notice
  <1>6. \A e \in Events : runs'[e] >= runs[e]
    BY <1>t, <1>5
  <1> QED BY <1>1, <1>2, <1>3, <1>4, <1>6

\* A request becomes a teller when it has just settled its event, and alone.
LEMMA NewTeller ==
    ASSUME Typed, [Next]_vars, NEW w \in Workers, Teller(w)', worker'[w] # worker[w]
    PROVE  LET e == worker[w].event IN
           /\ worker'[w].event = e /\ e \in Events
           /\ ~Settled(e)
           /\ worker'[w].stage = "reply" => event'[e].status = "completed" /\ e \in comment'
           /\ worker'[w].stage = "notice" => event'[e].status = "failed"
           /\ UNCHANGED told
           /\ Moves(w)
  <1> DEFINE e == worker[w].event
  <1>1. worker'[w] # Idle /\ \A f \in Events : worker'[w] # FoundOf(f)
    BY DEF Teller, Idle, FoundOf
  <1>2. Proceeds(w) /\ Onward(w) /\ Moves(w)
    BY <1>1, WorkerSummary DEF WorkerFate, Moves
  <1>3. worker'[w].event = e /\ e \in Events
    BY <1>2 DEF Proceeds, Typed
  <1>t. event \in [Events -> EventRecords] /\ event[e] \in EventRecords
    BY <1>3 DEF Typed, TypeOK
  <1>4. ASSUME worker'[w].stage = "reply"
        PROVE  ~Settled(e) /\ event'[e].status = "completed" /\ e \in comment' /\ UNCHANGED told
    <2>1. Save(w) /\ InProcess(e)
      BY <1>2, <1>4 DEF Onward
    <2>2. event' = [event EXCEPT ![e] = CompletedRow(e)] /\ e \in comment' /\ UNCHANGED told
      BY <2>1 DEF Save
    <2>3. CompletedRow(e).status = "completed"
      BY <1>t DEF CompletedRow, EventRecords
    <2> QED BY <1>3, <1>t, <2>1, <2>2, <2>3 DEF InProcess, Settled
  <1>5. FailedRow(e).status = "failed"
    BY <1>t DEF FailedRow, EventRecords
  <1>6. ASSUME worker'[w].stage = "notice", Exhaust(w)
        PROVE  ~Settled(e) /\ event'[e].status = "failed" /\ UNCHANGED told
    <2>1. event' = [event EXCEPT ![e] = FailedRow(e)] /\ UNCHANGED told /\ Claimable(e)
      BY <1>6 DEF Exhaust
    <2> QED BY <1>3, <1>t, <1>5, <2>1 DEF Claimable, Settled
  <1>7. ASSUME worker'[w].stage = "notice", Release(w)
        PROVE  ~Settled(e) /\ event'[e].status = "failed" /\ UNCHANGED told
    <2>1. ~Ends(w)
      BY <1>1, EndsFate
    <2>2. InProcess(e) /\ ~AttemptsLeft(e) /\ UNCHANGED told
          /\ event' = [event EXCEPT ![e] = FailedRow(e)]
      BY <1>7, <2>1 DEF Release, ReleasedRow
    <2> QED BY <1>3, <1>t, <1>5, <2>2 DEF InProcess, Settled
  <1>8. \/ worker'[w].stage = "reply"
        \/ worker'[w].stage = "notice" /\ (Exhaust(w) \/ Release(w))
    BY <1>2 DEF Onward, Teller
  <1>9. ~Settled(e) /\ UNCHANGED told
    BY <1>4, <1>6, <1>7, <1>8
  <1>10. ASSUME worker'[w].stage = "notice" PROVE event'[e].status = "failed"
    <2>1. Exhaust(w) \/ Release(w)
      BY <1>8, <1>10
    <2> QED BY <1>6, <1>7, <1>10, <2>1
  <1> QED BY <1>2, <1>3, <1>4, <1>9, <1>10

LEMMA OutcomeStep ==
    ASSUME Typed, OutcomeInv, [Next]_vars
    PROVE  OutcomeInv'
  <1>t. told \in [Events -> Nat] /\ runs \in [Events -> Nat]
        /\ event \in [Events -> EventRecords]
    BY DEF Typed, TypeOK
  <1>g. \A w \in Workers : worker[w].stage # "idle" => worker[w].event \in Events
    BY DEF Typed
  <1>r. \A e \in Events : runs[e] > 0 => runs'[e] > 0
    <2>1. \A e \in Events : runs'[e] >= runs[e] /\ runs[e] \in Nat
      BY <1>t, Tellings
    <2>2. \A e \in Events : runs'[e] \in Nat
      BY TypedStep DEF Typed, TypeOK
    <2> QED BY <2>1, <2>2
  <1>s. \A e \in Events : Settled(e) => \/ event'[e].status = event[e].status
                                        \/ ~Served(e) /\ event'[e].status = "deleted"
    BY RowSummary, RowKeeps
  <1>c. comment \subseteq comment'
    BY Tellings
  <1>o. \A e \in Events :
            /\ told[e] \in Nat /\ told[e] <= 1
            /\ told[e] > 0 => Settled(e)
            /\ e \in comment => event[e].status \in {"completed", "deleted"} /\ runs[e] > 0
            /\ told[e] > 0 /\ event[e].status = "completed" => e \in comment
    BY <1>t DEF OutcomeInv, OutcomeIsOne
  \* One event.
  <1>1. ASSUME NEW e \in Events
        PROVE  /\ told'[e] <= 1
               /\ told'[e] > 0 => Settled(e)'
               /\ e \in comment' => event'[e].status \in {"completed", "deleted"} /\ runs'[e] > 0
               /\ told'[e] > 0 /\ event'[e].status = "completed" => e \in comment'
    <2>1. ASSUME e \in comment'
          PROVE  event'[e].status \in {"completed", "deleted"} /\ runs'[e] > 0
      <3>1. CASE e \in comment
        BY <3>1, <1>o, <1>s, <1>r DEF Settled
      <3>2. CASE e \notin comment
        <4>1. PICK w \in Workers : /\ worker[w].stage = "running" /\ worker[w].event = e
                                   /\ event' = [event EXCEPT ![e] = CompletedRow(e)]
          BY <2>1, <3>2, Tellings
        <4>2. event'[e].status = "completed"
          BY <1>t, <4>1 DEF CompletedRow, EventRecords
        <4>3. runs[e] > 0
          BY <4>1 DEF OutcomeInv
        <4> QED BY <1>r, <4>2, <4>3
      <3> QED BY <3>1, <3>2
    <2>2. CASE told'[e] = told[e]
      BY <2>1, <2>2, <1>o, <1>s, <1>c DEF Settled
    <2>3. CASE told'[e] # told[e]
      <3>1. PICK w \in Workers : /\ Teller(w) /\ worker[w].event = e
                                 /\ told' = [told EXCEPT ![e] = @ + 1]
                                 /\ UNCHANGED <<event, comment, runs>>
        BY <2>3, <1>t, Tellings
      <3>2. told[e] = 0 /\ told'[e] = 1
        BY <1>t, <3>1 DEF OutcomeInv
      <3>3. \/ event[e].status = "completed" /\ e \in comment
            \/ event[e].status = "failed"
        BY <3>1 DEF OutcomeInv, Teller
      <3> QED BY <2>1, <3>1, <3>2, <3>3 DEF Settled
    <2> QED BY <2>2, <2>3
  \* One request.
  <1>2. ASSUME NEW w \in Workers
        PROVE  LET e == worker'[w].event IN
               /\ worker'[w].stage = "reply" => event'[e].status = "completed" /\ e \in comment'
               /\ worker'[w].stage = "notice" => event'[e].status = "failed"
               /\ Teller(w)' => told'[e] = 0
    <2>1. CASE worker'[w] = worker[w]
      <3> DEFINE e == worker[w].event
      <3>1. ASSUME Teller(w)
            PROVE  /\ event'[e].status = event[e].status /\ told'[e] = told[e]
                   /\ e \in Events
        <4>1. e \in Events /\ Served(e)
          BY <3>1, <1>g DEF Teller, Served, Serves
        <4>2. Settled(e)
          BY <3>1 DEF OutcomeInv, Settled, Teller
        <4>3. ASSUME told'[e] # told[e] PROVE FALSE
          <5>1. PICK v \in Workers : /\ Teller(v) /\ worker'[v] = Idle
                                     /\ told' = [told EXCEPT ![worker[v].event] = @ + 1]
            BY <4>3, Tellings
          <5>2. worker[v].event = e
            BY <4>3, <5>1, <1>t, <4>1
          <5>3. v = w
            BY <3>1, <5>1, <5>2 DEF OutcomeInv
          <5> QED BY <2>1, <3>1, <5>1, <5>3 DEF Teller, Idle
        <4> QED BY <1>s, <4>1, <4>2, <4>3
      <3> QED BY <2>1, <3>1, <1>c DEF OutcomeInv, Teller
    <2>2. CASE worker'[w] # worker[w]
      <3>1. ASSUME Teller(w)'
            PROVE  LET e == worker'[w].event IN
                   /\ worker'[w].stage = "reply" => event'[e].status = "completed" /\ e \in comment'
                   /\ worker'[w].stage = "notice" => event'[e].status = "failed"
                   /\ told'[e] = 0
        <4>1. worker'[w].event \in Events /\ ~Settled(worker'[w].event) /\ UNCHANGED told
          BY <2>2, <3>1, NewTeller
        <4>2. told[worker'[w].event] = 0
          BY <1>o, <4>1
        <4> QED BY <2>2, <3>1, <4>1, <4>2, NewTeller
      <3> QED BY <3>1 DEF Teller
    <2> QED BY <2>1, <2>2
  <1>3. ASSUME NEW w \in Workers, worker'[w].stage = "running"
        PROVE  runs'[worker'[w].event] > 0
    <2>1. worker'[w] # Idle /\ \A f \in Events : worker'[w] # FoundOf(f)
      BY <1>3 DEF Idle, FoundOf
    <2>2. CASE worker'[w] = worker[w]
      <3>1. worker[w].stage = "running" /\ worker[w].event \in Events
        BY <1>3, <1>g, <2>2
      <3>2. runs[worker[w].event] > 0
        BY <3>1 DEF OutcomeInv
      <3> QED BY <1>r, <2>2, <3>1, <3>2
    <2>3. CASE Proceeds(w) /\ Onward(w)
      <3>1. Run(w)
        BY <1>3, <2>3 DEF Onward
      <3>2. worker'[w].event = worker[w].event /\ worker[w].event \in Events
        BY <2>3, <1>g DEF Proceeds
      <3>3. runs'[worker[w].event] = runs[worker[w].event] + 1
        BY <1>t, <3>1, <3>2 DEF Run
      <3> QED BY <1>t, <3>2, <3>3
    <2> QED BY <2>1, <2>2, <2>3, WorkerSummary DEF WorkerFate
  \* Two requests.
  <1>4. ASSUME NEW v \in Workers, NEW w \in Workers, Teller(v)', Teller(w)',
               worker'[v].event = worker'[w].event, v # w
        PROVE  FALSE
    <2>1. ASSUME NEW x \in Workers, NEW y \in Workers, x # y, Teller(x)', Teller(y)',
                 worker'[x].event = worker'[y].event, worker'[x] # worker[x]
          PROVE  FALSE
      <3>1. /\ worker'[x].event \in Events /\ ~Settled(worker'[x].event) /\ Moves(x)
        BY <2>1, NewTeller
      <3>2. worker'[y] = worker[y]
        BY <2>1, <3>1 DEF Moves
      <3>3. Teller(y) /\ worker[y].event = worker'[x].event
        BY <2>1, <3>2 DEF Teller
      <3>4. Settled(worker[y].event)
        BY <3>3 DEF OutcomeInv, Teller, Settled
      <3> QED BY <3>1, <3>3, <3>4
    <2>2. worker'[v] = worker[v] /\ worker'[w] = worker[w]
      BY <1>4, <2>1
    <2> QED BY <1>4, <2>2 DEF OutcomeInv, Teller
  <1>5. OutcomeIsOne'
    BY <1>1 DEF OutcomeIsOne
  <1>6. \A v, w \in Workers :
           Teller(v)' /\ Teller(w)' /\ worker'[v].event = worker'[w].event => v = w
    BY <1>4
  <1> QED BY <1>2, <1>3, <1>5, <1>6 DEF OutcomeInv

LEMMA OutcomeInit ==
    ASSUME Init
    PROVE  OutcomeInv
  <1>1. /\ \A e \in Events : told[e] = 0
        /\ comment = {} /\ \A w \in Workers : worker[w].stage = "idle"
    BY DEF Init, Idle
  <1> QED BY <1>1 DEF OutcomeInv, OutcomeIsOne, Teller

LEMMA AlwaysOutcome == Spec => [](Typed /\ OutcomeInv)
  <1>1. Init => Typed /\ OutcomeInv
    BY InitTyped, OutcomeInit
  <1>2. Typed /\ OutcomeInv /\ [Next]_vars => (Typed /\ OutcomeInv)'
    BY TypedStep, OutcomeStep
  <1> QED BY <1>1, <1>2, PTL DEF Spec

\* A mention is told one thing at most, its recorded answer or its failure.
THEOREM OneOutcome == Spec => []OutcomeIsOne
  <1>1. Typed /\ OutcomeInv => OutcomeIsOne
    BY DEF OutcomeInv
  <1> QED BY <1>1, AlwaysOutcome, PTL

-----------------------------------------------------------------------------
(* Leases.  As long as no request outlives its lease, every request that   *)
(* holds an event has its lease, alone, and the row names its incident.    *)

Owns(w) ==
    LET e == worker[w].event IN
    /\ LeaseLive(e)
    /\ worker[w].incident # None => event[e].incident = worker[w].incident

\* Two requests at work for one incident, or on one event.
Together(v, w) ==
    \/ worker[v].incident # None /\ worker[v].incident = worker[w].incident
    \/ worker[v].event = worker[w].event

HoldInv == \A v, w \in Workers : /\ Holds(w) => Owns(w)
                                 /\ Holds(v) /\ Holds(w) /\ Together(v, w) => v = w

LeaseInv == ~outlived => HoldInv /\ AnsweredIsSettled

\* A request that holds an event afterwards held it before or has just claimed it.
LEMMA NewHolder ==
    ASSUME Typed, [Next]_vars, NEW w \in Workers, Holds(w)'
    PROVE  /\ worker'[w].event = worker[w].event /\ worker[w].event \in Events
           /\ worker'[w].incident = worker[w].incident
           /\ Holds(w) \/ (Claim(w) /\ Moves(w))
  <1>1. worker'[w] # Idle /\ \A f \in Events : worker'[w] # FoundOf(f)
    BY DEF Holds, Holding, Idle, FoundOf
  <1>2. CASE worker'[w] = worker[w]
    BY <1>2 DEF Holds, Holding, Typed
  <1>3. ASSUME worker'[w] # worker[w], Proceeds(w), Onward(w)
        PROVE  /\ worker'[w].event = worker[w].event /\ worker[w].event \in Events
               /\ worker'[w].incident = worker[w].incident
               /\ Holds(w) \/ (Claim(w) /\ Moves(w))
    <2>1. Moves(w)
      BY <1>3, WorkerSummary DEF Moves
    <2>2. Holds(w) \/ Claim(w)
      BY <1>3 DEF Onward, Holds, Holding, Run
    <2> QED BY <1>3, <2>1, <2>2 DEF Proceeds, Typed
  <1> QED BY <1>1, <1>2, <1>3, WorkerSummary DEF WorkerFate

LEMMA Outlived ==
    ASSUME Typed, [Next]_vars
    PROVE  /\ outlived => outlived'
           /\ \A e \in Events : LeaseExpires(e) /\ Held(e) => outlived'
  BY DEF Typed, TypeOK, Next, vars, EventStep, ClaimStep, HolderStep, IncidentMoves, Receive,
         LeaseExpires, Purge, Lookup, Claim, Exhaust, AlreadySettled, TurnedAway, Drop,
         Decide, Reserve, Run, Unsafe, Errs, Save, Reply, PostFixed, Complete, Release, Notice

LEMMA HoldStep ==
    ASSUME Typed, HoldInv, [Next]_vars, ~outlived'
    PROVE  HoldInv'
  <1>t. event \in [Events -> EventRecords] /\ worker \in [Workers -> WorkerRecords]
    BY DEF Typed, TypeOK
  \* The row of a holder that stays one keeps its lease and its incident.
  <1>1. ASSUME NEW w \in Workers, Holds(w), Holds(w)'
        PROVE  Owns(w)'
    <2> DEFINE e == worker[w].event
    <2>1. /\ worker'[w].event = e /\ e \in Events /\ worker'[w].incident = worker[w].incident
      BY <1>1, NewHolder
    <2>2. /\ LeaseLive(e)
          /\ worker[w].incident # None => event[e].incident = worker[w].incident
      BY <1>1 DEF HoldInv, Owns
    <2>3. RowFate(e) /\ event[e] \in EventRecords
      BY <1>t, <2>1, RowSummary
    <2>4. \/ event'[e] = event[e]
          \/ event'[e] = [event[e] EXCEPT !.reserved = TRUE]
      <3> HIDE DEF e
      <3>1. ~LeaseExpires(e)
        BY <1>1, <2>1, Outlived DEF e, Held
      <3>2. ~Purge(e) /\ event[e].status \notin {"absent", "pending"}
        BY <2>2 DEF Purge, LeaseLive
      <3>3. ASSUME NEW v \in Workers, worker[v].event = e, Claim(v) \/ Exhaust(v) PROVE FALSE
        BY <2>2, <3>3 DEF Claim, Exhaust, Claimable, Busy
      <3>4. ASSUME NEW v \in Workers, worker[v].event = e, Holds(v), worker'[v].stage \notin Holding
            PROVE  FALSE
        <4>1. v = w
          BY <1>1, <3>4 DEF HoldInv, Together, e
        <4> QED BY <1>1, <3>4, <4>1 DEF Holds
      <3> QED BY <2>3, <3>1, <3>2, <3>3, <3>4 DEF RowFate
    <2>5. /\ event'[e].status = "processing" /\ event'[e].lease = "live"
          /\ event'[e].incident = event[e].incident
      <3> DEFINE r == [event[e] EXCEPT !.reserved = TRUE]
      <3>1. /\ r.status = event[e].status /\ r.lease = event[e].lease
            /\ r.incident = event[e].incident
        BY ONLY <2>3 DEF EventRecords
      <3> HIDE DEF r, e
      <3>2. /\ event'[e].status = event[e].status /\ event'[e].lease = event[e].lease
            /\ event'[e].incident = event[e].incident
        BY <2>4, <3>1 DEF r
      <3> QED BY <2>2, <3>2 DEF LeaseLive
    <2> QED BY <2>1, <2>2, <2>5 DEF Owns, LeaseLive
  \* The row of a new holder is the one it has claimed.
  <1>2. ASSUME NEW w \in Workers, Claim(w), Holds(w)'
        PROVE  Owns(w)'
    <2> DEFINE e == worker[w].event
    <2>1. /\ worker'[w].event = e /\ e \in Events /\ worker'[w].incident = worker[w].incident
      BY <1>2, NewHolder
    <2>2. event'[e] = ClaimedRow(w, e) /\ event[e] \in EventRecords
      BY <1>2, <1>t, <2>1 DEF Claim
    <2>3. /\ event'[e].status = "processing" /\ event'[e].lease = "live"
          /\ worker[w].incident # None => event'[e].incident = worker[w].incident
      BY <2>2 DEF ClaimedRow, EventRecords
    <2> QED BY <2>1, <2>3 DEF Owns, LeaseLive
  \* Nobody is at work where a claim succeeds.
  <1>3. ASSUME NEW v \in Workers, NEW w \in Workers, Claim(w), v # w, Holds(v)', Holds(w)',
               Together(v, w)'
        PROVE  FALSE
    <2>1. Moves(w)
      <3>1. worker'[w] # worker[w]
        BY <1>3 DEF Claim, Holds, Holding
      <3> QED BY <3>1, WorkerSummary DEF Moves
    <2>2. worker'[v] = worker[v] /\ Holds(v)
      BY <1>3, <2>1 DEF Moves, Holds
    <2>3. worker'[w].event = worker[w].event /\ worker'[w].incident = worker[w].incident
          /\ worker[v].event \in Events
      BY <1>3, NewHolder
    <2>4. Together(v, w)
      BY <1>3, <2>2, <2>3 DEF Together
    <2>5. /\ LeaseLive(worker[v].event)
          /\ worker[v].incident # None => event[worker[v].event].incident = worker[v].incident
      BY <2>2 DEF HoldInv, Owns
    <2>6. ~LeaseLive(worker[w].event) /\ ~IncidentBusy(worker[w].event, worker[w].incident)
      BY <1>3 DEF Claim, Claimable, Busy
    <2>7. worker[v].event \in Events \ {worker[w].event}
      BY <2>3, <2>5, <2>6
    <2>8. worker[v].incident # None /\ worker[v].incident = worker[w].incident
      BY <2>4, <2>7 DEF Together
    <2> QED BY <2>5, <2>6, <2>7, <2>8 DEF IncidentBusy
  <1>4. ASSUME NEW v \in Workers, NEW w \in Workers, Holds(v), Holds(w), Holds(v)', Holds(w)',
               Together(v, w)'
        PROVE  v = w
    <2>1. Together(v, w)
      BY <1>4, NewHolder DEF Together
    <2> QED BY <1>4, <2>1 DEF HoldInv
  <1>5. \A v, w \in Workers : Together(v, w)' => Together(w, v)'
    BY DEF Together
  <1> SUFFICES ASSUME NEW v \in Workers, NEW w \in Workers, Holds(w)'
               PROVE  Owns(w)' /\ (Holds(v)' /\ Together(v, w)' => v = w)
    BY DEF HoldInv
  <1>6. Holds(w) \/ Claim(w)
    BY NewHolder
  <1>7. ASSUME Holds(v)', Together(v, w)' PROVE v = w
    <2>1. Holds(v) \/ Claim(v)
      BY <1>7, NewHolder
    <2> QED BY <1>3, <1>4, <1>5, <1>6, <1>7, <2>1
  <1> QED BY <1>1, <1>2, <1>6, <1>7

LEMMA AnsweredStep ==
    ASSUME Typed, OutcomeInv, HoldInv, AnsweredIsSettled, [Next]_vars, ~outlived, NEW e \in Events,
           task'[e] = "answered"
    PROVE  Settled(e)'
  <1>t. /\ task \in [Events -> {"free", "queued", "answered"}]
        /\ event \in [Events -> EventRecords]
    BY DEF Typed, TypeOK
  <1>1. ASSUME Settled(e) PROVE Settled(e)'
    BY <1>1, RowSummary, RowKeeps DEF Settled
  <1>2. ASSUME NEW w \in Workers, Answered200(worker[w].event), task'[e] # task[e]
        PROVE  worker[w].event = e
    BY <1>2, <1>t DEF Answered200
  <1>3. CASE task[e] = "answered"
    BY <1>1, <1>3 DEF AnsweredIsSettled
  <1>4. ASSUME task'[e] # task[e]
        PROVE  \E w \in Workers :
                  /\ worker[w].event = e
                  /\ AlreadySettled(w) \/ Reply(w) \/ Notice(w) \/ Complete(w)
                     \/ (Save(w) /\ ~InProcess(e))
    <2>1. ASSUME NEW f \in Events, Receive(f) PROVE FALSE
      BY <1>4, <1>t, <2>1 DEF Receive
    <2>2. ~UNCHANGED task
      BY <1>4
    <2>3. \A i \in Incidents : ~IncidentMoves(i)
      BY <2>2 DEF IncidentMoves
    <2>4. \A f \in Events : ~EventStep(f)
      BY <2>1, <2>2 DEF EventStep, LeaseExpires, Purge, Lookup
    <2>5. PICK w \in Workers : ClaimStep(w) \/ HolderStep(w)
      BY <2>2, <2>3, <2>4 DEF Next, vars
    <2>6. \/ AlreadySettled(w) \/ Reply(w) \/ Notice(w) \/ Complete(w)
          \/ (Save(w) /\ ~InProcess(worker[w].event))
      BY <2>2, <2>5 DEF ClaimStep, HolderStep, Claim, Exhaust, TurnedAway, Drop, Decide,
            Reserve, Run, Unsafe, Errs, Save, PostFixed, Release, Answered503
    <2>7. Answered200(worker[w].event)
      BY <2>2, <2>6 DEF AlreadySettled, Reply, Notice, Complete, Save
    <2>8. worker[w].event = e
      BY <1>2, <1>4, <2>7
    <2> QED BY <2>6, <2>8
  <1>5. ASSUME NEW w \in Workers, worker[w].event = e, Reply(w) \/ Notice(w) PROVE Settled(e)
    BY <1>5 DEF Reply, Notice, OutcomeInv, Settled
  <1>6. ASSUME NEW w \in Workers, worker[w].event = e, Save(w) PROVE InProcess(e)
    BY <1>6 DEF Save, HoldInv, Owns, Holds, Holding, LeaseLive, InProcess
  <1>7. ASSUME NEW w \in Workers, worker[w].event = e, Complete(w) PROVE Settled(e)'
    <2>1. InProcess(e)
      BY <1>7 DEF Complete, HoldInv, Owns, Holds, Holding, LeaseLive, InProcess
    <2>2. event'[e] = CompletedRow(e)
      BY <1>7, <1>t, <2>1 DEF Complete
    <2> QED BY <1>t, <2>2 DEF CompletedRow, EventRecords, Settled
  <1>8. ASSUME NEW w \in Workers, worker[w].event = e, AlreadySettled(w) PROVE Settled(e)
    BY <1>8 DEF AlreadySettled
  <1> QED BY <1>1, <1>3, <1>4, <1>5, <1>6, <1>7, <1>8

LEMMA LeaseStep ==
    ASSUME Typed, OutcomeInv, LeaseInv, [Next]_vars
    PROVE  LeaseInv'
  <1> SUFFICES ASSUME ~outlived' PROVE HoldInv' /\ AnsweredIsSettled'
    BY DEF LeaseInv
  <1>1. ~outlived
    BY Outlived
  <1>2. HoldInv /\ AnsweredIsSettled
    BY <1>1 DEF LeaseInv
  <1>3. HoldInv'
    BY <1>2, HoldStep
  <1>4. AnsweredIsSettled'
    BY <1>1, <1>2, AnsweredStep DEF AnsweredIsSettled
  <1> QED BY <1>3, <1>4

LEMMA AlwaysLease == Spec => [](Typed /\ OutcomeInv /\ LeaseInv)
  <1> DEFINE Inv == Typed /\ OutcomeInv /\ LeaseInv
  <1>1. Init => Inv
    <2>1. Init => LeaseInv
      BY DEF Init, Idle, LeaseInv, HoldInv, Holds, Holding, AnsweredIsSettled
    <2> QED BY <2>1, InitTyped, OutcomeInit
  <1>2. Inv /\ [Next]_vars => Inv'
    BY TypedStep, OutcomeStep, LeaseStep
  <1> QED BY <1>1, <1>2, PTL DEF Spec

\* docs/incident-agent.md: one follow-up per incident at a time, as long as no request
\* outlives its lease.
THEOREM OneFollowupAtATime == Spec => []OneFollowup
  <1>1. Typed /\ OutcomeInv /\ LeaseInv => OneFollowup
    BY DEF LeaseInv, HoldInv, Together, OneFollowup
  <1> QED BY <1>1, AlwaysLease, PTL

\* No mention is dropped by a 200, as long as no request outlives its lease.
THEOREM NoMentionDropped == Spec => []AnsweredIsSettled
  <1>1. Typed /\ OutcomeInv /\ LeaseInv => AnsweredIsSettled
    BY DEF LeaseInv, AnsweredIsSettled
  <1> QED BY <1>1, AlwaysLease, PTL

=============================================================================
