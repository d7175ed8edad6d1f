---------------------------- MODULE OutboxProofs ----------------------------
(***************************************************************************)
(* Theorems about Outbox for any number of rows, incidents, workers,       *)
(* attempts and replays.                                                   *)
(***************************************************************************)
EXTENDS Outbox, TLAPS

-----------------------------------------------------------------------------
(* Types.  A request in progress always names a row.                       *)

ActiveHasRow == \A w \in Workers : Active(w) => worker[w].row \in Rows

Typed == TypeOK /\ ActiveHasRow

\* Every value a step gives to a row has the type of a row.
LEMMA RowValues ==
    ASSUME NEW r \in Rows, row \in [Rows -> RowRecords]
    PROVE  /\ Fresh \in RowRecords
           /\ FailedRow(r) \in RowRecords
           /\ ExpiredRow(r) \in RowRecords
           /\ AfterRelease(r) \in RowRecords
           /\ AttemptsLeft(r) => ClaimedRow(r) \in RowRecords
           /\ row[r].generation < MaxReplays => ReplayedRow(r) \in RowRecords
           /\ \A w : worker[w].row = r /\ worker[w].ref \in Refs \cup {None}
                        => SentRow(w) \in RowRecords
  <1> USE DEF RowRecords
  <1>1. Fresh \in RowRecords
    BY OutboxConstants DEF Fresh, Absent
  <1>2. FailedRow(r) \in RowRecords /\ ExpiredRow(r) \in RowRecords
    BY DEF FailedRow, ExpiredRow
  <1>3. AfterRelease(r) \in RowRecords
    BY DEF AfterRelease
  <1>4. ASSUME AttemptsLeft(r) PROVE ClaimedRow(r) \in RowRecords
    <2>1. row[r] \in RowRecords
      OBVIOUS
    <2>2. row[r].attempts + 1 \in 0 .. MaxAttempts /\ row[r].token + 1 \in Nat
      BY <1>4, <2>1, OutboxConstants DEF AttemptsLeft
    <2> QED BY ONLY <2>1, <2>2 DEF ClaimedRow, RowRecords
  <1>5. ASSUME row[r].generation < MaxReplays PROVE ReplayedRow(r) \in RowRecords
    <2>1. row[r] \in RowRecords
      OBVIOUS
    <2>2. row[r].generation + 1 \in 0 .. MaxReplays /\ row[r].token + 1 \in Nat
      BY <1>5, <2>1, OutboxConstants
    <2>3. 0 \in 0 .. MaxAttempts
      BY OutboxConstants
    <2> QED BY ONLY <2>1, <2>2, <2>3 DEF ReplayedRow, RowRecords
  <1>6. ASSUME NEW w, worker[w].row = r, worker[w].ref \in Refs \cup {None}
        PROVE  SentRow(w) \in RowRecords
    <2>1. row[r] \in RowRecords
      OBVIOUS
    <2> QED BY ONLY <2>1, <1>6 DEF SentRow, RowRecords
  <1> QED BY <1>1, <1>2, <1>3, <1>4, <1>5, <1>6

\* Every value a step gives to a request has the type of a request.
LEMMA WorkerValues ==
    ASSUME NEW w \in Workers, worker \in [Workers -> WorkerRecords]
    PROVE  /\ Idle \in WorkerRecords
           /\ \A s \in Stages : At(w, s) \in WorkerRecords
           /\ \A x \in Refs \cup {None} : Answer(w, x) \in WorkerRecords
  <1> USE DEF WorkerRecords
  <1>1. Idle \in WorkerRecords
    BY OutboxConstants DEF Idle, Stages, Numbers
  <1>2. ASSUME NEW s \in Stages PROVE At(w, s) \in WorkerRecords
    BY DEF At
  <1>3. ASSUME NEW x \in Refs \cup {None} PROVE Answer(w, x) \in WorkerRecords
    BY DEF Answer, Stages
  <1> QED BY <1>1, <1>2, <1>3

\* What happens to the task of an answered delivery.
LEMMA AnsweredType ==
    ASSUME NEW r \in Rows, NEW n \in Numbers, Answered200(r, n),
           tasks \in [Rows \X Numbers -> {"free", "queued", "spent"}]
    PROVE  tasks' \in [Rows \X Numbers -> {"free", "queued", "spent"}]
  BY DEF Answered200

LEMMA TypedInit == Init => Typed
  <1> SUFFICES ASSUME Init PROVE Typed
    OBVIOUS
  <1>1. Absent \in RowRecords
    BY OutboxConstants DEF Absent, RowRecords
  <1>2. Idle \in WorkerRecords
    BY OutboxConstants DEF Idle, WorkerRecords, Stages, Numbers
  <1> QED BY <1>1, <1>2 DEF Init, Typed, TypeOK, ActiveHasRow, Active, Idle

\* The steps that end a request or move it on keep the types.
LEMMA MovedType ==
    ASSUME Typed, NEW w \in Workers, Active(w), NEW x \in WorkerRecords,
           worker' = [worker EXCEPT ![w] = x],
           x.stage = "idle" \/ x.row \in Rows
    PROVE  worker' \in [Workers -> WorkerRecords] /\ ActiveHasRow'
  BY DEF Typed, TypeOK, ActiveHasRow, Active

\* The rows, the incident and the tasks after one request ends in Mark.
LEMMA MarkType ==
    ASSUME Typed, NEW w \in Workers, Mark(w), ~Conflict(w)
    PROVE  /\ row' \in [Rows -> RowRecords]
           /\ incident' \in [Incidents -> [issue : Refs \cup {None}, slack : Refs \cup {None}]]
           /\ tasks' \in [Rows \X Numbers -> {"free", "queued", "spent"}]
  <1> DEFINE r == worker[w].row
  <1>1. r \in Rows /\ worker[w].ref \in Refs \cup {None} /\ worker[w].number \in Numbers
    BY DEF Typed, TypeOK, ActiveHasRow, Active, Mark, WorkerRecords
  <1>2. row' \in [Rows -> RowRecords]
    <2>1. SentRow(w) \in RowRecords /\ Fresh \in RowRecords
      BY <1>1, RowValues DEF Typed, TypeOK
    <2>2. row' = [Insert(Followers(r)) EXCEPT ![r] = SentRow(w)]
      BY DEF Mark
    <2> QED BY <2>1, <2>2 DEF Insert, Typed, TypeOK
  <1>3. incident' \in [Incidents -> [issue : Refs \cup {None}, slack : Refs \cup {None}]]
    <2>1. incident' = Referenced(r, worker[w].ref)
      BY DEF Mark
    <2> QED BY <1>1, <2>1, ZenonT(60) DEF Referenced, Typed, TypeOK
  <1>4. tasks' \in [Rows \X Numbers -> {"free", "queued", "spent"}]
    BY <1>1, AnsweredType DEF Mark, Typed, TypeOK
  <1> QED BY <1>2, <1>3, <1>4

\* RefOf always answers with a reference.
LEMMA RefOfType ==
    ASSUME Typed, NEW w \in Workers, MayCall(w)
    PROVE  /\ worker[w].row \in Rows
           /\ Effect(worker[w].row) \in Nat
           /\ RefOf(w, worker[w].row) \in Refs \cup {None}
  <1> DEFINE r == worker[w].row
  <1>1. r \in Rows /\ worker[w].issue \in Refs \cup {None}
    BY DEF MayCall, Typed, TypeOK, ActiveHasRow, Active, WorkerRecords
  <1>2. Effect(r) \in Nat
    BY <1>1 DEF Effect, Typed, TypeOK
  <1>3. <<r, Effect(r)>> \in Refs
    BY <1>1, <1>2 DEF Refs
  <1>4. Kind[r] = "slack_update" => row[Dep[r]].ref \in Refs \cup {None}
    <2>1. Kind[r] = "slack_update" => Dep[r] \in Rows
      BY <1>1, OutboxConstants
    <2> QED BY <2>1 DEF Typed, TypeOK, RowRecords
  <1> QED BY <1>1, <1>2, <1>3, <1>4 DEF RefOf

\* A request that moves on keeps its row.
LEMMA AtType ==
    ASSUME Typed, NEW w \in Workers, Active(w), NEW s \in Stages
    PROVE  At(w, s) \in WorkerRecords /\ At(w, s).row \in Rows
  <1>1. At(w, s) \in WorkerRecords
    BY WorkerValues DEF Typed, TypeOK
  <1>2. worker[w] \in WorkerRecords /\ worker[w].row \in Rows
    BY DEF Typed, TypeOK, ActiveHasRow
  <1>3. At(w, s).row = worker[w].row
    BY ONLY <1>2 DEF At, WorkerRecords
  <1> QED BY <1>1, <1>2, <1>3

LEMMA TypedNext == Typed /\ [Next]_vars => Typed'
  <1> SUFFICES ASSUME Typed, [Next]_vars PROVE Typed'
    OBVIOUS
  <1> USE DEF Typed, TypeOK
  <1>1. ASSUME NEW r \in Rows, Record(r) PROVE Typed'
    <2>1. Fresh \in RowRecords
      BY RowValues
    <2> QED BY <1>1, <2>1 DEF Record, Insert, ActiveHasRow, Active
  <1>2. ASSUME NEW r \in Rows, Dispatch(r) PROVE Typed'
    BY <1>2 DEF Dispatch, ActiveHasRow, Active
  <1>3. ASSUME NEW r \in Rows, LeaseExpires(r) PROVE Typed'
    BY <1>3, RowValues DEF LeaseExpires, ActiveHasRow, Active
  <1>4. ASSUME NEW r \in Rows, Replay(r) PROVE Typed'
    BY <1>4, RowValues DEF Replay, ActiveHasRow, Active
  <1>5. ASSUME NEW r \in Rows, NEW n \in Numbers, RetriesEnd(r, n) PROVE Typed'
    BY <1>5 DEF RetriesEnd, ActiveHasRow, Active
  <1>6. ASSUME NEW r \in Rows, NEW n \in Numbers, NameFreed(r, n) PROVE Typed'
    BY <1>6 DEF NameFreed, ActiveHasRow, Active
  <1>7. ASSUME NEW r \in Rows, NEW n \in Numbers, Exhaust(r, n) PROVE Typed'
    BY <1>7, RowValues, AnsweredType DEF Exhaust, ActiveHasRow, Active
  <1>8. ASSUME NEW r \in Rows, NEW n \in Numbers, AlreadySettled(r, n) PROVE Typed'
    BY <1>8 DEF AlreadySettled, ActiveHasRow, Active
  <1>9. ASSUME NEW r \in Rows, NEW n \in Numbers, NEW w \in Workers, Claim(w, r, n)
        PROVE Typed'
    <2>1. ClaimedRow(r) \in RowRecords
      BY <1>9, RowValues DEF Claim
    <2>2. Holder(r, n) \in WorkerRecords
      <3>1. incident[Owner[r]].issue \in Refs \cup {None} /\ ClaimedRow(r).token \in Nat
        BY <2>1, OutboxConstants DEF RowRecords
      <3> QED BY <3>1 DEF Holder, WorkerRecords, Stages
    <2>3. Holder(r, n).row \in Rows
      BY DEF Holder
    <2> QED BY <1>9, <2>1, <2>2, <2>3 DEF Claim, ActiveHasRow, Active
  <1>10. ASSUME NEW w \in Workers, Lookup(w) PROVE Typed'
    <2> DEFINE r == worker[w].row
    <2>1. Active(w) /\ r \in Rows
      BY <1>10 DEF Lookup, Active, ActiveHasRow
    <2>2. <<r, world[r]>> \in Refs
      BY <2>1 DEF Refs
    <2>3. At(w, "posting") \in WorkerRecords /\ Answer(w, <<r, world[r]>>) \in WorkerRecords
      BY <2>2, WorkerValues DEF Stages
    <2>4. At(w, "posting").row = r /\ Answer(w, <<r, world[r]>>).row = r
      BY DEF At, Answer, WorkerRecords
    <2> QED BY <1>10, <2>1, <2>3, <2>4, MovedType DEF Lookup
  <1>11. ASSUME NEW w \in Workers, Call(w) PROVE Typed'
    <2> DEFINE r == worker[w].row
    <2>1. Active(w) /\ r \in Rows /\ Effect(r) \in Nat /\ RefOf(w, r) \in Refs \cup {None}
      BY <1>11, RefOfType DEF Call, MayCall, Active
    <2>2. At(w, "errored") \in WorkerRecords /\ Answer(w, RefOf(w, r)) \in WorkerRecords
      BY <2>1, WorkerValues DEF Stages
    <2>3. At(w, "errored").row = r /\ Answer(w, RefOf(w, r)).row = r
      BY DEF At, Answer, WorkerRecords
    <2> QED BY <1>11, <2>1, <2>2, <2>3, MovedType DEF Call
  <1>12. ASSUME NEW w \in Workers, Refused(w) PROVE Typed'
    <2>1. Active(w) /\ "rejected" \in Stages
      BY <1>12 DEF Refused, Calling, Active, Stages
    <2> QED BY <1>12, <2>1, AtType, MovedType DEF Refused
  <1>13. ASSUME NEW w \in Workers, Errs(w) PROVE Typed'
    <2>1. Active(w) /\ "errored" \in Stages
      BY <1>13 DEF Errs, Calling, Active, Stages
    <2> QED BY <1>13, <2>1, AtType, MovedType DEF Errs
  <1>14. ASSUME NEW w \in Workers, Mark(w) PROVE Typed'
    <2>1. Active(w) /\ "rejected" \in Stages
      BY <1>14 DEF Mark, Active, Stages
    <2>2. CASE Conflict(w)
      BY <1>14, <2>1, <2>2, AtType, MovedType DEF Mark
    <2>3. CASE ~Conflict(w)
      <3>1. Idle \in WorkerRecords /\ Idle.stage = "idle"
        BY WorkerValues DEF Idle
      <3> QED BY <1>14, <2>1, <2>3, <3>1, MarkType, MovedType DEF Mark
    <2> QED BY <2>2, <2>3
  <1>e. ASSUME NEW w \in Workers, Active(w), worker' = [worker EXCEPT ![w] = Idle]
        PROVE  worker' \in [Workers -> WorkerRecords] /\ ActiveHasRow'
    <2>1. Idle \in WorkerRecords /\ Idle.stage = "idle"
      BY WorkerValues DEF Idle
    <2> QED BY <1>e, <2>1, MovedType
  <1>15. ASSUME NEW w \in Workers, MarkStale(w) PROVE Typed'
    <2>1. Active(w) /\ worker[w].row \in Rows /\ worker[w].number \in Numbers
      BY <1>15 DEF MarkStale, Active, ActiveHasRow, WorkerRecords
    <2> QED BY <1>15, <2>1, <1>e, AnsweredType DEF MarkStale
  <1>16. ASSUME NEW w \in Workers, Release(w) PROVE Typed'
    <2>1. Active(w) /\ worker[w].row \in Rows
      BY <1>16 DEF Release, Active, ActiveHasRow
    <2> QED BY <1>16, <2>1, <1>e, RowValues DEF Release
  <1>17. ASSUME NEW w \in Workers, FailSafety(w) PROVE Typed'
    <2>1. Active(w) /\ worker[w].row \in Rows /\ worker[w].number \in Numbers
      BY <1>17 DEF FailSafety, Active, ActiveHasRow, WorkerRecords
    <2> QED BY <1>17, <2>1, <1>e, RowValues, AnsweredType DEF FailSafety
  <1>18. ASSUME NEW w \in Workers, Crash(w) PROVE Typed'
    BY <1>18, <1>e DEF Crash
  <1>19. CASE UNCHANGED vars
    BY <1>19 DEF vars, ActiveHasRow, Active
  <1> QED
    BY <1>1, <1>2, <1>3, <1>4, <1>5, <1>6, <1>7, <1>8, <1>9, <1>10, <1>11, <1>12,
       <1>13, <1>14, <1>15, <1>16, <1>17, <1>18, <1>19
       DEF Next, RowStep, TaskStep, WorkerStep

\* Every reachable state has the types of TypeOK, whatever the instance: the
\* attempts never leave the range the attempt_count CHECK allows.
THEOREM TypeCorrect == Spec => []TypeOK
  <1>1. Typed => TypeOK
    BY DEF Typed
  <1> QED BY <1>1, TypedInit, TypedNext, PTL DEF Spec
-----------------------------------------------------------------------------
(***************************************************************************)
(* The safety properties of Outbox, for any instance.  The proofs go       *)
(* through four summaries of a step, one per variable: what may become of  *)
(* a row, a request, an outside effect and a task.  Each summary is proved *)
(* once, action by action; the invariants follow from the summaries.       *)
(***************************************************************************)

\* What one step may do to a row.
RowFate(x) ==
    \/ row'[x] = row[x]
    \/ row[x].status = "absent" /\ row'[x] = Fresh
    \/ Claimable(x) /\ row'[x] \in {ClaimedRow(x), FailedRow(x)}
    \/ \E w \in Workers :
          /\ Active(w) /\ worker[w].row = x /\ Holds(w)
          /\ worker'[w] = Idle
          /\ \/ worker[w].stage = "called" /\ row'[x] = SentRow(w)
             \/ row'[x] \in {AfterRelease(x), FailedRow(x)}
    \/ LeaseLive(x) /\ (Overrun \/ ~InProgress(x)) /\ row'[x] = ExpiredRow(x)
    \/ row[x].status = "failed" /\ row'[x] = ReplayedRow(x)

\* A request that goes on working on its row.
GoesOn(w) ==
    /\ Active(w)
    /\ worker'[w].row = worker[w].row /\ worker'[w].token = worker[w].token
    /\ worker'[w].stage = "posting" =>
          Kind[worker[w].row] \in ByMarker /\ world[worker[w].row] = 0 /\ world' = world
    /\ worker'[w].stage = "called" =>
          world'[worker[w].row] > 0 /\ worker'[w].ref # None

\* What one step may do to a request.
WorkerFate(w) ==
    \/ worker'[w] = worker[w]
    \/ worker'[w] = Idle
    \/ \E r \in Rows, n \in Numbers : Claim(w, r, n)
    \/ GoesOn(w)

\* What one step may do to the effect of a row.
WorldFate(x) ==
    \/ world'[x] = world[x]
    \/ \E w \in Workers : /\ MayCall(w) /\ worker[w].row = x
                          /\ world'[x] = Effect(x)
                          /\ worker'[w].stage \in {"called", "errored"}

\* What one step may do to the tasks of a row.
TaskFate(x) == \A n \in Numbers :
    tasks'[<<x, n>>] = "queued" => tasks[<<x, n>>] = "queued" \/ DepSent(x)

LEMMA RowSummary ==
    ASSUME Typed, [Next]_vars PROVE \A x \in Rows : RowFate(x)
  <1> SUFFICES ASSUME NEW x \in Rows PROVE RowFate(x)
    OBVIOUS
  <1> USE DEF Typed, TypeOK
  <1>1. ASSUME NEW r \in Rows, Record(r) PROVE RowFate(x)
    BY <1>1 DEF Record, Insert, Recorded, RowFate
  <1>2. ASSUME NEW r \in Rows, NEW n \in Numbers, NEW w \in Workers, Claim(w, r, n)
        PROVE RowFate(x)
    BY <1>2 DEF Claim, RowFate
  <1>3. ASSUME NEW r \in Rows, NEW n \in Numbers, Exhaust(r, n) PROVE RowFate(x)
    BY <1>3 DEF Exhaust, RowFate
  <1>4. ASSUME NEW r \in Rows, LeaseExpires(r) PROVE RowFate(x)
    BY <1>4 DEF LeaseExpires, RowFate
  <1>5. ASSUME NEW r \in Rows, Replay(r) PROVE RowFate(x)
    BY <1>5 DEF Replay, Replayable, RowFate
  <1>6. ASSUME NEW w \in Workers, Mark(w) PROVE RowFate(x)
    <2>1. Active(w)
      BY <1>6 DEF Mark, Active
    <2>2. CASE Conflict(w)
      BY <1>6, <2>2 DEF Mark, RowFate
    <2>3. CASE ~Conflict(w) /\ x = worker[w].row
      <3>1. row'[x] = SentRow(w) /\ worker'[w] = Idle
        BY <1>6, <2>3 DEF Mark, Insert
      <3> QED BY <1>6, <2>1, <2>3, <3>1 DEF Mark, RowFate
    <2>4. CASE ~Conflict(w) /\ x # worker[w].row
      <3>1. row'[x] = Insert(Followers(worker[w].row))[x]
        BY <1>6, <2>4 DEF Mark, Insert
      <3> QED BY <3>1 DEF Insert, Followers, Recorded, RowFate
    <2> QED BY <2>2, <2>3, <2>4
  <1>7. ASSUME NEW w \in Workers, Release(w) PROVE RowFate(x)
    BY <1>7 DEF Release, Active, RowFate
  <1>8. ASSUME NEW w \in Workers, FailSafety(w) PROVE RowFate(x)
    BY <1>8 DEF FailSafety, Active, RowFate
  <1>9. CASE UNCHANGED row
    BY <1>9 DEF RowFate
  <1> QED
    BY <1>1, <1>2, <1>3, <1>4, <1>5, <1>6, <1>7, <1>8, <1>9
       DEF Next, RowStep, TaskStep, WorkerStep, vars, Dispatch, RetriesEnd, NameFreed,
           AlreadySettled, Lookup, Call, Refused, Errs, MarkStale, Crash

\* The fields a move of a request changes, and those it keeps.
LEMMA WorkerFields ==
    ASSUME Typed, NEW w \in Workers
    PROVE  /\ \A s : /\ At(w, s).stage = s
                     /\ At(w, s).row = worker[w].row /\ At(w, s).token = worker[w].token
           /\ \A x : /\ Answer(w, x).stage = "called" /\ Answer(w, x).ref = x
                     /\ Answer(w, x).row = worker[w].row /\ Answer(w, x).token = worker[w].token
  <1>1. worker[w] \in WorkerRecords
    BY DEF Typed, TypeOK
  <1> QED BY ONLY <1>1 DEF At, Answer, WorkerRecords

LEMMA WorldSummary ==
    ASSUME Typed, [Next]_vars PROVE \A x \in Rows : WorldFate(x)
  <1> SUFFICES ASSUME NEW x \in Rows PROVE WorldFate(x)
    OBVIOUS
  <1> USE DEF Typed, TypeOK
  <1>1. ASSUME NEW w \in Workers, Call(w) PROVE WorldFate(x)
    <2>1. worker'[w].stage \in {"called", "errored"}
      BY <1>1, WorkerFields DEF Call
    <2> QED BY <1>1, <2>1 DEF Call, WorldFate
  <1>2. CASE UNCHANGED world
    BY <1>2 DEF WorldFate
  <1> QED
    BY <1>1, <1>2
       DEF Next, RowStep, TaskStep, WorkerStep, vars, Record, Dispatch, LeaseExpires, Replay,
           RetriesEnd, NameFreed, Exhaust, AlreadySettled, Claim, Lookup, Refused, Errs,
           Mark, MarkStale, Release, FailSafety, Crash

LEMMA TaskSummary ==
    ASSUME Typed, [Next]_vars PROVE \A x \in Rows : TaskFate(x)
  <1> SUFFICES ASSUME NEW x \in Rows PROVE TaskFate(x)
    OBVIOUS
  <1> USE DEF Typed, TypeOK
  <1>1. ASSUME NEW r \in Rows, Dispatch(r) PROVE TaskFate(x)
    BY <1>1 DEF Dispatch, Dispatchable, TaskFate
  <1>2. ASSUME NEW r \in Rows, NEW n \in Numbers, RetriesEnd(r, n) \/ AlreadySettled(r, n)
        PROVE  TaskFate(x)
    BY <1>2 DEF RetriesEnd, AlreadySettled, TaskFate
  <1>3. ASSUME NEW r \in Rows, NEW n \in Numbers, NameFreed(r, n) PROVE TaskFate(x)
    BY <1>3 DEF NameFreed, TaskFate
  <1>4. ASSUME NEW r, NEW n, Answered200(r, n) PROVE TaskFate(x)
    BY <1>4 DEF Answered200, TaskFate
  <1>5. ASSUME UNCHANGED tasks PROVE TaskFate(x)
    BY <1>5 DEF TaskFate
  <1> QED
    BY <1>1, <1>2, <1>3, <1>4, <1>5
       DEF Next, RowStep, TaskStep, WorkerStep, vars, Record, LeaseExpires, Replay,
           Exhaust, Claim, Lookup, Call, Refused, Errs, Mark, MarkStale, Release,
           FailSafety, Crash

\* Only what is found or posted by its marker is ever about to be posted.
PostingIsMarked ==
    \A w \in Workers : worker[w].stage = "posting" => Kind[worker[w].row] \in ByMarker

LEMMA EffectExists ==
    ASSUME Typed, NEW w \in Workers, MayCall(w) PROVE Effect(worker[w].row) > 0
  <1>1. worker[w].row \in Rows /\ world[worker[w].row] \in Nat
    BY RefOfType DEF Typed, TypeOK
  <1> QED BY <1>1 DEF Effect

\* A reference a call answers with exists.
LEMMA RefExists ==
    ASSUME Typed, PostingIsMarked, NEW w \in Workers, MayCall(w)
    PROVE  RefOf(w, worker[w].row) # None
  <1> DEFINE r == worker[w].row
  <1>1. r \in Rows /\ world[r] \in Nat
    BY RefOfType DEF Typed, TypeOK
  <1>2. <<r, Effect(r)>> # None
    BY <1>1, OutboxConstants DEF Effect, Refs
  <1>3. Kind[r] = "github_close" => worker[w].issue # None
    BY DEF MayCall, PostingIsMarked, ByMarker
  <1>4. Kind[r] = "slack_update" => row[Dep[r]].ref # None
    BY DEF MayCall, PostingIsMarked, ByMarker
  <1> QED BY <1>2, <1>3, <1>4 DEF RefOf

LEMMA WorkerSummary ==
    ASSUME Typed, PostingIsMarked, [Next]_vars PROVE \A w \in Workers : WorkerFate(w)
  <1> SUFFICES ASSUME NEW v \in Workers PROVE WorkerFate(v)
    OBVIOUS
  <1> USE DEF Typed, TypeOK
  <1>0. ASSUME NEW w \in Workers, NEW s \in {"errored", "rejected"}, Active(w),
               worker' = [worker EXCEPT ![w] = At(w, s)]
        PROVE  WorkerFate(v)
    BY <1>0, WorkerFields DEF WorkerFate, GoesOn
  <1>1. ASSUME NEW r \in Rows, NEW n \in Numbers, NEW w \in Workers, Claim(w, r, n)
        PROVE WorkerFate(v)
    <2>1. CASE v = w
      BY <1>1, <2>1 DEF WorkerFate
    <2>2. CASE v # w
      BY <1>1, <2>2 DEF Claim, WorkerFate
    <2> QED BY <2>1, <2>2
  <1>2. ASSUME NEW w \in Workers, Lookup(w) PROVE WorkerFate(v)
    <2> DEFINE r == worker[w].row
    <2>1. Active(w) /\ r \in Rows /\ Kind[r] \in ByMarker /\ world' = world
      BY <1>2 DEF Lookup, Active, ActiveHasRow
    <2>2. CASE Found(r)
      <3>1. world[r] > 0 /\ <<r, world[r]>> # None
        BY <2>1, <2>2, OutboxConstants DEF Found, Refs
      <3>2. worker' = [worker EXCEPT ![w] = Answer(w, <<r, world[r]>>)]
        BY <1>2, <2>2 DEF Lookup
      <3> QED BY <2>1, <3>1, <3>2, WorkerFields DEF WorkerFate, GoesOn
    <2>3. CASE ~Found(r)
      <3>1. world[r] = 0
        BY <2>1, <2>3 DEF Found
      <3>2. worker' = [worker EXCEPT ![w] = At(w, "posting")]
        BY <1>2, <2>3 DEF Lookup
      <3> QED BY <2>1, <3>1, <3>2, WorkerFields DEF WorkerFate, GoesOn
    <2> QED BY <2>2, <2>3
  <1>3. ASSUME NEW w \in Workers, Call(w) PROVE WorkerFate(v)
    <2> DEFINE r == worker[w].row
    <2>1. MayCall(w) /\ Active(w) /\ r \in Rows
      BY <1>3, RefOfType DEF Call, MayCall, Active
    <2>2. world'[r] > 0 /\ RefOf(w, r) # None
      BY <1>3, <2>1, EffectExists, RefExists DEF Call
    <2>3. CASE worker' = [worker EXCEPT ![w] = Answer(w, RefOf(w, r))]
      BY <2>1, <2>2, <2>3, WorkerFields DEF WorkerFate, GoesOn
    <2>4. CASE worker' = [worker EXCEPT ![w] = At(w, "errored")]
      BY <2>1, <2>4, <1>0
    <2> QED BY <1>3, <2>3, <2>4 DEF Call
  <1>4. ASSUME NEW w \in Workers, Refused(w) \/ Errs(w) PROVE WorkerFate(v)
    BY <1>4, <1>0 DEF Refused, Errs, Calling, Active
  <1>5. ASSUME NEW w \in Workers, worker' = [worker EXCEPT ![w] = Idle]
        PROVE  WorkerFate(v)
    BY <1>5 DEF WorkerFate
  <1>6. ASSUME NEW w \in Workers, Mark(w) PROVE WorkerFate(v)
    BY <1>0, <1>5, <1>6 DEF Mark, Active
  <1>7. CASE UNCHANGED worker
    BY <1>7 DEF WorkerFate
  <1> QED
    BY <1>1, <1>2, <1>3, <1>4, <1>5, <1>6, <1>7
       DEF Next, RowStep, TaskStep, WorkerStep, vars, Record, Dispatch, LeaseExpires, Replay,
           RetriesEnd, NameFreed, Exhaust, AlreadySettled, MarkStale, Release, FailSafety,
           Crash

-----------------------------------------------------------------------------
(* Sent is final.                                                          *)

LEMMA SentStays ==
    ASSUME Typed, [Next]_vars, NEW x \in Rows, row[x].status = "sent"
    PROVE  row'[x] = row[x]
  BY RowSummary DEF RowFate, Claimable, Holds, LeaseLive

\* No late worker, expired lease or replay changes a row that was sent: the
\* updates of app/outbox.py all require another status.
THEOREM SentForever == Spec => SentIsFinal
  <1>1. Typed /\ [Next]_vars => [\A r \in Rows : row[r].status = "sent" => row'[r] = row[r]]_vars
    BY SentStays
  <1> QED BY <1>1, TypedInit, TypedNext, PTL DEF Spec, SentIsFinal

-----------------------------------------------------------------------------
(* Dependencies.                                                           *)

\* Whatever has been claimed, queued, performed or settled had its dependency
\* sent; what is called sent or called has been performed.
Ordered ==
    /\ PostingIsMarked
    /\ \A r \in Rows : row[r].status \in {"sending", "sent", "failed"} => DepSent(r)
    /\ \A w \in Workers : Active(w) => DepSent(worker[w].row)
    /\ \A r \in Rows : world[r] > 0 => DepSent(r)
    /\ NeverBlocked
    /\ \A r \in Rows : row[r].status = "sent" => world[r] > 0 /\ row[r].ref # None
    /\ \A w \in Workers : worker[w].stage = "called" =>
          world[worker[w].row] > 0 /\ worker[w].ref # None

LEMMA DepStays ==
    ASSUME Typed, [Next]_vars, NEW x \in Rows, DepSent(x) PROVE DepSent(x)'
  <1>1. Dep[x] # None => Dep[x] \in Rows
    BY OutboxConstants
  <1> QED BY <1>1, SentStays DEF DepSent

LEMMA WorldStays ==
    ASSUME Typed, [Next]_vars, NEW x \in Rows, world[x] > 0 PROVE world'[x] > 0
  BY WorldSummary, EffectExists DEF WorldFate

LEMMA OrderedInit == Init => Ordered
  BY DEF Init, Ordered, PostingIsMarked, Absent, Idle, Active, NeverBlocked

LEMMA OrderedNext == Typed /\ Typed' /\ Ordered /\ [Next]_vars => Ordered'
  <1> SUFFICES ASSUME Typed, Typed', Ordered, [Next]_vars PROVE Ordered'
    OBVIOUS
  <1>0. /\ \A x \in Rows : RowFate(x) /\ WorldFate(x) /\ TaskFate(x)
        /\ \A w \in Workers : WorkerFate(w)
    BY RowSummary, WorldSummary, TaskSummary, WorkerSummary DEF Ordered
  <1>h. \A w \in Workers : Active(w) => worker[w].row \in Rows
    BY DEF Typed, ActiveHasRow
  <1>1. ASSUME NEW x \in Rows, row'[x].status \in {"sending", "sent", "failed"}
        PROVE  DepSent(x)'
    <2>1. DepSent(x)
      <3>1. row[x] \in RowRecords
        BY DEF Typed, TypeOK
      <3>2. CASE row[x].status \in {"sending", "sent", "failed"}
        BY <3>2 DEF Ordered
      <3>3. CASE Claimable(x)
        BY <3>3 DEF Claimable
      <3>4. CASE row[x].status = "absent" /\ row'[x] = Fresh
        BY <1>1, <3>4 DEF Fresh, Absent
      <3>5. CASE row'[x] = row[x]
        BY <1>1, <3>5 DEF Ordered
      <3> QED BY <1>0, <3>2, <3>3, <3>4, <3>5 DEF RowFate, Holds, LeaseLive
    <2> QED BY <2>1, DepStays
  <1>2. ASSUME NEW w \in Workers, Active(w)' PROVE DepSent(worker[w].row)'
    <2>1. CASE worker'[w] = worker[w] \/ GoesOn(w)
      <3>1. Active(w) /\ worker'[w].row = worker[w].row /\ worker[w].row \in Rows
        BY <1>2, <1>h, <2>1 DEF GoesOn, Active
      <3>2. DepSent(worker[w].row)
        BY <3>1 DEF Ordered
      <3> QED BY <3>1, <3>2, DepStays DEF DepSent
    <2>2. ASSUME NEW r \in Rows, NEW n \in Numbers, Claim(w, r, n)
          PROVE  DepSent(worker[w].row)'
      <3>1. worker'[w].row = r /\ DepSent(r)
        BY <2>2 DEF Claim, Claimable, Holder, Typed, TypeOK
      <3> QED BY <3>1, DepStays DEF DepSent
    <2>3. worker'[w] # Idle
      BY <1>2 DEF Active, Idle
    <2> QED BY <1>0, <2>1, <2>2, <2>3 DEF WorkerFate
  <1>3. ASSUME NEW x \in Rows, world'[x] > 0 PROVE DepSent(x)'
    <2>1. DepSent(x)
      BY <1>0, <1>3 DEF Ordered, WorldFate, MayCall, Active
    <2> QED BY <2>1, DepStays
  <1>4. NeverBlocked'
    <2> SUFFICES ASSUME NEW x \in Rows, NEW n \in Numbers, tasks'[<<x, n>>] = "queued"
                 PROVE  DepSent(x)'
      BY DEF NeverBlocked
    <2>1. DepSent(x)
      BY <1>0 DEF Ordered, NeverBlocked, TaskFate
    <2> QED BY <2>1, DepStays
  <1>5. ASSUME NEW x \in Rows, row'[x].status = "sent"
        PROVE  world'[x] > 0 /\ row'[x].ref # None
    <2>1. row[x] \in RowRecords
      BY DEF Typed, TypeOK
    <2>2. CASE row[x].status = "sent"
      BY <2>2, SentStays, WorldStays DEF Ordered
    <2>3. CASE row[x].status # "sent"
      <3>1. PICK w \in Workers : /\ worker[w].row = x /\ worker[w].stage = "called"
                                 /\ row'[x] = SentRow(w)
        <4>1. row'[x] \notin {row[x], Fresh, ClaimedRow(x), FailedRow(x), AfterRelease(x),
                              ExpiredRow(x), ReplayedRow(x)}
          BY <1>5, <2>1, <2>3 DEF Fresh, Absent, ClaimedRow, FailedRow, AfterRelease,
                                  ExpiredRow, ReplayedRow, RowRecords
        <4> QED BY <1>0, <4>1 DEF RowFate
      <3>2. world[x] > 0 /\ worker[w].ref # None
        BY <3>1 DEF Ordered
      <3>3. row'[x].ref = worker[w].ref
        BY <2>1, <3>1 DEF SentRow, RowRecords
      <3> QED BY <3>2, <3>3, WorldStays
    <2> QED BY <2>2, <2>3
  <1>6. ASSUME NEW w \in Workers, worker'[w].stage = "called"
        PROVE  world'[worker'[w].row] > 0 /\ worker'[w].ref # None
    <2>1. CASE worker'[w] = worker[w]
      BY <1>6, <1>h, <2>1, WorldStays DEF Ordered, Active
    <2>2. CASE GoesOn(w)
      BY <1>6, <2>2 DEF GoesOn
    <2>3. ASSUME NEW r \in Rows, NEW n \in Numbers, Claim(w, r, n) PROVE FALSE
      BY <1>6, <2>3 DEF Claim, Holder, Typed, TypeOK
    <2>4. worker'[w] # Idle
      BY <1>6 DEF Idle
    <2> QED BY <1>0, <2>1, <2>2, <2>3, <2>4 DEF WorkerFate
  <1>7. ASSUME NEW w \in Workers, worker'[w].stage = "posting"
        PROVE  Kind[worker'[w].row] \in ByMarker
    <2>1. ASSUME NEW r \in Rows, NEW n \in Numbers, Claim(w, r, n) PROVE FALSE
      BY <1>7, <2>1 DEF Claim, Holder, Typed, TypeOK
    <2>2. worker'[w] # Idle
      BY <1>7 DEF Idle
    <2> QED BY <1>0, <1>7, <2>1, <2>2 DEF WorkerFate, GoesOn, Ordered, PostingIsMarked
  <1> QED BY <1>1, <1>2, <1>3, <1>4, <1>5, <1>6, <1>7 DEF Ordered, PostingIsMarked

\* depends_on orders the effects in Slack and GitHub, not only the rows.
THEOREM EffectsInOrder == Spec => []DependencyOrder
  <1>1. Typed /\ Ordered => DependencyOrder
    BY OutboxConstants DEF Ordered, DependencyOrder, DepSent
  <1> QED BY <1>1, TypedInit, TypedNext, OrderedInit, OrderedNext, PTL DEF Spec

\* A Cloud Task is only ever queued for a row that may be claimed as far as
\* its dependency goes.
THEOREM NoBlockedTask == Spec => []NeverBlocked
  <1>1. Ordered => NeverBlocked
    BY DEF Ordered
  <1> QED BY <1>1, TypedInit, TypedNext, OrderedInit, OrderedNext, PTL DEF Spec

-----------------------------------------------------------------------------
(* At most one effect.  As long as no request outlives its lease, a request *)
(* in progress holds its row under a live lease, and holds it alone.       *)

Held == \A w \in Workers : Active(w) =>
    LeaseLive(worker[w].row) /\ row[worker[w].row].token = worker[w].token

Alone == \A v, w \in Workers :
    Active(v) /\ Active(w) /\ worker[v].row = worker[w].row => v = w

\* What is about to be posted by its marker does not exist yet.
PostingIsNew == \A w \in Workers : worker[w].stage = "posting" =>
    Kind[worker[w].row] \in ByMarker /\ world[worker[w].row] = 0

Exclusive == Held /\ Alone /\ PostingIsNew /\ AtMostOnce

LEMMA ExclusiveInit == Init => Exclusive
  BY DEF Init, Exclusive, Held, Alone, PostingIsNew, AtMostOnce, Idle, Active

\* A row in progress keeps its holder until the holder ends its request.
LEMMA HolderStays ==
    ASSUME Typed, Held, Alone, ~Overrun, [Next]_vars,
           NEW w \in Workers, Active(w), worker'[w] # Idle
    PROVE  row'[worker[w].row] = row[worker[w].row]
  <1> DEFINE x == worker[w].row
  <1>1. x \in Rows /\ RowFate(x)
    BY RowSummary DEF Typed, ActiveHasRow
  <1>2. LeaseLive(x) /\ row[x].token = worker[w].token
    BY DEF Held
  <1>3. InProgress(x)
    BY <1>2 DEF InProgress
  <1>4. ~Claimable(x)
    BY <1>2 DEF Claimable, Busy
  <1>5. ASSUME NEW v \in Workers, Active(v), worker[v].row = x PROVE v = w
    BY <1>5 DEF Alone
  <1> QED BY <1>1, <1>2, <1>3, <1>4, <1>5 DEF RowFate, LeaseLive

\* A request in progress after a step was in progress on the same row before
\* it, or has just claimed a row nobody held.
LEMMA ActiveBefore ==
    ASSUME Typed, PostingIsMarked, [Next]_vars, NEW w \in Workers, Active(w)'
    PROVE  \/ /\ Active(w) /\ worker'[w] # Idle
              /\ worker'[w].row = worker[w].row /\ worker'[w].token = worker[w].token
           \/ \E r \in Rows, n \in Numbers : Claim(w, r, n)
  BY WorkerSummary DEF WorkerFate, GoesOn, Active, Idle

LEMMA HeldNext ==
    ASSUME Typed, PostingIsMarked, Held, Alone, ~Overrun, [Next]_vars
    PROVE  Held'
  <1> SUFFICES ASSUME NEW w \in Workers, Active(w)'
               PROVE  (LeaseLive(worker[w].row) /\ row[worker[w].row].token = worker[w].token)'
    BY DEF Held
  <1>1. CASE /\ Active(w) /\ worker'[w] # Idle
             /\ worker'[w].row = worker[w].row /\ worker'[w].token = worker[w].token
    BY <1>1, HolderStays DEF Held, LeaseLive
  <1>2. ASSUME NEW r \in Rows, NEW n \in Numbers, Claim(w, r, n)
        PROVE  (LeaseLive(worker[w].row) /\ row[worker[w].row].token = worker[w].token)'
    <2>1. worker'[w].row = r /\ worker'[w].token = ClaimedRow(r).token
      BY <1>2 DEF Claim, Holder, Typed, TypeOK
    <2>2. row'[r] = ClaimedRow(r)
      BY <1>2 DEF Claim, Typed, TypeOK
    <2>3. ClaimedRow(r).status = "sending" /\ ClaimedRow(r).lease = "live"
      <3>1. row[r] \in RowRecords
        BY DEF Typed, TypeOK
      <3> QED BY ONLY <3>1 DEF ClaimedRow, RowRecords
    <2> QED BY <2>1, <2>2, <2>3 DEF LeaseLive
  <1> QED BY <1>1, <1>2, ActiveBefore

LEMMA AloneNext ==
    ASSUME Typed, PostingIsMarked, Held, Alone, [Next]_vars
    PROVE  Alone'
  <1>1. ASSUME NEW v \in Workers, NEW w \in Workers, v # w, Active(v)', Active(w)',
               NEW r \in Rows, NEW n \in Numbers, Claim(w, r, n)
        PROVE  worker'[v].row # worker'[w].row
    <2>1. worker'[v] = worker[v] /\ worker'[w].row = r
      BY <1>1 DEF Claim, Holder, Typed, TypeOK
    <2>2. Active(v) /\ ~LeaseLive(r)
      BY <1>1, <2>1 DEF Active, Claim, Claimable, Busy
    <2> QED BY <2>1, <2>2 DEF Held
  <1>2. ASSUME NEW v \in Workers, NEW w \in Workers, v # w, Active(v)', Active(w)',
               Active(v), Active(w), worker'[v].row = worker[v].row,
               worker'[w].row = worker[w].row
        PROVE  worker'[v].row # worker'[w].row
    BY <1>2 DEF Alone
  <1> SUFFICES ASSUME NEW v \in Workers, NEW w \in Workers, v # w, Active(v)', Active(w)'
               PROVE  worker'[v].row # worker'[w].row
    BY DEF Alone
  <1> QED BY <1>1, <1>2, ActiveBefore

LEMMA PostingNext ==
    ASSUME Typed, PostingIsMarked, Alone, PostingIsNew, [Next]_vars
    PROVE  PostingIsNew'
  <1> SUFFICES ASSUME NEW w \in Workers, worker'[w].stage = "posting"
               PROVE  Kind[worker'[w].row] \in ByMarker /\ world'[worker'[w].row] = 0
    BY DEF PostingIsNew
  <1>1. CASE worker'[w] = worker[w]
    <2> DEFINE x == worker[w].row
    <2>1. Active(w) /\ x \in Rows /\ Kind[x] \in ByMarker /\ world[x] = 0
      BY <1>1 DEF PostingIsNew, Active, Typed, ActiveHasRow
    <2>2. ASSUME NEW v \in Workers, MayCall(v), worker[v].row = x,
                 worker'[v].stage \in {"called", "errored"}
          PROVE  FALSE
      BY <2>1, <2>2 DEF Alone, Active, MayCall
    <2> QED BY <1>1, <2>1, <2>2, WorldSummary DEF WorldFate
  <1>2. CASE GoesOn(w)
    BY <1>2 DEF GoesOn
  <1>3. ASSUME NEW r \in Rows, NEW n \in Numbers, Claim(w, r, n) PROVE FALSE
    BY <1>3 DEF Claim, Holder, Typed, TypeOK
  <1>4. worker'[w] # Idle
    BY DEF Idle
  <1> QED BY <1>1, <1>2, <1>3, <1>4, WorkerSummary DEF WorkerFate

LEMMA OnceNext ==
    ASSUME Typed, PostingIsNew, AtMostOnce, [Next]_vars PROVE AtMostOnce'
  <1> SUFFICES ASSUME NEW x \in Rows PROVE world'[x] <= 1
    BY DEF AtMostOnce
  <1>1. ASSUME NEW w \in Workers, MayCall(w), worker[w].row = x PROVE Effect(x) <= 1
    BY <1>1 DEF MayCall, PostingIsNew, Effect
  <1> QED BY <1>1, WorldSummary DEF WorldFate, AtMostOnce

LEMMA ExclusiveNext ==
    ASSUME ~Overrun, Typed, Ordered, Exclusive, [Next]_vars PROVE Exclusive'
  BY HeldNext, AloneNext, PostingNext, OnceNext DEF Exclusive, Ordered

\* Provided no request outlives its lease, no interleaving of deliveries,
\* crashes, lost answers, retries and replays makes a second Slack post or a
\* second Issue or comment for one idempotency key.
THEOREM Once == ~Overrun => (Spec => []AtMostOnce)
  <1> SUFFICES ASSUME ~Overrun PROVE Spec => []AtMostOnce
    OBVIOUS
  <1>1. Typed /\ Ordered /\ Exclusive /\ [Next]_vars => Exclusive'
    BY ExclusiveNext
  <1>2. Exclusive => AtMostOnce
    BY DEF Exclusive
  <1> QED
    BY <1>1, <1>2, TypedInit, TypedNext, OrderedInit, OrderedNext, ExclusiveInit, PTL
       DEF Spec

-----------------------------------------------------------------------------
(* References.                                                             *)

\* A row that a step makes sent is the row of a mark without conflict.
LEMMA SentByMark ==
    ASSUME Typed, [Next]_vars, NEW x \in Rows,
           row[x].status # "sent", row'[x].status = "sent"
    PROVE  \E w \in Workers : Mark(w) /\ ~Conflict(w) /\ worker[w].row = x
  <1>1. ASSUME NEW w \in Workers, Release(w) PROVE FALSE
    <2>1. row[x] \in RowRecords /\ row \in [Rows -> RowRecords]
      BY DEF Typed, TypeOK
    <2>2. row'[x] \in {row[x], AfterRelease(x)}
      BY <1>1, <2>1 DEF Release
    <2>3. AfterRelease(x).status # "sent"
      BY <2>1 DEF AfterRelease, RowRecords
    <2> QED BY <2>2, <2>3
  <1>2. \A y \in Rows : row[y] \in RowRecords
    BY DEF Typed, TypeOK
  <1>3. /\ \A y \in Rows : /\ ClaimedRow(y).status = "sending"
                           /\ FailedRow(y).status = "failed"
                           /\ ExpiredRow(y).status = row[y].status
                           /\ ReplayedRow(y).status = "pending"
        /\ Fresh.status = "pending"
    BY <1>2 DEF ClaimedRow, FailedRow, ExpiredRow, ReplayedRow, Fresh, Absent, RowRecords
  <1>4. row \in [Rows -> RowRecords]
    BY DEF Typed, TypeOK
  <1>5. ASSUME NEW r \in Rows, Record(r) \/ LeaseExpires(r) \/ Replay(r) PROVE FALSE
    BY <1>3, <1>4, <1>5 DEF Record, Insert, LeaseExpires, Replay
  <1>6. ASSUME NEW r \in Rows, NEW n \in Numbers, NEW w \in Workers, Claim(w, r, n) PROVE FALSE
    BY <1>3, <1>4, <1>6 DEF Claim
  <1>7. ASSUME NEW r \in Rows, NEW n \in Numbers, Exhaust(r, n) PROVE FALSE
    BY <1>3, <1>4, <1>7 DEF Exhaust
  <1>8. ASSUME NEW w \in Workers, FailSafety(w) PROVE FALSE
    BY <1>3, <1>4, <1>8 DEF FailSafety
  <1>9. ASSUME NEW w \in Workers, Mark(w)
        PROVE  ~Conflict(w) /\ worker[w].row = x
    <2>1. ~Conflict(w)
      BY <1>9 DEF Mark
    <2>2. row' = [Insert(Followers(worker[w].row)) EXCEPT ![worker[w].row] = SentRow(w)]
      BY <1>9, <2>1 DEF Mark
    <2>3. CASE worker[w].row # x
      <3>1. row'[x] = Insert(Followers(worker[w].row))[x]
        BY <2>2, <2>3 DEF Insert
      <3> QED BY <1>3, <3>1 DEF Insert
    <2> QED BY <2>1, <2>3
  <1>10. row' # row
    OBVIOUS
  <1> QED
    BY <1>1, <1>5, <1>6, <1>7, <1>8, <1>9, <1>10
       DEF Next, RowStep, TaskStep, WorkerStep, vars, Dispatch, RetriesEnd, NameFreed,
           AlreadySettled, Lookup, Call, Refused, Errs, MarkStale, Crash

\* What a step may do to the references of an incident.
LEMMA IncidentSummary ==
    ASSUME Typed, [Next]_vars
    PROVE  \/ incident' = incident
           \/ \E w \in Workers : /\ Mark(w) /\ ~Conflict(w)
                                 /\ incident' = Referenced(worker[w].row, worker[w].ref)
  <1>1. ASSUME NEW w \in Workers, Mark(w)
        PROVE  \/ incident' = incident
               \/ ~Conflict(w) /\ incident' = Referenced(worker[w].row, worker[w].ref)
    BY <1>1 DEF Mark
  <1> QED
    BY <1>1
       DEF Next, RowStep, TaskStep, WorkerStep, vars, Record, Dispatch, LeaseExpires, Replay,
           RetriesEnd, NameFreed, Exhaust, AlreadySettled, Claim, Lookup, Call, Refused, Errs,
           MarkStale, Release, FailSafety, Crash

SlackKinds == {"slack", "slack_update"}

\* The row and the incident that a mark writes.
LEMMA MarkWrites ==
    ASSUME Typed, Ordered, NEW w \in Workers, Mark(w), ~Conflict(w),
           NEW r, r = worker[w].row
    PROVE  /\ r \in Rows /\ Owner[r] \in Incidents /\ Kind[r] \in Kinds
           /\ row'[r].status = "sent" /\ row'[r].ref = worker[w].ref
           /\ worker[w].ref # None
           /\ \A i \in Incidents :
                 /\ incident'[i].issue = IF i = Owner[r] /\ Kind[r] = "github_issue"
                                         THEN worker[w].ref ELSE incident[i].issue
                 /\ incident'[i].slack = IF i = Owner[r] /\ Kind[r] \in SlackKinds
                                         THEN worker[w].ref ELSE incident[i].slack
           /\ Kind[r] = "github_issue" => incident[Owner[r]].issue \in {None, worker[w].ref}
           /\ Kind[r] \in SlackKinds => incident[Owner[r]].slack \in {None, worker[w].ref}
  <1>1. r \in Rows /\ Active(w) /\ worker[w].stage = "called"
    BY DEF Mark, Active, Typed, ActiveHasRow
  <1>2. Owner[r] \in Incidents /\ Kind[r] \in Kinds
    BY <1>1, OutboxConstants
  <1>3. row' = [Insert(Followers(r)) EXCEPT ![r] = SentRow(w)]
    BY DEF Mark
  <1>4. row'[r] = SentRow(w)
    BY <1>1, <1>3 DEF Insert
  <1>5. SentRow(w).status = "sent" /\ SentRow(w).ref = worker[w].ref
    <2>1. row[r] \in RowRecords
      BY <1>1 DEF Typed, TypeOK
    <2> QED BY <2>1 DEF SentRow, RowRecords
  <1>6. worker[w].ref # None
    BY <1>1 DEF Ordered
  <1>7. incident' = Referenced(r, worker[w].ref)
    BY DEF Mark
  <1>8. incident \in [Incidents -> [issue : Refs \cup {None}, slack : Refs \cup {None}]]
    BY DEF Typed, TypeOK
  <1>9. ASSUME NEW i \in Incidents
        PROVE  /\ incident'[i].issue = IF i = Owner[r] /\ Kind[r] = "github_issue"
                                       THEN worker[w].ref ELSE incident[i].issue
               /\ incident'[i].slack = IF i = Owner[r] /\ Kind[r] \in SlackKinds
                                       THEN worker[w].ref ELSE incident[i].slack
    <2>1. CASE Kind[r] = "github_issue"
      <3>1. incident' = [incident EXCEPT ![Owner[r]].issue = worker[w].ref]
        BY <1>7, <2>1 DEF Referenced
      <3> QED BY <1>8, <2>1, <3>1 DEF SlackKinds
    <2>2. CASE Kind[r] \in SlackKinds
      <3>1. incident' = [incident EXCEPT ![Owner[r]].slack = worker[w].ref]
        BY <1>7, <2>2 DEF Referenced, SlackKinds
      <3> QED BY <1>8, <2>2, <3>1 DEF SlackKinds
    <2>3. CASE Kind[r] \notin SlackKinds \cup {"github_issue"}
      BY <1>7, <2>3 DEF Referenced, SlackKinds
    <2> QED BY <2>1, <2>2, <2>3
  <1>10. /\ Kind[r] = "github_issue" => incident[Owner[r]].issue \in {None, worker[w].ref}
         /\ Kind[r] \in SlackKinds => incident[Owner[r]].slack \in {None, worker[w].ref}
    BY DEF Conflict, SlackKinds
  <1> QED BY <1>1, <1>2, <1>4, <1>5, <1>6, <1>9, <1>10

LEMMA SentIsTrueInit == Init => SentIsTrue
  BY DEF Init, SentIsTrue, Absent

LEMMA SentIsTrueNext == Typed /\ Ordered /\ Ordered' /\ SentIsTrue /\ [Next]_vars => SentIsTrue'
  <1> SUFFICES ASSUME Typed, Ordered, Ordered', SentIsTrue, [Next]_vars PROVE SentIsTrue'
    OBVIOUS
  <1>1. \A r \in Rows : row'[r].status = "sent" => world'[r] > 0 /\ row'[r].ref # None
    BY DEF Ordered
  <1>0. \A r \in Rows : Owner[r] \in Incidents
    BY OutboxConstants
  <1>2. ASSUME NEW r \in Rows, row'[r].status = "sent"
        PROVE  /\ Kind[r] = "github_issue" => incident'[Owner[r]].issue = row'[r].ref
               /\ Kind[r] \in SlackKinds => incident'[Owner[r]].slack = row'[r].ref
    <2>1. CASE row[r].status # "sent"
      <3>1. PICK w \in Workers : Mark(w) /\ ~Conflict(w) /\ worker[w].row = r
        BY <1>2, <2>1, SentByMark
      <3> QED BY <1>0, <3>1, MarkWrites
    <2>2. CASE row[r].status = "sent"
      <3>1. row'[r] = row[r]
        BY <2>2, SentStays
      <3>2. /\ row[r].ref # None
            /\ Kind[r] = "github_issue" => incident[Owner[r]].issue = row[r].ref
            /\ Kind[r] \in SlackKinds => incident[Owner[r]].slack = row[r].ref
        BY <2>2 DEF SentIsTrue, SlackKinds
      <3>3. CASE incident' = incident
        BY <3>1, <3>2, <3>3
      <3>4. CASE \E w \in Workers : Mark(w) /\ ~Conflict(w)
        <4>1. PICK w \in Workers : Mark(w) /\ ~Conflict(w)
          BY <3>4
        <4> DEFINE x == worker[w].row
        <4>2. /\ x \in Rows /\ Owner[x] \in Incidents /\ Kind[x] \in Kinds
              /\ \A i \in Incidents :
                    /\ incident'[i].issue = IF i = Owner[x] /\ Kind[x] = "github_issue"
                                            THEN worker[w].ref ELSE incident[i].issue
                    /\ incident'[i].slack = IF i = Owner[x] /\ Kind[x] \in SlackKinds
                                            THEN worker[w].ref ELSE incident[i].slack
              /\ Kind[x] = "github_issue" => incident[Owner[x]].issue \in {None, worker[w].ref}
              /\ Kind[x] \in SlackKinds => incident[Owner[x]].slack \in {None, worker[w].ref}
          BY <4>1, MarkWrites
        <4> HIDE DEF x
        <4> QED BY <1>0, <3>1, <3>2, <4>2
      <3> QED BY <3>3, <3>4, IncidentSummary
    <2> QED BY <2>1, <2>2
  <1>3. ASSUME NEW i \in Incidents, incident'[i].issue # None
        PROVE  \E r \in Rows : /\ Owner[r] = i /\ Kind[r] = "github_issue"
                               /\ row'[r].status = "sent" /\ row'[r].ref = incident'[i].issue
    <2>1. CASE incident'[i].issue = incident[i].issue
      <3>1. PICK r \in Rows : /\ Owner[r] = i /\ Kind[r] = "github_issue"
                              /\ row[r].status = "sent" /\ row[r].ref = incident[i].issue
        BY <1>3, <2>1 DEF SentIsTrue
      <3> QED BY <2>1, <3>1, SentStays
    <2>2. CASE incident'[i].issue # incident[i].issue
      <3>1. PICK w \in Workers : Mark(w) /\ ~Conflict(w)
        BY <2>2, IncidentSummary
      <3> DEFINE x == worker[w].row
      <3>2. /\ x \in Rows /\ row'[x].status = "sent" /\ row'[x].ref = worker[w].ref
            /\ incident'[i].issue = IF i = Owner[x] /\ Kind[x] = "github_issue"
                                    THEN worker[w].ref ELSE incident[i].issue
        BY <3>1, MarkWrites
      <3> HIDE DEF x
      <3> QED BY <2>2, <3>2
    <2> QED BY <2>1, <2>2
  <1> QED BY <1>1, <1>2, <1>3 DEF SentIsTrue, SlackKinds

\* A row that says sent is true outside, and it and its incident name the same
\* object: mark_outbox_sent writes both or neither, and never over another
\* reference.
THEOREM SentMeansSent == Spec => []SentIsTrue
  <1> QED BY TypedInit, TypedNext, OrderedInit, OrderedNext, SentIsTrueInit, SentIsTrueNext,
             PTL DEF Spec

-----------------------------------------------------------------------------
(* The Slack update.                                                       *)

\* The update of an incident's Slack post depends on that post
\* (mark_outbox_sent looks it up by the incident).
UpdatesFollowPosts ==
    \A u \in Rows : Kind[u] = "slack_update" =>
        Dep[u] \in Rows /\ Kind[Dep[u]] = "slack" /\ Owner[Dep[u]] = Owner[u]

\* The first post and the Issue of an incident are recorded together.
PrimariesTogether ==
    \A x, y \in Primary : Owner[x] = Owner[y] /\ Recorded(x) => Recorded(y)

LEMMA RecordedStays ==
    ASSUME Typed, [Next]_vars, NEW x \in Rows, Recorded(x) PROVE Recorded(x)'
  <1>1. row[x] \in RowRecords
    BY DEF Typed, TypeOK
  <1>2. /\ ClaimedRow(x).status = "sending" /\ FailedRow(x).status = "failed"
        /\ ExpiredRow(x).status = row[x].status /\ ReplayedRow(x).status = "pending"
        /\ AfterRelease(x).status # "absent"
    BY <1>1 DEF ClaimedRow, FailedRow, ExpiredRow, ReplayedRow, AfterRelease, Recorded,
                RowRecords, Holds
  <1>3. \A w : worker[w].row = x => SentRow(w).status = "sent"
    BY <1>1 DEF SentRow, RowRecords
  <1> QED BY <1>2, <1>3, RowSummary DEF RowFate, Recorded

\* Only a transaction that records it makes a first post or an Issue appear.
LEMMA AppearsByRecord ==
    ASSUME Typed, [Next]_vars, NEW x \in Primary, ~Recorded(x), Recorded(x)'
    PROVE  \E r \in Rows : Record(r)
  <1>1. x \in Rows /\ Kind[x] \in {"slack", "github_issue"} /\ row[x].status = "absent"
    BY DEF Primary, Recorded
  <1>2. row \in [Rows -> RowRecords] /\ row'[x] # row[x]
    BY <1>1 DEF Recorded, Typed, TypeOK
  <1>3. ASSUME NEW r \in Rows, LeaseExpires(r) \/ Replay(r) PROVE FALSE
    BY <1>1, <1>2, <1>3 DEF LeaseExpires, LeaseLive, Replay, Replayable
  <1>4. ASSUME NEW r \in Rows, NEW n \in Numbers, NEW w \in Workers, Claim(w, r, n) PROVE FALSE
    BY <1>1, <1>2, <1>4 DEF Claim, Claimable
  <1>5. ASSUME NEW r \in Rows, NEW n \in Numbers, Exhaust(r, n) PROVE FALSE
    BY <1>1, <1>2, <1>5 DEF Exhaust, Claimable
  <1>6. ASSUME NEW w \in Workers, FailSafety(w) \/ Release(w) PROVE FALSE
    BY <1>1, <1>2, <1>6 DEF FailSafety, Release, Holds
  <1>7. ASSUME NEW w \in Workers, Mark(w) PROVE FALSE
    <2>1. ~Conflict(w) /\ worker[w].row # x
      BY <1>1, <1>2, <1>7 DEF Mark, Holds
    <2>2. row' = [Insert(Followers(worker[w].row)) EXCEPT ![worker[w].row] = SentRow(w)]
      BY <1>7, <2>1 DEF Mark
    <2>3. row'[x] = Insert(Followers(worker[w].row))[x]
      BY <1>1, <2>1, <2>2 DEF Insert
    <2>4. x \notin Followers(worker[w].row)
      BY <1>1 DEF Followers
    <2> QED BY <1>1, <1>2, <2>3, <2>4 DEF Insert
  <1> QED
    BY <1>2, <1>3, <1>4, <1>5, <1>6, <1>7
       DEF Next, RowStep, TaskStep, WorkerStep, vars, Dispatch, RetriesEnd, NameFreed,
           AlreadySettled, Lookup, Call, Refused, Errs, MarkStale, Crash

Announced == PrimariesTogether /\ IssueIsAnnounced

LEMMA AnnouncedInit == Init => Announced
  BY DEF Init, Announced, PrimariesTogether, IssueIsAnnounced, Recorded, Absent, Primary

LEMMA AnnouncedNext ==
    ASSUME UpdatesFollowPosts, Typed, Announced, [Next]_vars
    PROVE  Announced'
  <1>1. PrimariesTogether'
    <2> SUFFICES ASSUME NEW x \in Primary, NEW y \in Primary, Owner[x] = Owner[y],
                        Recorded(x)'
                 PROVE  Recorded(y)'
      BY DEF PrimariesTogether, Primary
    <2>0. x \in Rows /\ y \in Rows
      BY DEF Primary
    <2>1. CASE Recorded(x)
      BY <2>0, <2>1, RecordedStays DEF Announced, PrimariesTogether
    <2>2. CASE Recorded(y)
      BY <2>0, <2>2, RecordedStays
    <2>3. CASE ~Recorded(x) /\ ~Recorded(y)
      <3>1. PICK r \in Rows : Record(r)
        BY <2>3, AppearsByRecord
      <3>2. x \in Batch(r)
        BY <2>0, <2>3, <3>1 DEF Record, Insert, Recorded
      <3>3. r \in Primary
        BY <2>0, <3>2 DEF Batch, Primary
      <3>4. y \in Batch(r)
        BY <3>2, <3>3 DEF Batch
      <3> QED BY <2>0, <2>3, <3>1, <3>4 DEF Record, Insert, Recorded, Fresh, Absent
    <2> QED BY <2>1, <2>2, <2>3
  <1>2. IssueIsAnnounced'
    <2> SUFFICES ASSUME NEW r \in Rows, NEW u \in Rows, row'[r].status = "sent",
                        Kind[r] = "github_issue", Kind[u] = "slack_update",
                        Owner[u] = Owner[r]
                 PROVE  Recorded(u)'
      BY DEF IssueIsAnnounced
    <2>1. CASE row[r].status = "sent"
      BY <2>1, RecordedStays DEF Announced, IssueIsAnnounced
    <2>2. CASE Recorded(u)
      BY <2>2, RecordedStays
    <2>3. CASE row[r].status # "sent" /\ ~Recorded(u)
      <3>1. PICK w \in Workers : Mark(w) /\ ~Conflict(w) /\ worker[w].row = r
        BY <2>3, SentByMark
      <3>2. Recorded(r)
        BY <3>1 DEF Mark, Holds, Recorded
      <3>3. Dep[u] \in Primary /\ r \in Primary /\ Owner[Dep[u]] = Owner[r]
        BY DEF UpdatesFollowPosts, Primary
      <3>4. u \in Followers(r)
        BY <2>3, <3>2, <3>3 DEF Followers, Announced, PrimariesTogether
      <3>5. row' = [Insert(Followers(r)) EXCEPT ![r] = SentRow(w)] /\ u # r
        BY <3>1 DEF Mark
      <3>6. row'[u] = Fresh
        BY <3>4, <3>5 DEF Insert
      <3> QED BY <3>6 DEF Recorded, Fresh, Absent
    <2> QED BY <2>1, <2>2, <2>3
  <1> QED BY <1>1, <1>2 DEF Announced

\* Where updates follow their incident's post, an incident that got its Issue
\* has its Slack update recorded: the transaction that marks the Issue sent
\* finds the post's row, however the two rows' deliveries interleave.
THEOREM IssuesAnnounced == UpdatesFollowPosts => (Spec => []IssueIsAnnounced)
  <1> SUFFICES ASSUME UpdatesFollowPosts PROVE Spec => []IssueIsAnnounced
    OBVIOUS
  <1>1. Typed /\ Announced /\ [Next]_vars => Announced'
    BY AnnouncedNext
  <1>2. Announced => IssueIsAnnounced
    BY DEF Announced
  <1> QED BY <1>1, <1>2, TypedInit, TypedNext, AnnouncedInit, PTL DEF Spec

-----------------------------------------------------------------------------
(* Leases and late requests.                                               *)

LEMMA LeaseKept ==
    ASSUME Typed, [Next]_vars, NEW x \in Rows,
           LeaseLive(x), InProgress(x), row'[x] # row[x]
    PROVE  \/ row'[x].lease = "expired"
           \/ \E w \in Workers : /\ Active(w) /\ worker[w].row = x
                                 /\ worker[w].token = row[x].token
                                 /\ worker'[w] = Idle
  <1>1. RowFate(x)
    BY RowSummary
  <1>2. row[x] \in RowRecords
    BY DEF Typed, TypeOK
  <1>3. ~Claimable(x)
    BY DEF Claimable, Busy
  <1>4. ExpiredRow(x).lease = "expired"
    BY ONLY <1>2 DEF ExpiredRow, RowRecords
  <1>5. ASSUME NEW w \in Workers, Active(w), worker[w].row = x, Holds(w), worker'[w] = Idle
        PROVE  /\ Active(w) /\ worker[w].row = x
               /\ worker[w].token = row[x].token /\ worker'[w] = Idle
    BY <1>5 DEF Holds
  <1> QED BY <1>1, <1>3, <1>4, <1>5 DEF RowFate, LeaseLive

\* While a request works under a live lease, claim_outbox answers "busy" and the
\* compare-and-set of every ending keeps all others away from its row.
THEOREM LeasesRespected == Spec => LeaseIsRespected
  <1>1. Typed /\ [Next]_vars =>
            [\A r \in Rows :
                LeaseLive(r) /\ InProgress(r) /\ row'[r] # row[r] =>
                    \/ row'[r].lease = "expired"
                    \/ \E w \in Workers : /\ Active(w) /\ worker[w].row = r
                                           /\ worker[w].token = row[r].token
                                           /\ worker'[w] = Idle]_vars
    BY LeaseKept
  <1> QED BY <1>1, TypedInit, TypedNext, PTL DEF Spec, LeaseIsRespected

\* A step that ends a request which does not hold its row any more.
LEMMA LateEnding ==
    ASSUME Typed, [Next]_vars, NEW w \in Workers, Active(w), ~Active(w)', ~Holds(w)
    PROVE  UNCHANGED <<row, incident>>
  <1> USE DEF Typed, TypeOK
  <1>1. ASSUME NEW v \in Workers, NEW u, worker' = [worker EXCEPT ![v] = u] PROVE v = w
    BY <1>1 DEF Active
  <1>2. worker' # worker
    BY DEF Active
  <1>3. ASSUME NEW v \in Workers, NEW s, worker' = [worker EXCEPT ![v] = At(v, s)]
        PROVE  s = "idle"
    BY <1>1, <1>3, WorkerFields DEF Active
  <1>4. ASSUME NEW v \in Workers, NEW x, worker' = [worker EXCEPT ![v] = Answer(v, x)]
        PROVE  FALSE
    BY <1>1, <1>4, WorkerFields DEF Active
  <1>5. ASSUME NEW v \in Workers, Mark(v) PROVE FALSE
    <2>1. ~Conflict(v) => v = w
      BY <1>5, <1>1 DEF Mark
    <2> QED BY <1>5, <1>3, <2>1 DEF Mark
  <1>6. ASSUME NEW v \in Workers, Release(v) \/ FailSafety(v)
        PROVE  UNCHANGED <<row, incident>>
    <2>1. v = w
      BY <1>6, <1>1 DEF Release, FailSafety
    <2> QED BY <1>6, <2>1 DEF Release, FailSafety
  <1>7. ASSUME NEW v \in Workers, MarkStale(v) \/ Crash(v) PROVE UNCHANGED <<row, incident>>
    BY <1>7 DEF MarkStale, Crash
  <1>8. ASSUME NEW v \in Workers, Lookup(v) PROVE FALSE
    BY <1>8, <1>3, <1>4 DEF Lookup
  <1>9. ASSUME NEW v \in Workers, Call(v) PROVE FALSE
    BY <1>9, <1>3, <1>4 DEF Call
  <1>10. ASSUME NEW v \in Workers, Refused(v) \/ Errs(v) PROVE FALSE
    BY <1>10, <1>3 DEF Refused, Errs
  <1>11. ASSUME NEW v \in Workers, NEW r \in Rows, NEW n \in Numbers, Claim(v, r, n)
         PROVE  FALSE
    BY <1>11, <1>1 DEF Claim
  <1> QED
    BY <1>2, <1>5, <1>6, <1>7, <1>8, <1>9, <1>10, <1>11
       DEF Next, RowStep, TaskStep, WorkerStep, vars, Record, Dispatch, LeaseExpires, Replay,
           RetriesEnd, NameFreed, Exhaust, AlreadySettled

\* A worker whose row was claimed again, settled or replayed behind its back ends
\* without a trace: also when requests outlive their leases.
THEOREM LateIsHarmless == Spec => StaleIsHarmless
  <1>1. Typed /\ [Next]_vars =>
            [\A w \in Workers :
                /\ Active(w) /\ ~Active(w)'
                /\ LET r == worker[w].row IN
                   row[r].token # worker[w].token \/ row[r].status # "sending"
                => UNCHANGED <<row, incident>>]_vars
    BY LateEnding DEF Holds
  <1> QED BY <1>1, TypedInit, TypedNext, PTL DEF Spec, StaleIsHarmless

-----------------------------------------------------------------------------
(***************************************************************************)
(* Outbox implements OutboxDelivery, for any instance in which no request  *)
(* outlives its lease.                                                     *)
(***************************************************************************)
Invariant == Typed /\ Ordered /\ Exclusive

LEMMA Stutters ==
    ASSUME UNCHANGED <<Phase, Performed>> PROVE [Delivery!Next]_(Delivery!vars)
  BY DEF Delivery!vars

\* Rows that keep their abstract phase.
LEMMA PhaseKept ==
    ASSUME \A x \in Rows : row'[x].status = row[x].status
                           \/ {row'[x].status, row[x].status} \subseteq {"pending", "sending"}
    PROVE  Phase' = Phase
  BY DEF Phase

LEMMA ReadyIffDepSent ==
    ASSUME NEW r \in Rows PROVE DepSent(r) <=> Delivery!Ready(r)
  <1>1. Dep[r] # None => Dep[r] \in Rows
    BY OutboxConstants
  <1> QED BY <1>1 DEF DepSent, Delivery!Ready, Phase

\* A row that may be delivered and becomes failed is given up.
LEMMA GivesUp ==
    ASSUME Typed, NEW r \in Rows, DepSent(r), row[r].status \in {"pending", "sending"},
           NEW x, x.status = "failed",
           row' = [row EXCEPT ![r] = x], UNCHANGED world
    PROVE  Delivery!GiveUp(r)
  <1>1. Phase[r] = "open" /\ Phase' = [Phase EXCEPT ![r] = "failed"]
    BY DEF Phase, Typed, TypeOK
  <1>2. Performed' = Performed
    BY DEF Performed
  <1> QED BY <1>1, <1>2, ReadyIffDepSent DEF Delivery!GiveUp

LEMMA RecordSteps ==
    ASSUME Typed, NEW r \in Rows, Record(r) PROVE Delivery!Record
  <1> DEFINE R == {b \in Batch(r) : ~Recorded(b)}
  <1>1. R \in SUBSET {x \in Rows : Phase[x] = "absent"}
    BY DEF Batch, Primary, Recorded, Phase
  <1>2. Phase' = Delivery!Opened(Phase, R)
    BY DEF Record, Insert, Fresh, Absent, Phase, Delivery!Opened
  <1>3. Performed' = Performed
    BY DEF Record, Performed
  <1> QED BY <1>1, <1>2, <1>3 DEF Delivery!Record

LEMMA CallSteps ==
    ASSUME Invariant, NEW w \in Workers, Call(w)
    PROVE  UNCHANGED <<Phase, Performed>> \/ Delivery!Perform(worker[w].row)
  <1> DEFINE r == worker[w].row
  <1>1. r \in Rows /\ MayCall(w) /\ Active(w)
    BY RefOfType DEF Call, Invariant, MayCall, Active
  <1>2. Phase[r] = "open" /\ Phase' = Phase
    BY <1>1 DEF Invariant, Exclusive, Held, LeaseLive, Phase, Call
  <1>3. Delivery!Ready(r)
    BY <1>1, ReadyIffDepSent DEF Invariant, Ordered
  <1>4. Performed' = [Performed EXCEPT ![r] = TRUE]
    <2>1. Effect(r) > 0
      BY <1>1, EffectExists DEF Invariant
    <2> QED BY <1>1, <2>1 DEF Call, Performed, Invariant, Typed, TypeOK
  <1>5. CASE Performed[r]
    <2>1. Performed' = Performed
      BY <1>1, <1>4, <1>5 DEF Performed
    <2> QED BY <1>2, <2>1
  <1>6. CASE ~Performed[r]
    BY <1>2, <1>3, <1>4, <1>6 DEF Delivery!Perform
  <1> QED BY <1>5, <1>6

LEMMA MarkSteps ==
    ASSUME Invariant, NEW w \in Workers, Mark(w), ~Conflict(w)
    PROVE  Delivery!Confirm(worker[w].row)
  <1> DEFINE r == worker[w].row
  <1>1. r \in Rows /\ row[r].status = "sending" /\ world[r] > 0
    BY DEF Mark, Holds, Invariant, Typed, ActiveHasRow, Active, Ordered
  <1>2. Followers(r) \in SUBSET {x \in Rows : Phase[x] = "absent"}
    BY DEF Followers, Recorded, Phase
  <1>3. SentRow(w).status = "sent"
    <2>1. row[r] \in RowRecords
      BY <1>1 DEF Invariant, Typed, TypeOK
    <2> QED BY ONLY <2>1 DEF SentRow, RowRecords
  <1>4. row' = [Insert(Followers(r)) EXCEPT ![r] = SentRow(w)]
    BY DEF Mark
  <1>5. Phase' = [Delivery!Opened(Phase, Followers(r)) EXCEPT ![r] = "sent"]
    BY <1>1, <1>3, <1>4 DEF Insert, Fresh, Absent, Phase, Delivery!Opened
  <1>6. Phase[r] = "open" /\ Performed[r] /\ Performed' = Performed
    BY <1>1 DEF Phase, Performed, Mark
  <1> QED BY <1>2, <1>5, <1>6 DEF Delivery!Confirm

LEMMA StepSimulation ==
    ASSUME Invariant, [Next]_vars PROVE [Delivery!Next]_(Delivery!vars)
  <1> USE DEF Invariant
  <1>0. \A x \in Rows : row[x] \in RowRecords
    BY DEF Typed, TypeOK
  <1>1. ASSUME NEW r \in Rows, Record(r) PROVE Delivery!Next
    BY <1>1, RecordSteps DEF Delivery!Next
  <1>2. ASSUME NEW r \in Rows, Replay(r) PROVE Delivery!Next
    <2>1. ReplayedRow(r).status = "pending"
      BY <1>0 DEF ReplayedRow, RowRecords
    <2>2. Delivery!Reopen(r)
      BY <1>2, <2>1 DEF Replay, Replayable, Phase, Performed, Typed, TypeOK, Delivery!Reopen
    <2> QED BY <2>2 DEF Delivery!Next
  <1>3. ASSUME NEW r \in Rows, LeaseExpires(r) PROVE UNCHANGED <<Phase, Performed>>
    <2>1. ExpiredRow(r).status = row[r].status
      BY <1>0 DEF ExpiredRow, RowRecords
    <2>2. Phase' = Phase
      BY <1>3, <2>1, PhaseKept DEF LeaseExpires, Typed, TypeOK
    <2> QED BY <1>3, <2>2 DEF LeaseExpires, Performed
  <1>4. ASSUME NEW r \in Rows, NEW n \in Numbers, NEW w \in Workers, Claim(w, r, n)
        PROVE UNCHANGED <<Phase, Performed>>
    <2>1. ClaimedRow(r).status = "sending"
      BY <1>0 DEF ClaimedRow, RowRecords
    <2>2. Phase' = Phase
      BY <1>4, <2>1, PhaseKept DEF Claim, Claimable, Typed, TypeOK
    <2> QED BY <1>4, <2>2 DEF Claim, Performed
  <1>5. ASSUME NEW r \in Rows, NEW n \in Numbers, Exhaust(r, n) PROVE Delivery!Next
    <2>1. FailedRow(r).status = "failed"
      BY <1>0 DEF FailedRow, RowRecords
    <2> QED BY <1>5, <2>1, GivesUp DEF Exhaust, Claimable, Delivery!Next
  <1>6. ASSUME NEW w \in Workers, Call(w) PROVE [Delivery!Next]_(Delivery!vars)
    <2>1. worker[w].row \in Rows
      BY <1>6, RefOfType DEF Call
    <2> QED BY <1>6, <2>1, CallSteps DEF Delivery!Next, Delivery!vars
  <1>7. ASSUME NEW w \in Workers, Mark(w) PROVE [Delivery!Next]_(Delivery!vars)
    <2>1. CASE Conflict(w)
      BY <1>7, <2>1 DEF Mark, Phase, Performed, Delivery!vars
    <2>2. CASE ~Conflict(w)
      <3>1. worker[w].row \in Rows
        BY <1>7 DEF Mark, Typed, ActiveHasRow, Active
      <3> QED BY <1>7, <2>2, <3>1, MarkSteps DEF Delivery!Next
    <2> QED BY <2>1, <2>2
  <1>8. ASSUME NEW w \in Workers, Release(w) PROVE [Delivery!Next]_(Delivery!vars)
    <2> DEFINE r == worker[w].row
    <2>1. r \in Rows /\ DepSent(r) /\ Active(w)
      BY <1>8 DEF Release, Typed, ActiveHasRow, Active, Ordered
    <2>2. CASE ~Holds(w)
      BY <1>8, <2>2 DEF Release, Phase, Performed, Delivery!vars
    <2>3. CASE Holds(w) /\ row[r].attempts >= MaxAttempts
      <3>1. AfterRelease(r).status = "failed"
        BY <1>0, <2>1, <2>3 DEF AfterRelease, RowRecords
      <3> QED BY <1>8, <2>1, <2>3, <3>1, GivesUp DEF Release, Holds, Delivery!Next
    <2>4. CASE Holds(w) /\ ~(row[r].attempts >= MaxAttempts)
      <3>1. AfterRelease(r).status = "pending"
        BY <1>0, <2>1, <2>4 DEF AfterRelease, RowRecords
      <3>2. Phase' = Phase
        BY <1>8, <2>1, <2>4, <3>1, PhaseKept DEF Release, Holds, Typed, TypeOK
      <3> QED BY <1>8, <3>2 DEF Release, Performed, Delivery!vars
    <2> QED BY <2>2, <2>3, <2>4
  <1>9. ASSUME NEW w \in Workers, FailSafety(w) PROVE [Delivery!Next]_(Delivery!vars)
    <2> DEFINE r == worker[w].row
    <2>1. r \in Rows /\ DepSent(r)
      BY <1>9 DEF FailSafety, Typed, ActiveHasRow, Active, Ordered
    <2>2. CASE ~Holds(w)
      BY <1>9, <2>2 DEF FailSafety, Phase, Performed, Delivery!vars
    <2>3. CASE Holds(w)
      <3>1. FailedRow(r).status = "failed"
        BY <1>0, <2>1 DEF FailedRow, RowRecords
      <3> QED BY <1>9, <2>1, <2>3, <3>1, GivesUp DEF FailSafety, Holds, Delivery!Next
    <2> QED BY <2>2, <2>3
  <1>10. CASE UNCHANGED <<row, world>>
    BY <1>10 DEF Phase, Performed, Delivery!vars
  <1> QED
    BY <1>1, <1>2, <1>3, <1>4, <1>5, <1>6, <1>7, <1>8, <1>9, <1>10, Stutters
       DEF Next, RowStep, TaskStep, WorkerStep, vars, Dispatch, RetriesEnd, NameFreed,
           AlreadySettled, Lookup, Refused, Errs, MarkStale, Crash

LEMMA InitSimulation == Init => Delivery!Init
  <1> SUFFICES ASSUME Init PROVE Delivery!Init
    OBVIOUS
  <1>1. Phase = [r \in Rows |-> "absent"]
    BY DEF Init, Absent, Phase
  <1>2. \A r \in Rows : (world[r] > 0) = FALSE
    BY DEF Init
  <1>3. Performed = [r \in Rows |-> FALSE]
    BY <1>2, Zenon DEF Performed
  <1> QED BY <1>1, <1>3 DEF Delivery!Init

LEMMA InvariantHolds ==
    ASSUME ~Overrun PROVE Spec => []Invariant
  <1>1. Invariant /\ [Next]_vars => Invariant'
    BY TypedNext, OrderedNext, ExclusiveNext DEF Invariant
  <1>2. Init => Invariant
    BY TypedInit, OrderedInit, ExclusiveInit DEF Invariant
  <1> QED BY <1>1, <1>2, PTL DEF Spec

\* The outbox with its leases, tokens, task names and retries does what
\* OutboxDelivery says and nothing else, provided no request outlives its
\* lease.
THEOREM Implements == ~Overrun => (Spec => ImplementsDelivery)
  <1> SUFFICES ASSUME ~Overrun PROVE Spec => ImplementsDelivery
    OBVIOUS
  <1>1. Invariant /\ [Next]_vars => [Delivery!Next]_(Delivery!vars)
    BY StepSimulation
  <1> QED BY <1>1, InitSimulation, InvariantHolds, PTL
             DEF Spec, ImplementsDelivery, Delivery!Spec
=============================================================================
