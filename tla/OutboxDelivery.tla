--------------------------- MODULE OutboxDelivery ---------------------------
(***************************************************************************)
(* What ops.outbox promises to the rest of the incident agent, with no     *)
(* task queue, lease, token or worker in sight: a recorded intention is    *)
(* performed in the outside world at most once, only after the intention   *)
(* it depends on has been confirmed, and is confirmed only after it has    *)
(* been performed.  Once it may be performed, it is confirmed or given up  *)
(* for an operator to reopen.                                              *)
(***************************************************************************)
CONSTANTS Rows, Dep, None

VARIABLES
    phase,      \* [Rows -> {"absent", "open", "sent", "failed"}]
    performed   \* [Rows -> BOOLEAN]: the effect exists in Slack or GitHub

vars == <<phase, performed>>

Ready(r) == IF Dep[r] = None THEN TRUE ELSE phase[Dep[r]] = "sent"

Init == /\ phase = [r \in Rows |-> "absent"]
        /\ performed = [r \in Rows |-> FALSE]

\* Opening a set of rows that were not recorded before.
Opened(f, R) == [r \in Rows |-> IF r \in R THEN "open" ELSE f[r]]

Record == \E R \in SUBSET {r \in Rows : phase[r] = "absent"} :
              /\ phase' = Opened(phase, R)
              /\ UNCHANGED performed

Perform(r) == /\ phase[r] = "open"
              /\ Ready(r)
              /\ ~performed[r]
              /\ performed' = [performed EXCEPT ![r] = TRUE]
              /\ UNCHANGED phase

\* Confirming an Issue may record the Slack update that links to it.
Confirm(r) == /\ phase[r] = "open"
              /\ performed[r]
              /\ \E R \in SUBSET {x \in Rows : phase[x] = "absent"} :
                     phase' = [Opened(phase, R) EXCEPT ![r] = "sent"]
              /\ UNCHANGED performed

GiveUp(r) == /\ phase[r] = "open"
             /\ Ready(r)
             /\ phase' = [phase EXCEPT ![r] = "failed"]
             /\ UNCHANGED performed

Reopen(r) == /\ phase[r] = "failed"
             /\ phase' = [phase EXCEPT ![r] = "open"]
             /\ UNCHANGED performed

Next == \/ Record
        \/ \E r \in Rows : Perform(r) \/ Confirm(r) \/ GiveUp(r) \/ Reopen(r)

Spec == Init /\ [][Next]_vars

\* Every row that may be performed is settled: confirmed, or given up.
Settles == \A r \in Rows :
    phase[r] = "open" /\ Ready(r) ~> phase[r] \in {"sent", "failed"}
=============================================================================
