------------------------------- MODULE MCLive -------------------------------
(***************************************************************************)
(* The liveness of the two halves of the incident agent, the outbox and    *)
(* the alerts, in one run; each is small, and runs while the other stays   *)
(* as it was at the start:                                                 *)
(*   chain   an Issue and the comment that depends on it, two attempts;    *)
(*   replay  the Issue alone, which an operator may replay;                *)
(*   alerts  one message, two incident rows, two push requests.            *)
(***************************************************************************)
EXTENDS MCOutbox

CONSTANTS m1, k1, i1, i2, q1, q2

VARIABLES
    part,      \* which of the three runs
    delivery, alerted, embeddings, investigations, request, answered

Pubsub == INSTANCE Alerts WITH
    Messages <- {m1}, Keys <- {k1}, Key <- m1 :> k1, Incidents <- {i1, i2},
    Requests <- {q1, q2}, Threshold <- 0, MaxAttempts <- 3, MaxEmbedding <- 2,
    MaxInvestigation <- 1, Overrun <- FALSE, incident <- alerted

pubsubVars == <<delivery, alerted, embeddings, investigations, request, answered>>

LiveInit == Init /\ Pubsub!Init /\ part \in {"chain", "replay", "alerts"}

LiveNext ==
    /\ UNCHANGED part
    /\ \/ /\ part = "chain" /\ Next /\ UNCHANGED pubsubVars
          /\ \A r \in Rows : row'[r].generation = 0
       \/ /\ part = "replay" /\ Next /\ UNCHANGED pubsubVars
          /\ ~Recorded(Comment)'
       \/ part = "alerts" /\ Pubsub!Next /\ UNCHANGED vars

\* The part that runs is scheduled fairly.
LiveSpec ==
    /\ LiveInit /\ [][LiveNext]_<<part, vars, pubsubVars>>
    /\ \/ part # "alerts" /\ Fairness
       \/ part = "alerts" /\ Pubsub!Fairness

\* Every recorded alert is answered 200 in the end (noise.py), unless the request
\* of its last embedding attempt dies.
Converges == Pubsub!Converges
=============================================================================
