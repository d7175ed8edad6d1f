---------------------------- MODULE MCAgentChat ----------------------------
(* One tab with two accounts: the screen opens twice, with leaving it, a    *)
(* reload or a sign-out in between.                                         *)
EXTENDS AgentChat

\* At most two requests or turns are under way at once.
TwoAtOnce ==
    Cardinality(work) + Cardinality({r \in requests : r.what # "sync"})
        + Cardinality({t \in Turns : turn[t].phase = "waiting"}) <= 2
=============================================================================
