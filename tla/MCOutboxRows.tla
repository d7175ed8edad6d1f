---------------------------- MODULE MCOutboxRows ----------------------------
(***************************************************************************)
(* The rows of an incident and of a storm that merges it, in two scopes of *)
(* the same program, either of which is small enough to explore:           *)
(*   announce  the Slack post, the Issue and the update that links them,   *)
(*             replayed by an operator, under the deployed timeouts;       *)
(*   merge     the Issues of the incident and of the storm, the comment    *)
(*             and the close of the merged Issue, with requests that may   *)
(*             outlive their lease and no replay, while the dispatcher has *)
(*             not come to the Slack post yet.                             *)
(* A scope only leaves steps out: no step is added.                        *)
(***************************************************************************)
EXTENDS MCOutbox

VARIABLE scope

AnnounceOnly ==
    /\ ~Recorded(StormIssue)'
    /\ \A r \in Rows : LeaseLive(r) /\ row'[r].lease = "expired" => ~InProgress(r)

MergeOnly ==
    /\ \A n \in Numbers : tasks'[<<Slack, n>>] = "free"
    /\ \A r \in Rows : row'[r].generation = 0

ScopedInit == Init /\ scope \in {"announce", "merge"}

ScopedNext ==
    /\ Next /\ UNCHANGED scope
    /\ scope = "announce" => AnnounceOnly
    /\ scope = "merge" => MergeOnly

ScopedSpec == ScopedInit /\ [][ScopedNext]_<<vars, scope>>
=============================================================================
