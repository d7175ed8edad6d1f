------------------------------ MODULE MCAlerts ------------------------------
(***************************************************************************)
(* Small instances of Alerts for TLC.                                      *)
(***************************************************************************)
EXTENDS Alerts, TLC

CONSTANTS m1, m2, k1, k2, i1, i2, q1, q2

KeyOfOne == m1 :> k1

\* Two alerts with different texts.
KeyOfTwo == (m1 :> k1) @@ (m2 :> k2)

\* Requests and unused incident rows are interchangeable.
Symmetry == Permutations(Requests) \cup Permutations(Incidents)
=============================================================================
