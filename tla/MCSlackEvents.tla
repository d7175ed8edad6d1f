---------------------------- MODULE MCSlackEvents ----------------------------
(* A small instance of SlackEvents: two mentions in one incident's thread. *)
EXTENDS SlackEvents, TLC

CONSTANT Inc

ThreadOf == [e \in Events |-> Inc]

Symmetry == Permutations(Events) \cup Permutations(Workers)
=============================================================================
