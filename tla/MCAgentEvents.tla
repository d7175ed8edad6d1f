--------------------------- MODULE MCAgentEvents ---------------------------
(* Two instances, two turns and up to two event streams of one session.    *)
EXTENDS AgentEvents

\* The instances are alike: the first stream runs on the first of them.
FirstStreamFixed == stream[1].inst = AnyInstance
=============================================================================
