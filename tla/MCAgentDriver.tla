--------------------------- MODULE MCAgentDriver ---------------------------
(* AgentDriver on a few messages, for TLC. *)
EXTENDS AgentDriver, TLC

Symmetry == Permutations(Message)
=============================================================================
