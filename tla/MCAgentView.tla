------------------------------ MODULE MCAgentView ------------------------------
(* Instances of AgentView for TLC. *)
EXTENDS AgentView, TLC

InterchangeableCallers == Permutations(Callers)
================================================================================
