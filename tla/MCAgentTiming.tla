--------------------------- MODULE MCAgentTiming ----------------------------
(* Instances of AgentTiming for TLC. *)
EXTENDS AgentTiming, TLC

=============================================================================
