-------------------------- MODULE MCAgentProcesses --------------------------
(* Instances of AgentProcesses for TLC. *)
EXTENDS AgentProcesses, TLC

ClientSymmetry == Permutations(Getters) \cup Permutations(Shutdowners)
=============================================================================
