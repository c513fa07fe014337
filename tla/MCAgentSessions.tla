-------------------------- MODULE MCAgentSessions ---------------------------
(* The instance of AgentSessions for TLC; its liveness properties rule out *)
(* a reduction by symmetry.                                                *)
EXTENDS AgentSessions
=============================================================================
