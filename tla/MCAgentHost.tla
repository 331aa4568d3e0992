----------------------------- MODULE MCAgentHost -----------------------------
(***************************************************************************)
(* AgentHost for TLC; its instances differ in their configurations only.   *)
(***************************************************************************)
EXTENDS AgentHost
=============================================================================
