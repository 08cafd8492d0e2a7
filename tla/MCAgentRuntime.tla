---------------------------- MODULE MCAgentRuntime -----------------------------
(* AgentRuntime for TLC.  Three tools are enough: one that must not run twice, *)
(* one that may run again after a crash, and a high-risk one.                  *)
EXTENDS AgentRuntime
===============================================================================
