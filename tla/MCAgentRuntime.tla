--------------------------- MODULE MCAgentRuntime ---------------------------
(***************************************************************************)
(* Small instances of AgentRuntime.                                          *)
(***************************************************************************)
EXTENDS AgentRuntime

CONSTANTS r1, w1, w2
=============================================================================
