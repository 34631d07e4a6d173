--------------------------- MODULE MCAgentHistory ---------------------------
(***************************************************************************)
(* Two agents in a chain.                                                  *)
(***************************************************************************)
EXTENDS AgentHistory

CONSTANTS a1, a2

MCChain == <<a1, a2>>
=============================================================================
