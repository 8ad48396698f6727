------------------------------ MODULE MCAgentApp ------------------------------
(* Small instances of AgentApp. *)
EXTENDS AgentApp

CONSTANTS n1, n2
===============================================================================
