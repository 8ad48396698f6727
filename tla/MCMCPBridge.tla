----------------------------- MODULE MCMCPBridge -----------------------------
(* Small instances of MCPBridge. *)
EXTENDS MCPBridgeProperties

CONSTANTS l1, l2, a1, a2, t1
=============================================================================
