----------------------------- MODULE MCMcpService -----------------------------
(* Small instances of McpService. *)
EXTENDS McpService, TLC

CONSTANTS c1, c2

ConnSymmetry == Permutations({c1, c2})
===============================================================================
