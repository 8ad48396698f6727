----------------------------- MODULE MCOpaClient -----------------------------
(* Small instances of OpaClient. *)
EXTENDS OpaClient, TLC

CONSTANTS c1, c2

MCCalls == {c1, c2}
=============================================================================
