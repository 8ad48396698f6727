-------------------------- MODULE MCRegistryClient --------------------------
(* Small instances of RegistryClient. *)
EXTENDS RegistryClientProperties, TLC

CONSTANTS i1, i2, n1, v1, v2

RegistrySymmetry == Permutations({i1, i2}) \cup Permutations({v1, v2})
=============================================================================
