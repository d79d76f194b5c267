----------------------------- MODULE MCDiscovery -----------------------------
(* Small instances of Discovery for TLC.                                   *)
EXTENDS Discovery

DrawnIds == 1 .. Cardinality(Server)

(* The servers are alike until they have drawn their IDs.                  *)
Symmetry == Permutations(Server)
=============================================================================
