------------------------------ MODULE MCElection ------------------------------
(* Small instances of Election for TLC.                                    *)
EXTENDS Election

(* The ring the leader builds is sorted by ID; the greatest is in the      *)
(* middle of the second arrangement.                                       *)
SortedId == [n \in 0 .. N-1 |-> n + 1]
MixedId  == [n \in 0 .. N-1 |-> <<2, 4, 1, 3>>[n + 1]]
=============================================================================
