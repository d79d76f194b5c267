----------------------------- MODULE MCLeaderRing -----------------------------
(* A small instance of LeaderRing for TLC.                                 *)
EXTENDS LeaderRing

(* IDs below and above the leader's.                                       *)
Ids5 == {1, 2, 4, 5, 6}
=============================================================================
