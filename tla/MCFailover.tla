------------------------------ MODULE MCFailover ------------------------------
(* Small instances of Failover for TLC: three followers, and the old       *)
(* leader's ID among theirs.                                               *)
EXTENDS Failover

ServerIds == 1 .. 4
=============================================================================
