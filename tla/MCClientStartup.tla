--------------------------- MODULE MCClientStartup ---------------------------
(* Small instances of ClientStartup for TLC.                               *)
EXTENDS ClientStartup

CONSTANTS c1, c2, s1, s2
=============================================================================
