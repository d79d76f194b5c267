---------------------------- MODULE MCChatServer ----------------------------
(* Small instances of ChatServer for TLC.                                  *)
EXTENDS ChatServer

CONSTANTS c1, c2

Ids2 == c1 :> 101 @@ c2 :> 102
=============================================================================
