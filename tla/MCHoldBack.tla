------------------------------ MODULE MCHoldBack ------------------------------
(* Small instances of HoldBack for TLC.                                    *)
EXTENDS HoldBack, TLC

CONSTANTS a, b, c

TwoClients == {a, b}
ThreeClients == {a, b, c}
Symmetry == Permutations(Client)
=============================================================================
