------------------------------ MODULE MCOutput ------------------------------
(***************************************************************************)
(* A small instance of Output for TLC.                                     *)
(***************************************************************************)
EXTENDS Output

CONSTANTS c1, c2

TwoClients == {c1, c2}
=============================================================================
