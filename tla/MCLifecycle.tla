---------------------------- MODULE MCLifecycle -----------------------------
(***************************************************************************)
(* Instances of Lifecycle for TLC.                                         *)
(***************************************************************************)
EXTENDS Lifecycle

CONSTANTS t1, t2, t3

TwoConnections == {t1, t2}
ThreeConnections == {t1, t2, t3}
=============================================================================
