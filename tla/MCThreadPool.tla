---------------------------- MODULE MCThreadPool ----------------------------
(***************************************************************************)
(* A small instance of ThreadPool for TLC.                                 *)
(***************************************************************************)
EXTENDS ThreadPool

CONSTANTS w1, w2, w3, w4, t1, t2, t3

FourWorkers == {w1, w2, w3, w4}   \* as in Server's threadPool(4)
ThreeTasks == {t1, t2, t3}
=============================================================================
