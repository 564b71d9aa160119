------------------------------ MODULE MCTPool ------------------------------
(* Instances of the pool: the program's (one thread per pool), and any use  *)
(* of the interface with up to three threads.                               *)
EXTENDS TPool

CONSTANTS j1, j2

OneJob == {j1}
TwoJobs == {j1, j2}
One == {1}
OneTwo == {1, 2}
OneTwoThree == {1, 2, 3}
=============================================================================
