------------------------------ MODULE MCFutex ------------------------------
(* Three threads on one mutex and one condition variable. *)
EXTENDS Futex, TLC

CONSTANTS p1, p2, p3

MCProcs == {p1, p2, p3}
MCSymmetry == Permutations(MCProcs)
=============================================================================
