---------------------------- MODULE MCEpollWait -----------------------------
(* Instances of EpollWait. *)
EXTENDS EpollWait, TLC
Symmetry == Permutations(Waiters)
=============================================================================
