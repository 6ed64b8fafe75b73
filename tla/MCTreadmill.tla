---------------------------- MODULE MCTreadmill ----------------------------
(***************************************************************************)
(* Small instances of Treadmill for TLC.                                   *)
(***************************************************************************)
EXTENDS Treadmill, TLC

\* Threads and items are interchangeable: indexes are drawn in any order.
Symmetry == Permutations(Threads) \cup Permutations(Items)
ThreadSymmetry == Permutations(Threads)
=============================================================================
