----------------------------- MODULE MCJobQueue -----------------------------
(***************************************************************************)
(* Small instances of JobQueue for TLC.                                    *)
(***************************************************************************)
EXTENDS JobQueue

CONSTANT SecondNode  \* threads on the second NUMA node

\* All jobs can be told apart by their place in the queues only.
Symmetry == Permutations(Jobs)

\* Where next_numa_node puts the threads.
MCNumaNode == [t \in Threads |-> IF t \in SecondNode THEN 1 ELSE 0]
=============================================================================
