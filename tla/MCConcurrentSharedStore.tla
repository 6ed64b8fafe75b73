----------------------- MODULE MCConcurrentSharedStore -----------------------
(***************************************************************************)
(* Instances of ConcurrentSharedStore.                                     *)
(***************************************************************************)
EXTENDS ConcurrentSharedStore, TLC

CONSTANTS t1, t2, t3

\* Values that expire after a second or never, and one that fetches prolong.
Short == {<<0, 0>>, <<1, 0>>}
Bumped == {<<0, 0>>, <<1, 0>>, <<4, 3>>}

\* One thread stores, one fetches and one erases; two of them may purge.
Roles == t1 :> {"store", "dump"} @@ t2 :> {"get", "extend", "end"}
           @@ t3 :> {"erase", "update", "end"}
=============================================================================
