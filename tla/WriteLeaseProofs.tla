-------------------------- MODULE WriteLeaseProofs --------------------------
(***************************************************************************)
(* Machine-checked proofs about the write lease, for any number of         *)
(* threads, functions and nested holders.                                  *)
(***************************************************************************)
EXTENDS WriteLease, FiniteSetTheorems, TLAPS

\* The depths of a stack of holders.
Depths == 1..MaxDepth

\* The lease that a holder needs when its level is Kind or Global.
LeaseFor(h) == IF Concurrently = 0 THEN "global"
               ELSE IF m_kind[h] = "Optimize" THEN "optimize" ELSE "live"

\* Some holder on the thread's stack, up to depth n, is to give back l.
Has(t, n, l) == \E d \in Depths : d <= n /\ m_acquiredLease[<<t, d>>] = l

\* Likewise for the flag of the function.
HasFlag(t, n) == \E d \in Depths : d <= n /\ m_acquiredFunc[<<t, d>>]

\* A thread inside a constructor or a destructor has a holder, only a thread
\* with a holder has a function, and a destructor that has come to the lease
\* no longer counts.
Busy ==
  \A t \in Threads :
    /\ pc[t] # "run" => depth[t] # 0
    /\ depth[t] = 0 <=> func[t] = NoFunc
    /\ pc[t] \in {"setFlag", "loadThreads", "addThread"} =>
         m_level[Top(t)] = "None" /\ Concurrently # 0
    /\ pc[t] \in {"dropLease", "unlock"} => ~m_acquiredThread[Top(t)]

\* Holders are a stack: what lies above it is clean ...
CleanAbove ==
  \A t \in Threads, d \in Depths : d > depth[t] =>
    /\ m_level[<<t, d>>] = "None"
    /\ m_acquiredLease[<<t, d>>] = NoLease
    /\ ~m_acquiredFunc[<<t, d>>]
    /\ ~m_acquiredThread[<<t, d>>]

\* ... what lies below its top is complete, and so is the top while the
\* thread runs.
CompleteBelow ==
  \A t \in Threads, d \in Depths :
    (d < depth[t] \/ (d = depth[t] /\ pc[t] = "run")) =>
      m_level[<<t, d>>] # "None"

\* A lease that is held is locked by the thread that m_owner names.
HeldOwned ==
  \A l \in Leases : m_held[l] => m_lock[l] # NoThread /\ m_owner[l] = m_lock[l]

\* A thread that has a mutex locked is inside acquire or has a holder that is
\* to give it back.
LockBacked ==
  \A t \in Threads, l \in Leases : m_lock[l] = t =>
    \/ pc[t] \in {"writeOwner", "writeHeld"} /\ LeaseOf(t) = l
    \/ Has(t, depth[t], l)

\* Between the mutex and the fields: a thread that writes them, or has cleared
\* m_held, has the mutex locked.
Writing ==
  \A t \in Threads :
    /\ pc[t] \in {"writeOwner", "writeHeld"} =>
         m_lock[LeaseOf(t)] = t /\ ~m_held[LeaseOf(t)]
    /\ pc[t] = "writeHeld" => m_owner[LeaseOf(t)] = t
    /\ pc[t] = "unlock" => /\ m_acquiredLease[Top(t)] # NoLease
                           /\ ~m_held[m_acquiredLease[Top(t)]]

\* A lease that a holder has acquired is its thread's, is held and is the one
\* of the holder's kind.
Acquired ==
  \A t \in Threads, d \in Depths : m_acquiredLease[<<t, d>>] # NoLease =>
    /\ m_acquiredLease[<<t, d>>] = LeaseFor(<<t, d>>)
    /\ m_lock[m_acquiredLease[<<t, d>>]] = t
    /\ m_owner[m_acquiredLease[<<t, d>>]] = t
    /\ \/ m_held[m_acquiredLease[<<t, d>>]]
       \/ pc[t] = "unlock" /\ d = depth[t]

\* No two holders will give back the same lease.
AcquiredOnce ==
  \A t \in Threads, d, e \in Depths :
    (/\ m_acquiredLease[<<t, d>>] # NoLease
     /\ m_acquiredLease[<<t, e>>] = m_acquiredLease[<<t, d>>]) => e = d

\* What a thread has learned from the fields it read without the mutex.
Learned ==
  \A t \in Threads :
    /\ pc[t] = "seeOwner" /\ m_owner[LeaseOf(t)] = t => m_lock[LeaseOf(t)] = t
    /\ pc[t] \in {"acquire", "acquireOwner", "tryHeld", "tryHint", "lock"} =>
         m_lock[LeaseOf(t)] # t
    /\ pc[t] = "acquireOwner" => m_owner[LeaseOf(t)] # t

\* A complete holder of level Kind or Global rests on a lease that itself or
\* an outer one has acquired.
LeaseBacked ==
  \A t \in Threads, d \in Depths :
    /\ m_level[<<t, d>>] = "Global" => Concurrently = 0
    /\ m_level[<<t, d>>] \in {"Kind", "Global"} =>
         Has(t, d, LeaseFor(<<t, d>>))

\* A constructor that has come to the function's flag has its lease, and one
\* that counts needs none.
LeaseTaken ==
  \A t \in Threads :
    /\ (pc[t] = "setFlag" /\ LockLevel(m_kind[Top(t)]) # "Func") =>
         Has(t, depth[t], LeaseOf(t))
    /\ pc[t] \in {"loadThreads", "addThread"} =>
         LockLevel(m_kind[Top(t)]) = "Func"

\* Flags that are set belong to exactly one thread, which is in the function.
FlagOwned ==
  /\ \A t \in Threads : tl_ownedFunc[t] \subseteq Locked
  /\ \A f \in Locked : \E t \in Threads : f \in tl_ownedFunc[t]
  /\ \A t, u \in Threads : \A f \in tl_ownedFunc[t] :
       f \in tl_ownedFunc[u] => u = t
  /\ \A t \in Threads : \A f \in tl_ownedFunc[t] :
       f = func[t] /\ HasFlag(t, depth[t])

\* A holder that has set the flag is the only one of its thread, and gives it
\* back before it gives back anything else.
FlagHolder ==
  \A t \in Threads, d \in Depths : m_acquiredFunc[<<t, d>>] =>
    /\ func[t] \in tl_ownedFunc[t]
    /\ \A e \in Depths : m_acquiredFunc[<<t, e>>] => e = d
    /\ d = depth[t] => pc[t] \notin {"dropLease", "unlock"}

\* A constructor that is about to be counted has set the flag.
FlagTaken ==
  \A t \in Threads :
    pc[t] \in {"loadThreads", "addThread"} => m_acquiredFunc[Top(t)]

\* A complete holder that is not being destroyed rests on the function's flag,
\* set by itself or by an outer holder.
FlagBacked ==
  Concurrently # 0 =>
    \A t \in Threads, d \in Depths :
      (m_level[<<t, d>>] # "None" /\ (d # depth[t] \/ ~Dropping(t)))
        => HasFlag(t, d)

\* Who counts towards Jit.Threads and is not complete is about to be dropped.
Counted ==
  \A t \in Threads, d \in Depths :
    (m_acquiredThread[<<t, d>>] /\ m_level[<<t, d>>] = "None") =>
      (d = depth[t] /\ pc[t] = "drop")

\* The inductive invariant: of the stack of holders,
Stack == Busy /\ CleanAbove /\ CompleteBelow

\* of the leases,
LeaseInv == /\ HeldOwned /\ LockBacked /\ Writing /\ Acquired /\ AcquiredOnce
            /\ Learned /\ LeaseBacked /\ LeaseTaken

\* of the flags,
FlagInv == FlagOwned /\ FlagHolder /\ FlagTaken /\ FlagBacked

Locks == Stack /\ LeaseInv /\ FlagInv

\* and of the counter.
IInv == Types /\ Locks /\ Counted /\ ThreadsBounded

-----------------------------------------------------------------------------
USE WriteLeaseAssumption

\* Where a thread can be.
PCs == {"run", "seeHeld", "seeOwner", "acquire", "acquireOwner", "tryHeld",
        "tryHint", "lock", "writeOwner", "writeHeld", "setFlag", "loadThreads",
        "addThread", "drop", "dropLease", "unlock"}

\* The initial state is well typed.
LEMMA TypeInit == Init => Types
  BY DEF Init, Types, Levels, Kinds

\* What LockLevel says of a kind.
LEMMA LockLevelOfKind ==
  ASSUME Types, NEW k \in Kinds
  PROVE  /\ LockLevel(k) \in {"Func", "Kind", "Global"}
         /\ LockLevel(k) = "Global" <=> Concurrently = 0
         /\ LockLevel(k) = "Kind" => k # "Profile"
  BY DEF Types, LockLevel, Kinds

\* Every step keeps the state well typed.
LEMMA TypeStep == Types /\ Stack /\ [Next]_vars => Types'
<1> SUFFICES ASSUME Types, Stack, [Next]_vars PROVE Types'
  OBVIOUS
<1>0. \A k \in Kinds : LockLevel(k) \in Levels
  BY LockLevelOfKind DEF Levels
<1>b. "None" \in Levels /\ "Live" \in Kinds /\ NoLease \notin Leases
  BY DEF Levels, Kinds, Leases, NoLease
<1>a. \A t \in Threads : /\ depth[t] # 0 => Top(t) \in Holders
                         /\ pc[t] # "run" => /\ depth[t] # 0
                                             /\ depth[t] - 1 \in 0..MaxDepth
                                             /\ func[t] \in Funcs
                         /\ LeaseOf(t) \in Leases
  BY DEF Top, LeaseOf, Types, Holders, Leases, Stack, Busy
<1> USE DEF leaseVars, funcVars, confVars, threadVars, acquiredVars, Goto
<1>1. ASSUME NEW l \in Leases, ExpireHint(l) PROVE Types'
  BY <1>1 DEF ExpireHint, Types
<1>2. ASSUME NEW t \in Threads, NEW f \in BOOLEAN, setMayAcquireLease(t, f)
      PROVE Types'
  BY <1>2 DEF setMayAcquireLease, Types
<1>3. ASSUME NEW t \in Threads, NEW f \in Funcs, NEW k \in Kinds,
             LeaseHolder(t, f, k)
      PROVE Types'
  BY <1>3 DEF LeaseHolder, Types, Holders
<1>4. ASSUME NEW t \in Threads, NEW k \in Kinds, checkKind(t, k) PROVE Types'
  BY <1>4, <1>0, <1>a DEF checkKind, Types
<1>5. ASSUME NEW t \in Threads, destroy(t) PROVE Types'
  BY <1>5 DEF destroy, Types
<1>6. ASSUME NEW t \in Threads,
             amOwnerHeld(t) \/ acquireHeld(t) \/ acquireHint(t) \/ loadThreads(t)
      PROVE Types'
  BY <1>6 DEF amOwnerHeld, acquireHeld, acquireHint, loadThreads, Types
<1>7. ASSUME NEW t \in Threads, amOwnerOwner(t) PROVE Types'
  BY <1>7, <1>0, <1>a DEF amOwnerOwner, AfterLease, Complete, Types
<1>8. ASSUME NEW t \in Threads, acquireOwner(t) PROVE Types'
  BY <1>8, <1>0, <1>a DEF acquireOwner, AfterLease, Complete, Types
<1>9. ASSUME NEW t \in Threads, acquireLock(t) PROVE Types'
  BY <1>9, <1>a DEF acquireLock, Types
<1>10. ASSUME NEW t \in Threads, acquireWriteOwner(t) PROVE Types'
  BY <1>10, <1>a DEF acquireWriteOwner, Types
<1>11. ASSUME NEW t \in Threads, acquireWriteHeld(t) PROVE Types'
  BY <1>11, <1>0, <1>a DEF acquireWriteHeld, AfterLease, Complete, Types
<1>12. ASSUME NEW t \in Threads, setFlag(t) PROVE Types'
  <2>1. pc' \in [Threads -> PCs]
    BY <1>12 DEF setFlag, Types, PCs
  <2>3. m_level' \in [Holders -> Levels]
    BY <1>12, <1>0, <1>a DEF setFlag, Complete, Types
  <2>4. m_acquiredFunc' \in [Holders -> BOOLEAN]
    BY <1>12, <1>a DEF setFlag, Types
  <2>2. Locked' \subseteq Funcs /\ tl_ownedFunc' \in [Threads -> SUBSET Funcs]
    BY <1>12, <1>a DEF setFlag, Types
  <2> QED
    BY <1>12, <2>1, <2>2, <2>3, <2>4 DEF setFlag, Types, PCs
<1>13. ASSUME NEW t \in Threads, addThread(t) PROVE Types'
  BY <1>13, <1>0, <1>a DEF addThread, Complete, Types
<1>14. ASSUME NEW t \in Threads, dropThread(t) PROVE Types'
  BY <1>14, <1>a DEF dropThread, Types
<1>15. ASSUME NEW t \in Threads, dropFunc(t) PROVE Types'
  <2>1. /\ pc' \in [Threads -> PCs]
        /\ m_acquiredFunc' \in [Holders -> BOOLEAN]
    BY <1>15, <1>a DEF dropFunc, Types, PCs
  <2>2. Locked' \subseteq Funcs /\ tl_ownedFunc' \in [Threads -> SUBSET Funcs]
    BY <1>15, <1>a DEF dropFunc, Types
  <2> QED
    BY <1>15, <2>1, <2>2 DEF dropFunc, Types, PCs
<1>16. ASSUME NEW t \in Threads, dropHeld(t) PROVE Types'
  <2>1. /\ pc' \in [Threads -> PCs] /\ depth' \in [Threads -> 0..MaxDepth]
        /\ func' \in [Threads -> Funcs \cup {NoFunc}]
    BY <1>16, <1>a DEF dropHeld, PopHolder, Types, PCs
  <2>2. m_level' \in [Holders -> Levels] /\ m_kind' \in [Holders -> Kinds]
    BY <1>16, <1>a, <1>b DEF dropHeld, PopHolder, Types
  <2>3. hinted' \in [Leases -> BOOLEAN] /\ m_held' \in [Leases -> BOOLEAN]
    BY <1>16, <1>a DEF dropHeld, Types
  <2> QED
    BY <1>16, <2>1, <2>2, <2>3 DEF dropHeld, Types, PCs
<1>17. ASSUME NEW t \in Threads, unlock(t) PROVE Types'
  <2>1. /\ pc' \in [Threads -> PCs] /\ depth' \in [Threads -> 0..MaxDepth]
        /\ func' \in [Threads -> Funcs \cup {NoFunc}]
    BY <1>17, <1>a DEF unlock, PopHolder, Types, PCs
  <2>2. /\ m_level' \in [Holders -> Levels] /\ m_kind' \in [Holders -> Kinds]
        /\ m_lock' \in [Leases -> Threads \cup {NoThread}]
        /\ m_acquiredLease' \in [Holders -> Leases \cup {NoLease}]
    BY <1>17, <1>a, <1>b DEF unlock, PopHolder, Types
  <2> QED
    BY <1>17, <2>1, <2>2 DEF unlock, Types, PCs
<1>18. CASE UNCHANGED vars
  BY <1>18 DEF vars, Types
<1> QED
  BY <1>1, <1>2, <1>3, <1>4, <1>5, <1>6, <1>7, <1>8, <1>9, <1>10, <1>11, <1>12,
     <1>13, <1>14, <1>15, <1>16, <1>17, <1>18 DEF Next, Step

-----------------------------------------------------------------------------
\* The holder on top of a thread's stack.
LEMMA TopHolder ==
  ASSUME Types, Stack, NEW t \in Threads, pc[t] # "run" \/ depth[t] # 0
  PROVE  /\ depth[t] \in Depths /\ Top(t) \in Holders
         /\ m_kind[Top(t)] \in Kinds
         /\ LockLevel(m_kind[Top(t)]) \in {"Func", "Kind", "Global"}
         /\ LockLevel(m_kind[Top(t)]) = "Global" <=> Concurrently = 0
<1>1. /\ depth[t] \in Depths /\ Top(t) \in Holders /\ m_kind[Top(t)] \in Kinds
  BY DEF Stack, Busy, Types, Depths, Top, Holders
<1> QED
  BY <1>1, LockLevelOfKind

\* What depends only on the stack, the kinds and the configuration stays.
LEMMA Steady ==
  ASSUME UNCHANGED <<depth, m_kind, Concurrently>>
  PROVE  /\ \A t \in Threads : Top(t)' = Top(t) /\ LeaseOf(t)' = LeaseOf(t)
         /\ \A t \in Threads, d \in Depths :
              LeaseFor(<<t, d>>)' = LeaseFor(<<t, d>>)
         /\ \A k \in Kinds : LockLevel(k)' = LockLevel(k)
  BY DEF Top, LeaseOf, LeaseFor, LockLevel

\* A step that only moves a thread on, knowing what it knows then.
LEMMA MoveStep ==
  ASSUME Types, Locks, NEW t \in Threads, NEW q,
         UNCHANGED <<confVars, m_owner, m_held, m_lock, funcVars, threadVars, m_level,
                     m_kind, m_acquiredLease, m_acquiredFunc>>,
         \A d \in Depths : d > depth[t] => ~m_acquiredThread'[<<t, d>>],
         \A u \in Threads \ {t}, d \in Depths :
            m_acquiredThread'[<<u, d>>] = m_acquiredThread[<<u, d>>],
         pc' = [pc EXCEPT ![t] = q], depth[t] # 0,
         pc[t] \notin {"writeOwner", "writeHeld", "dropLease", "unlock"},
         pc[t] = "drop" => q \in {"drop", "dropLease"},
         q \in {"seeOwner", "acquire", "acquireOwner", "tryHeld", "tryHint",
                "lock", "setFlag", "addThread", "drop", "dropLease"},
         q = "dropLease" => ~m_acquiredFunc[Top(t)] /\ ~m_acquiredThread'[Top(t)],
         q = "setFlag" => /\ m_level[Top(t)] = "None" /\ Concurrently # 0
                          /\ Has(t, depth[t], LeaseOf(t)),
         q = "addThread" => pc[t] = "loadThreads",
         q = "seeOwner" => m_held[LeaseOf(t)],
         q \in {"acquire", "acquireOwner", "tryHeld", "tryHint", "lock"} =>
           m_lock[LeaseOf(t)] # t,
         q = "acquireOwner" => m_owner[LeaseOf(t)] # t
  PROVE  Locks'
<1> USE DEF funcVars, confVars, threadVars, Locks
<1>1. /\ \A u \in Threads : Top(u)' = Top(u) /\ LeaseOf(u)' = LeaseOf(u)
      /\ \A u \in Threads, d \in Depths : LeaseFor(<<u, d>>)' = LeaseFor(<<u, d>>)
      /\ \A k \in Kinds : LockLevel(k)' = LockLevel(k)
  BY Steady
<1>2. /\ \A u \in Threads, n \in Depths, l \in Leases : Has(u, n, l)' = Has(u, n, l)
      /\ \A u \in Threads, n \in Depths : HasFlag(u, n)' = HasFlag(u, n)
  BY DEF Has, HasFlag
<1>3. \A u \in Threads : pc'[u] = IF u = t THEN q ELSE pc[u]
  BY DEF Types
<1>4. \A u \in Threads : depth[u] \in 0..MaxDepth
  BY DEF Types
<1>5. Busy' /\ CompleteBelow'
  <2>1. \A u \in Threads : pc[u] # "run" => depth[u] \in Depths
    BY TopHolder
  <2>2. Busy'
    BY <1>1, <1>3, <2>1 DEF Stack, Busy, Top
  <2> QED
    BY <1>3, <2>2 DEF Stack, CompleteBelow
<1>6. CleanAbove'
  BY DEF Stack, CleanAbove
<1>7. HeldOwned'
  BY DEF LeaseInv, HeldOwned
<1>8. LockBacked'
  BY <1>1, <1>2, <1>3 DEF LeaseInv, LockBacked, Has
<1>9. Writing'
  BY <1>1, <1>3 DEF LeaseInv, Writing
<1>10. Acquired' /\ AcquiredOnce'
  BY <1>1, <1>3 DEF LeaseInv, Acquired, AcquiredOnce
<1>11. Learned'
  <2>1. LeaseOf(t) \in Leases
    BY DEF LeaseOf, Leases
  <2> QED
  BY <1>1, <1>3, <2>1 DEF LeaseInv, Learned, HeldOwned
<1>12. LeaseBacked'
  <2>1. \A u \in Threads, d \in Depths : LeaseFor(<<u, d>>) \in Leases
    BY DEF LeaseFor, Leases
  <2> QED
    BY <1>1, <1>2, <2>1 DEF LeaseInv, LeaseBacked
<1>13. LeaseTaken'
  <2>1. \A u \in Threads : pc[u] # "run" => m_kind[Top(u)] \in Kinds
    BY TopHolder
  <2>2. \A u \in Threads :
          Has(u, depth[u], LeaseOf(u))' = Has(u, depth[u], LeaseOf(u))
    BY <1>1 DEF Has
  <2> QED
    BY <1>1, <1>3, <2>1, <2>2 DEF LeaseInv, LeaseTaken
<1>14. FlagOwned'
  BY DEF FlagInv, FlagOwned, HasFlag
<1>15. FlagHolder'
  BY <1>3 DEF FlagInv, FlagHolder, Top
<1>16. FlagTaken'
  BY <1>1, <1>3 DEF FlagInv, FlagTaken
<1>17. FlagBacked'
  BY <1>2, <1>3 DEF FlagInv, FlagBacked, Dropping
<1> QED
  BY <1>5, <1>6, <1>7, <1>8, <1>9, <1>10, <1>11, <1>12, <1>13, <1>14, <1>15,
     <1>16, <1>17 DEF Stack, LeaseInv, FlagInv

\* Completing the holder on top changes only its level.
LEMMA CompleteEffect ==
  ASSUME Types, Stack, NEW t \in Threads, pc[t] # "run", Complete(t)
  PROVE  \A u \in Threads, d \in Depths :
           m_level'[<<u, d>>] = IF u = t /\ d = depth[t]
                                THEN LockLevel(m_kind[Top(t)])
                                ELSE m_level[<<u, d>>]
  BY TopHolder DEF Complete, Types, Top, Holders, Depths

\* A step that completes a holder whose lease and flag are there.
LEMMA CompleteStep ==
  ASSUME Types, Locks, NEW t \in Threads,
         UNCHANGED <<confVars, m_owner, m_held, m_lock, funcVars, threadVars,
                     m_kind, m_acquiredLease, m_acquiredFunc>>,
         \A d \in Depths : d > depth[t] => ~m_acquiredThread'[<<t, d>>],
         \A u \in Threads \ {t}, d \in Depths :
            m_acquiredThread'[<<u, d>>] = m_acquiredThread[<<u, d>>],
         pc[t] \in {"seeOwner", "setFlag", "addThread"},
         pc' = [pc EXCEPT ![t] = "run"],
         Complete(t),
         LockLevel(m_kind[Top(t)]) # "Func" => Has(t, depth[t], LeaseOf(t)),
         Concurrently # 0 => HasFlag(t, depth[t])
  PROVE  Locks'
<1> USE DEF funcVars, confVars, threadVars, Locks
<1>1. /\ \A u \in Threads : Top(u)' = Top(u) /\ LeaseOf(u)' = LeaseOf(u)
      /\ \A u \in Threads, d \in Depths : LeaseFor(<<u, d>>)' = LeaseFor(<<u, d>>)
      /\ \A k \in Kinds : LockLevel(k)' = LockLevel(k)
  BY Steady
<1>2. /\ \A u \in Threads, n \in Depths, l \in Leases : Has(u, n, l)' = Has(u, n, l)
      /\ \A u \in Threads, n \in Depths : HasFlag(u, n)' = HasFlag(u, n)
  BY DEF Has, HasFlag
<1>3. \A u \in Threads : pc'[u] = IF u = t THEN "run" ELSE pc[u]
  BY DEF Types
<1>4. /\ depth[t] \in Depths
      /\ LockLevel(m_kind[Top(t)]) \in {"Func", "Kind", "Global"}
      /\ LockLevel(m_kind[Top(t)]) = "Global" <=> Concurrently = 0
      /\ LeaseOf(t) = LeaseFor(Top(t))
      /\ \A u \in Threads : depth[u] \in 0..MaxDepth
  BY TopHolder DEF LeaseOf, LeaseFor, Types
<1>5. \A u \in Threads, d \in Depths :
        m_level'[<<u, d>>] = IF u = t /\ d = depth[t]
                             THEN LockLevel(m_kind[Top(t)])
                             ELSE m_level[<<u, d>>]
  BY CompleteEffect
<1>6. Busy'
  BY <1>1, <1>3, <1>4, <1>5 DEF Stack, Busy, Top, Depths
<1>7. CompleteBelow'
  BY <1>3, <1>4, <1>5 DEF Stack, CompleteBelow
<1>8. CleanAbove'
  BY <1>4, <1>5 DEF Stack, CleanAbove, Depths
<1>9. HeldOwned'
  BY DEF LeaseInv, HeldOwned
<1>10. LockBacked'
  BY <1>1, <1>3 DEF LeaseInv, LockBacked, Has
<1>11. Writing'
  BY <1>1, <1>3 DEF LeaseInv, Writing
<1>12. Acquired' /\ AcquiredOnce'
  BY <1>1, <1>3 DEF LeaseInv, Acquired, AcquiredOnce
<1>13. Learned'
  BY <1>1, <1>3 DEF LeaseInv, Learned
<1>14. LeaseBacked'
  <2>1. \A u \in Threads, d \in Depths :
          Has(u, d, LeaseFor(<<u, d>>))' = Has(u, d, LeaseFor(<<u, d>>))
    BY <1>1 DEF Has
  <2>2. ASSUME NEW u \in Threads, NEW d \in Depths
        PROVE  /\ m_level'[<<u, d>>] = "Global" => Concurrently = 0
               /\ m_level'[<<u, d>>] \in {"Kind", "Global"} =>
                    Has(u, d, LeaseFor(<<u, d>>))
    <3>1. CASE u = t /\ d = depth[t]
      BY <1>4, <1>5, <3>1 DEF Top
    <3>2. CASE ~(u = t /\ d = depth[t])
      BY <1>5, <3>2 DEF LeaseInv, LeaseBacked
    <3> QED
      BY <3>1, <3>2
  <2> QED
    BY <2>1, <2>2 DEF LeaseBacked
<1>15. LeaseTaken'
  <2>1. \A u \in Threads : pc[u] # "run" => m_kind[Top(u)] \in Kinds
    BY TopHolder
  <2> QED
    BY <1>1, <1>3, <2>1 DEF LeaseInv, LeaseTaken, Has
<1>16. FlagOwned'
  BY DEF FlagInv, FlagOwned, HasFlag
<1>17. FlagHolder'
  BY <1>3 DEF FlagInv, FlagHolder
<1>18. FlagTaken'
  BY <1>1, <1>3 DEF FlagInv, FlagTaken
<1>19. FlagBacked'
  BY <1>2, <1>3, <1>4, <1>5 DEF FlagInv, FlagBacked, Dropping
<1> QED
  BY <1>6, <1>7, <1>8, <1>9, <1>10, <1>11, <1>12, <1>13, <1>14, <1>15,
     <1>16, <1>17, <1>18, <1>19 DEF Stack, LeaseInv, FlagInv

\* What a complete holder rests on depends only on kinds, levels and leases.
LEMMA LeaseBackedSame ==
  ASSUME LeaseBacked, UNCHANGED <<Concurrently, m_kind, m_level, m_acquiredLease>>
  PROVE  LeaseBacked'
<1>1. \A t \in Threads, d \in Depths :
        Has(t, d, LeaseFor(<<t, d>>))' = Has(t, d, LeaseFor(<<t, d>>))
  BY DEF Has, LeaseFor
<1> QED
  BY <1>1 DEF LeaseBacked

\* The mutex is free and the thread locks it.
LEMMA LockStep ==
  ASSUME Types, Locks, NEW t \in Threads, acquireLock(t),
         m_lock[LeaseOf(t)] = NoThread
  PROVE  Locks'
<1> USE DEF funcVars, confVars, threadVars, acquiredVars, Goto, Locks
<1>1. /\ \A u \in Threads : Top(u)' = Top(u) /\ LeaseOf(u)' = LeaseOf(u)
      /\ \A u \in Threads, d \in Depths : LeaseFor(<<u, d>>)' = LeaseFor(<<u, d>>)
      /\ \A k \in Kinds : LockLevel(k)' = LockLevel(k)
  BY Steady DEF acquireLock
<1>2. /\ \A u \in Threads : LeaseOf(u) \in Leases
      /\ \A u \in Threads, d \in Depths : m_acquiredLease[<<u, d>>] # NoLease =>
           m_acquiredLease[<<u, d>>] \in Leases
  BY DEF LeaseOf, Leases, Types, Holders, Depths
<1>3. \A u \in Threads : pc'[u] = IF u = t THEN "writeOwner" ELSE pc[u]
  BY DEF Types, acquireLock
<1>4. \A l \in Leases : m_lock'[l] = IF l = LeaseOf(t) THEN t ELSE m_lock[l]
  BY <1>2 DEF Types, acquireLock
<1>5. /\ pc[t] = "lock"
      /\ UNCHANGED <<confVars, m_owner, m_held, funcVars, threadVars, m_level, m_kind,
                     acquiredVars>>
  BY DEF acquireLock
<1>6. Stack'
  BY <1>1, <1>3, <1>5 DEF Stack, Busy, CompleteBelow, CleanAbove
<1>7. HeldOwned'
  BY <1>2, <1>4, <1>5 DEF LeaseInv, HeldOwned, Writing
<1>8. LockBacked'
  BY <1>1, <1>2, <1>3, <1>4, <1>5 DEF LeaseInv, LockBacked, Has
<1>9. Writing'
  BY <1>1, <1>2, <1>3, <1>4, <1>5 DEF LeaseInv, Writing, HeldOwned
<1>10. Acquired'
  BY <1>1, <1>2, <1>3, <1>4, <1>5 DEF LeaseInv, Acquired, Writing
<1>16. AcquiredOnce'
  BY <1>5 DEF LeaseInv, AcquiredOnce
<1>11. Learned'
  BY <1>1, <1>2, <1>3, <1>4, <1>5 DEF LeaseInv, Learned
<1>12. LeaseBacked'
  BY <1>5, LeaseBackedSame DEF LeaseInv
<1>13. LeaseTaken'
  <2>1. \A u \in Threads : pc[u] # "run" => m_kind[Top(u)] \in Kinds
    BY TopHolder
  <2> QED
    BY <1>1, <1>3, <1>5, <2>1 DEF LeaseInv, LeaseTaken, Has
<1>14. FlagOwned' /\ FlagHolder' /\ FlagTaken'
  BY <1>1, <1>3, <1>5 DEF FlagInv, FlagOwned, FlagHolder, FlagTaken, HasFlag
<1>15. FlagBacked'
  BY <1>3, <1>5 DEF FlagInv, FlagBacked, Dropping, HasFlag
<1> QED
  BY <1>6, <1>7, <1>8, <1>9, <1>10, <1>11, <1>12, <1>13, <1>14, <1>15, <1>16
     DEF LeaseInv, FlagInv

\* The thread that has the mutex writes m_owner.
LEMMA WriteOwnerStep ==
  ASSUME Types, Locks, NEW t \in Threads, acquireWriteOwner(t)
  PROVE  Locks'
<1> USE DEF funcVars, confVars, threadVars, acquiredVars, Goto, Locks
<1>1. /\ \A u \in Threads : Top(u)' = Top(u) /\ LeaseOf(u)' = LeaseOf(u)
      /\ \A u \in Threads, d \in Depths : LeaseFor(<<u, d>>)' = LeaseFor(<<u, d>>)
      /\ \A k \in Kinds : LockLevel(k)' = LockLevel(k)
  BY Steady DEF acquireWriteOwner
<1>2. /\ \A u \in Threads : LeaseOf(u) \in Leases
      /\ \A u \in Threads, d \in Depths : m_acquiredLease[<<u, d>>] # NoLease =>
           m_acquiredLease[<<u, d>>] \in Leases
  BY DEF LeaseOf, Leases, Types, Holders, Depths
<1>3. \A u \in Threads : pc'[u] = IF u = t THEN "writeHeld" ELSE pc[u]
  BY DEF Types, acquireWriteOwner
<1>4. \A l \in Leases : m_owner'[l] = IF l = LeaseOf(t) THEN t ELSE m_owner[l]
  BY <1>2 DEF Types, acquireWriteOwner
<1>5. /\ pc[t] = "writeOwner"
      /\ UNCHANGED <<confVars, m_lock, m_held, funcVars, threadVars, m_level, m_kind,
                     acquiredVars>>
  BY DEF acquireWriteOwner
<1>6. Stack'
  BY <1>1, <1>3, <1>5 DEF Stack, Busy, CompleteBelow, CleanAbove
<1>7. HeldOwned'
  BY <1>2, <1>4, <1>5 DEF LeaseInv, HeldOwned, Writing
<1>8. LockBacked'
  BY <1>1, <1>2, <1>3, <1>4, <1>5 DEF LeaseInv, LockBacked, Has
<1>9. Writing'
  BY <1>1, <1>2, <1>3, <1>4, <1>5 DEF LeaseInv, Writing, HeldOwned
<1>10. Acquired'
  BY <1>1, <1>2, <1>3, <1>4, <1>5 DEF LeaseInv, Acquired, Writing
<1>16. AcquiredOnce'
  BY <1>5 DEF LeaseInv, AcquiredOnce
<1>11. Learned'
  BY <1>1, <1>2, <1>3, <1>4, <1>5 DEF LeaseInv, Learned
<1>12. LeaseBacked'
  BY <1>5, LeaseBackedSame DEF LeaseInv
<1>13. LeaseTaken'
  <2>1. \A u \in Threads : pc[u] # "run" => m_kind[Top(u)] \in Kinds
    BY TopHolder
  <2> QED
    BY <1>1, <1>3, <1>5, <2>1 DEF LeaseInv, LeaseTaken, Has
<1>14. FlagOwned' /\ FlagHolder' /\ FlagTaken'
  BY <1>1, <1>3, <1>5 DEF FlagInv, FlagOwned, FlagHolder, FlagTaken, HasFlag
<1>15. FlagBacked'
  BY <1>3, <1>5 DEF FlagInv, FlagBacked, Dropping, HasFlag
<1> QED
  BY <1>6, <1>7, <1>8, <1>9, <1>10, <1>11, <1>12, <1>13, <1>14, <1>15, <1>16
     DEF LeaseInv, FlagInv

\* The thread that has the mutex sets m_held: the lease is the holder's, which
\* goes on to the flag or is complete.
LEMMA WriteHeldStep ==
  ASSUME Types, Locks, NEW t \in Threads, acquireWriteHeld(t)
  PROVE  Locks'
<1> USE DEF funcVars, confVars, threadVars, acquiredVars, Goto, Locks
<1>1. /\ \A u \in Threads : Top(u)' = Top(u) /\ LeaseOf(u)' = LeaseOf(u)
      /\ \A u \in Threads, d \in Depths : LeaseFor(<<u, d>>)' = LeaseFor(<<u, d>>)
      /\ \A k \in Kinds : LockLevel(k)' = LockLevel(k)
  BY Steady DEF acquireWriteHeld
<1>2. /\ \A u \in Threads : LeaseOf(u) \in Leases /\ LeaseOf(u) # NoLease
      /\ \A u \in Threads, d \in Depths : m_acquiredLease[<<u, d>>] # NoLease =>
           m_acquiredLease[<<u, d>>] \in Leases
      /\ \A u \in Threads : depth[u] \in 0..MaxDepth
      /\ \A l \in Leases : m_held[l] \in BOOLEAN
  BY DEF LeaseOf, Leases, NoLease, Types, Holders, Depths
<1>3. /\ pc[t] = "writeHeld"
      /\ UNCHANGED <<confVars, m_owner, m_lock, funcVars, threadVars, m_kind,
                     m_acquiredFunc, m_acquiredThread>>
  BY DEF acquireWriteHeld, AfterLease
<1>4. /\ depth[t] \in Depths /\ Top(t) = <<t, depth[t]>> /\ Top(t) \in Holders
      /\ LockLevel(m_kind[Top(t)]) \in {"Func", "Kind", "Global"}
      /\ LockLevel(m_kind[Top(t)]) = "Global" <=> Concurrently = 0
      /\ LeaseOf(t) = LeaseFor(Top(t))
  BY <1>3, TopHolder DEF Top, LeaseOf, LeaseFor
<1>5. /\ m_lock[LeaseOf(t)] = t /\ m_owner[LeaseOf(t)] = t
      /\ ~m_held[LeaseOf(t)]
  BY <1>3 DEF LeaseInv, Writing
<1>6. \A u \in Threads, d \in Depths : m_acquiredLease[<<u, d>>] # LeaseOf(t)
  <2> SUFFICES ASSUME NEW u \in Threads, NEW d \in Depths,
                      m_acquiredLease[<<u, d>>] = LeaseOf(t)
               PROVE  FALSE
    OBVIOUS
  <2>1. m_lock[LeaseOf(t)] = u /\ (m_held[LeaseOf(t)] \/ pc[u] = "unlock")
    BY <1>2 DEF LeaseInv, Acquired
  <2> QED
    BY <1>3, <1>5, <2>1
<1>7. m_acquiredLease[Top(t)] = NoLease
  BY <1>4, <1>6 DEF LeaseInv, Acquired
<1>8. \A l \in Leases : m_held'[l] = (l = LeaseOf(t) \/ m_held[l])
  BY <1>2 DEF acquireWriteHeld, Types
<1>9. \A u \in Threads, d \in Depths :
        m_acquiredLease'[<<u, d>>] = IF u = t /\ d = depth[t] THEN LeaseOf(t)
                                     ELSE m_acquiredLease[<<u, d>>]
  BY <1>4 DEF acquireWriteHeld, Types, Holders, Depths
<1>10. /\ \A u \in Threads : u # t => pc'[u] = pc[u]
       /\ \/ /\ pc'[t] = "setFlag" /\ m_level' = m_level
             /\ m_level[Top(t)] = "None" /\ Concurrently # 0
          \/ /\ pc'[t] = "run" /\ Complete(t)
             /\ m_level[Top(t)] # "None" \/ Concurrently = 0
  BY DEF acquireWriteHeld, AfterLease, Types
<1>11. Complete(t) => \A u \in Threads, d \in Depths :
         m_level'[<<u, d>>] = IF u = t /\ d = depth[t]
                              THEN LockLevel(m_kind[Top(t)])
                              ELSE m_level[<<u, d>>]
  BY <1>3, CompleteEffect
<1>12. /\ Has(t, depth[t], LeaseOf(t))'
       /\ \A u \in Threads, n \in 0..MaxDepth : \A l :
            Has(u, n, l) /\ l # NoLease => Has(u, n, l)'
  <2>1. Has(t, depth[t], LeaseOf(t))'
    BY <1>1, <1>2, <1>3, <1>4, <1>9 DEF Has
  <2>2. ASSUME NEW u \in Threads, NEW n \in 0..MaxDepth, NEW l,
               Has(u, n, l), l # NoLease
        PROVE  Has(u, n, l)'
    BY <1>4, <1>7, <1>9, <2>2 DEF Has
  <2> QED
    BY <2>1, <2>2
<1>13. Busy'
  <2>1. \A u \in Threads : pc[u] # "run" => depth[u] \in Depths
    BY TopHolder
  <2> QED
    BY <1>1, <1>3, <1>4, <1>10, <1>11, <2>1 DEF Stack, Busy, Top, Depths
<1>14. CompleteBelow'
  BY <1>2, <1>3, <1>4, <1>10, <1>11 DEF Stack, CompleteBelow
<1>15. CleanAbove'
  BY <1>2, <1>3, <1>4, <1>9, <1>10, <1>11 DEF Stack, CleanAbove, Depths
<1>16. HeldOwned'
  BY <1>3, <1>5, <1>8 DEF LeaseInv, HeldOwned
<1>17. LockBacked'
  BY <1>1, <1>2, <1>3, <1>10, <1>12 DEF LeaseInv, LockBacked, Leases, NoLease
<1>18. Writing'
  <2>1. \A u \in Threads : pc[u] # "run" => depth[u] \in Depths
    BY TopHolder
  <2> QED
    BY <1>1, <1>2, <1>3, <1>4, <1>5, <1>6, <1>8, <1>9, <1>10, <2>1
       DEF LeaseInv, Writing, Top
<1>19. Acquired'
  <2> SUFFICES ASSUME NEW u \in Threads, NEW d \in Depths,
                      m_acquiredLease'[<<u, d>>] # NoLease
               PROVE  LET l == m_acquiredLease'[<<u, d>>]
                      IN  /\ l = LeaseFor(<<u, d>>)
                          /\ m_lock[l] = u /\ m_owner[l] = u
                          /\ m_held'[l] \/ (pc'[u] = "unlock" /\ d = depth[u])
    BY <1>1, <1>3 DEF Acquired
  <2>1. CASE u = t /\ d = depth[t]
    BY <1>2, <1>4, <1>5, <1>8, <1>9, <2>1
  <2>2. CASE ~(u = t /\ d = depth[t])
    BY <1>2, <1>3, <1>8, <1>9, <1>10, <2>2 DEF LeaseInv, Acquired
  <2> QED
    BY <2>1, <2>2
<1>20. AcquiredOnce'
  BY <1>6, <1>9 DEF LeaseInv, AcquiredOnce
<1>21. Learned'
  BY <1>1, <1>3, <1>10 DEF LeaseInv, Learned
<1>22. LeaseBacked'
  <2>1. ASSUME NEW u \in Threads, NEW d \in Depths
        PROVE  /\ m_level'[<<u, d>>] = "Global" => Concurrently' = 0
               /\ m_level'[<<u, d>>] \in {"Kind", "Global"} =>
                    Has(u, d, LeaseFor(<<u, d>>))'
    <3>1. CASE u = t /\ d = depth[t] /\ Complete(t)
      BY <1>1, <1>3, <1>4, <1>11, <1>12, <3>1
    <3>2. CASE ~(u = t /\ d = depth[t] /\ Complete(t))
      <4>1. m_level'[<<u, d>>] = m_level[<<u, d>>]
        BY <1>10, <1>11, <3>2
      <4>2. LeaseFor(<<u, d>>) # NoLease /\ d \in 0..MaxDepth
        BY DEF LeaseFor, NoLease, Depths
      <4> QED
        BY <1>1, <1>3, <1>12, <4>1, <4>2 DEF LeaseInv, LeaseBacked
    <3> QED
      BY <3>1, <3>2
  <2> QED
    BY <2>1 DEF LeaseBacked
<1>23. LeaseTaken'
  <2>1. \A u \in Threads : pc[u] # "run" => m_kind[Top(u)] \in Kinds
    BY TopHolder
  <2> QED
    BY <1>1, <1>2, <1>3, <1>10, <1>12, <2>1 DEF LeaseInv, LeaseTaken
<1>24. FlagOwned' /\ FlagHolder' /\ FlagTaken'
  BY <1>1, <1>3, <1>10 DEF FlagInv, FlagOwned, FlagHolder, FlagTaken, HasFlag
<1>25. FlagBacked'
  <2>1. \A u \in Threads, d \in Depths : HasFlag(u, d)' = HasFlag(u, d)
    BY <1>3 DEF HasFlag
  <2> QED
    BY <1>3, <1>4, <1>10, <1>11, <2>1 DEF FlagInv, FlagBacked, Dropping
<1> QED
  BY <1>13, <1>14, <1>15, <1>16, <1>17, <1>18, <1>19, <1>20, <1>21, <1>22,
     <1>23, <1>24, <1>25 DEF Stack, LeaseInv, FlagInv

\* The flag was clear and the thread sets it: the holder is complete, or goes
\* on to be counted.
LEMMA SetFlagStep ==
  ASSUME Types, Locks, NEW t \in Threads, setFlag(t), func[t] \notin Locked
  PROVE  Locks'
<1> USE DEF leaseVars, funcVars, confVars, threadVars, acquiredVars, Goto, Locks
<1>1. /\ \A u \in Threads : Top(u)' = Top(u) /\ LeaseOf(u)' = LeaseOf(u)
      /\ \A u \in Threads, d \in Depths : LeaseFor(<<u, d>>)' = LeaseFor(<<u, d>>)
      /\ \A k \in Kinds : LockLevel(k)' = LockLevel(k)
  BY Steady DEF setFlag
<1>2. \A u \in Threads : /\ depth[u] \in 0..MaxDepth
                         /\ pc[u] # "run" => depth[u] \in Depths
                         /\ pc[u] # "run" => m_kind[Top(u)] \in Kinds
  BY TopHolder DEF Types
<1>3. /\ pc[t] = "setFlag" /\ func[t] \in Funcs
      /\ UNCHANGED <<confVars, leaseVars, threadVars, m_kind, m_acquiredLease,
                     m_acquiredThread>>
  BY DEF setFlag, Stack, Busy, Types
<1>4. /\ depth[t] \in Depths /\ Top(t) = <<t, depth[t]>> /\ Top(t) \in Holders
      /\ LockLevel(m_kind[Top(t)]) \in {"Func", "Kind", "Global"}
      /\ LockLevel(m_kind[Top(t)]) = "Global" <=> Concurrently = 0
      /\ LeaseOf(t) = LeaseFor(Top(t))
  BY <1>3, TopHolder DEF Top, LeaseOf, LeaseFor
<1>5. /\ Locked' = Locked \cup {func[t]}
      /\ \A u \in Threads : tl_ownedFunc'[u] = IF u = t THEN {func[t]}
                                               ELSE tl_ownedFunc[u]
  <2>1. tl_ownedFunc[t] = {}
    BY DEF FlagInv, FlagOwned
  <2> QED
    BY <2>1 DEF setFlag, Types
<1>6. \A d \in Depths : ~m_acquiredFunc[<<t, d>>]
  BY DEF FlagInv, FlagOwned, FlagHolder
<1>7. /\ m_acquiredFunc'[<<t, depth[t]>>]
      /\ \A u \in Threads, d \in Depths : ~(u = t /\ d = depth[t]) =>
           m_acquiredFunc'[<<u, d>>] = m_acquiredFunc[<<u, d>>]
  BY <1>4 DEF setFlag, Types, Holders, Depths
<1>8. /\ \A u \in Threads : u # t => pc'[u] = pc[u]
      /\ \/ /\ pc'[t] = "loadThreads" /\ m_level' = m_level
            /\ LockLevel(m_kind[Top(t)]) = "Func"
         \/ /\ pc'[t] = "run" /\ Complete(t)
  BY DEF setFlag, Types, Counts
<1>9. Complete(t) => \A u \in Threads, d \in Depths :
         m_level'[<<u, d>>] = IF u = t /\ d = depth[t]
                              THEN LockLevel(m_kind[Top(t)])
                              ELSE m_level[<<u, d>>]
  BY <1>3, CompleteEffect
<1>10. /\ HasFlag(t, depth[t])'
       /\ \A u \in Threads, n \in 0..MaxDepth : HasFlag(u, n) => HasFlag(u, n)'
  BY <1>2, <1>3, <1>4, <1>7 DEF HasFlag, Depths
<1>11. Busy'
  BY <1>1, <1>2, <1>3, <1>4, <1>8, <1>9 DEF Stack, Busy, Top
<1>12. CompleteBelow'
  BY <1>2, <1>3, <1>4, <1>8, <1>9 DEF Stack, CompleteBelow
<1>13. CleanAbove'
  BY <1>2, <1>3, <1>4, <1>7, <1>8, <1>9 DEF Stack, CleanAbove, Depths
<1>14. HeldOwned' /\ AcquiredOnce'
  BY <1>3 DEF LeaseInv, HeldOwned, AcquiredOnce
<1>15. LockBacked'
  BY <1>1, <1>3, <1>8 DEF LeaseInv, LockBacked, Has
<1>16. Writing' /\ Learned'
  BY <1>1, <1>3, <1>8 DEF LeaseInv, Writing, Learned
<1>17. Acquired'
  BY <1>1, <1>3, <1>8 DEF LeaseInv, Acquired
<1>18. LeaseBacked'
  <2>1. \A u \in Threads, d \in Depths :
          Has(u, d, LeaseFor(<<u, d>>))' = Has(u, d, LeaseFor(<<u, d>>))
    BY <1>1, <1>3 DEF Has
  <2>2. ASSUME NEW u \in Threads, NEW d \in Depths
        PROVE  /\ m_level'[<<u, d>>] = "Global" => Concurrently = 0
               /\ m_level'[<<u, d>>] \in {"Kind", "Global"} =>
                    Has(u, d, LeaseFor(<<u, d>>))
    <3>1. CASE u = t /\ d = depth[t] /\ Complete(t)
      BY <1>3, <1>4, <1>9, <3>1 DEF LeaseInv, LeaseTaken
    <3>2. CASE ~(u = t /\ d = depth[t] /\ Complete(t))
      BY <1>8, <1>9, <3>2 DEF LeaseInv, LeaseBacked
    <3> QED
      BY <3>1, <3>2
  <2> QED
    BY <1>3, <2>1, <2>2 DEF LeaseBacked
<1>19. LeaseTaken'
  <2>1. \A u \in Threads :
          Has(u, depth[u], LeaseOf(u))' = Has(u, depth[u], LeaseOf(u))
    BY <1>1, <1>3 DEF Has
  <2> QED
    BY <1>1, <1>2, <1>3, <1>8, <2>1 DEF LeaseInv, LeaseTaken
<1>20. FlagOwned'
  BY <1>2, <1>3, <1>5, <1>10 DEF FlagInv, FlagOwned
<1>21. FlagHolder'
  BY <1>3, <1>5, <1>6, <1>7, <1>8 DEF FlagInv, FlagHolder
<1>22. FlagTaken'
  BY <1>1, <1>2, <1>4, <1>7, <1>8 DEF FlagInv, FlagTaken, Top
<1>23. FlagBacked'
  <2>1. \A n \in Depths : n \in 0..MaxDepth
    BY DEF Depths
  <2> QED
    BY <1>3, <1>4, <1>8, <1>9, <1>10, <2>1 DEF FlagInv, FlagBacked, Dropping
<1> QED
  BY <1>11, <1>12, <1>13, <1>14, <1>15, <1>16, <1>17, <1>18, <1>19, <1>20, <1>21, <1>22,
     <1>23 DEF Stack, LeaseInv, FlagInv

\* The holder that has set the flag clears it.
LEMMA DropFuncStep ==
  ASSUME Types, Locks, NEW t \in Threads, dropFunc(t), m_acquiredFunc[Top(t)]
  PROVE  Locks'
<1> USE DEF leaseVars, funcVars, confVars, threadVars, acquiredVars, Goto, Locks
<1>1. /\ \A u \in Threads : Top(u)' = Top(u) /\ LeaseOf(u)' = LeaseOf(u)
      /\ \A u \in Threads, d \in Depths : LeaseFor(<<u, d>>)' = LeaseFor(<<u, d>>)
      /\ \A k \in Kinds : LockLevel(k)' = LockLevel(k)
  BY Steady DEF dropFunc
<1>2. \A u \in Threads : /\ depth[u] \in 0..MaxDepth
                         /\ pc[u] # "run" => depth[u] \in Depths
                         /\ pc[u] # "run" => m_kind[Top(u)] \in Kinds
  BY TopHolder DEF Types
<1>3. /\ pc[t] = "drop" /\ ~m_acquiredThread[Top(t)]
      /\ UNCHANGED <<confVars, leaseVars, threadVars, m_level, m_kind, m_acquiredLease,
                     m_acquiredThread>>
  BY DEF dropFunc
<1>4. depth[t] \in Depths /\ Top(t) = <<t, depth[t]>> /\ Top(t) \in Holders
  BY <1>3, TopHolder DEF Top
<1>5. /\ func[t] \in tl_ownedFunc[t]
      /\ \A e \in Depths : m_acquiredFunc[<<t, e>>] => e = depth[t]
  BY <1>4 DEF FlagInv, FlagHolder
<1>6. /\ Locked' = Locked \ {func[t]}
      /\ \A u \in Threads : tl_ownedFunc'[u] = IF u = t THEN {}
                                               ELSE tl_ownedFunc[u]
  <2>1. tl_ownedFunc[t] \ {func[t]} = {}
    BY DEF FlagInv, FlagOwned
  <2> QED
    BY <2>1 DEF dropFunc, Types
<1>7. /\ ~m_acquiredFunc'[<<t, depth[t]>>]
      /\ \A u \in Threads, d \in Depths : ~(u = t /\ d = depth[t]) =>
           m_acquiredFunc'[<<u, d>>] = m_acquiredFunc[<<u, d>>]
  BY <1>4 DEF dropFunc, Types, Holders, Depths
<1>8. \A u \in Threads : pc'[u] = IF u = t THEN "dropLease" ELSE pc[u]
  BY DEF dropFunc, Types
<1>9. /\ \A u \in Threads, n \in 0..MaxDepth : HasFlag(u, n) /\ u # t => HasFlag(u, n)'
      /\ \A n \in Depths : HasFlag(t, n) /\ n < depth[t] => HasFlag(t, n)'
  BY <1>2, <1>3, <1>4, <1>7 DEF HasFlag, Depths
<1>10. Stack'
  BY <1>1, <1>2, <1>3, <1>4, <1>7, <1>8 DEF Stack, Busy, CompleteBelow, CleanAbove
<1>14. HeldOwned' /\ AcquiredOnce'
  BY <1>3 DEF LeaseInv, HeldOwned, AcquiredOnce
<1>15. LockBacked'
  BY <1>1, <1>3, <1>8 DEF LeaseInv, LockBacked, Has
<1>16. Writing' /\ Learned'
  BY <1>1, <1>3, <1>8 DEF LeaseInv, Writing, Learned
<1>17. Acquired'
  BY <1>1, <1>3, <1>8 DEF LeaseInv, Acquired
<1>18. LeaseBacked'
  BY <1>3, LeaseBackedSame DEF LeaseInv
<1>19. LeaseTaken'
  <2>1. \A u \in Threads :
          Has(u, depth[u], LeaseOf(u))' = Has(u, depth[u], LeaseOf(u))
    BY <1>1, <1>3 DEF Has
  <2> QED
    BY <1>1, <1>2, <1>3, <1>8, <2>1 DEF LeaseInv, LeaseTaken
<1>20. FlagOwned'
  BY <1>2, <1>3, <1>5, <1>6, <1>9 DEF FlagInv, FlagOwned
<1>21. FlagHolder'
  BY <1>3, <1>5, <1>6, <1>7, <1>8 DEF FlagInv, FlagHolder
<1>22. FlagTaken'
  BY <1>1, <1>2, <1>7, <1>8 DEF FlagInv, FlagTaken, Top
<1>23. FlagBacked'
  <2>1. \A n \in Depths : n \in 0..MaxDepth /\ (n < depth[t] \/ n = depth[t] \/ n > depth[t])
    BY <1>2 DEF Depths
  <2> QED
    BY <1>3, <1>4, <1>8, <1>9, <2>1 DEF FlagInv, FlagBacked, Dropping, Stack, CleanAbove
<1> QED
  BY <1>10, <1>14, <1>15, <1>16, <1>17, <1>18, <1>19, <1>20, <1>21, <1>22,
     <1>23 DEF LeaseInv, FlagInv

\* The destructor clears m_held and keeps the mutex for the moment.
LEMMA DropHeldStep ==
  ASSUME Types, Locks, NEW t \in Threads, dropHeld(t),
         m_acquiredLease[Top(t)] # NoLease
  PROVE  Locks'
<1> USE DEF leaseVars, funcVars, confVars, threadVars, acquiredVars, Goto, Locks
<1>1. /\ \A u \in Threads : Top(u)' = Top(u) /\ LeaseOf(u)' = LeaseOf(u)
      /\ \A u \in Threads, d \in Depths : LeaseFor(<<u, d>>)' = LeaseFor(<<u, d>>)
      /\ \A k \in Kinds : LockLevel(k)' = LockLevel(k)
  BY Steady DEF dropHeld
<1>2. \A u \in Threads : /\ depth[u] \in 0..MaxDepth
                         /\ pc[u] # "run" => depth[u] \in Depths
                         /\ pc[u] # "run" => m_kind[Top(u)] \in Kinds
  BY TopHolder DEF Types
<1>3. /\ pc[t] = "dropLease"
      /\ UNCHANGED <<confVars, m_owner, m_lock, funcVars, threadVars, m_level, m_kind,
                     acquiredVars>>
  BY DEF dropHeld
<1>4. /\ depth[t] \in Depths /\ Top(t) = <<t, depth[t]>> /\ Top(t) \in Holders
      /\ m_acquiredLease[Top(t)] \in Leases
      /\ \A l \in Leases : m_held[l] \in BOOLEAN
      /\ \A u \in Threads, d \in Depths : m_acquiredLease[<<u, d>>] # NoLease =>
           m_acquiredLease[<<u, d>>] \in Leases
  BY <1>3, TopHolder DEF Top, Types, Holders, Depths
<1>5. \A u \in Threads : pc'[u] = IF u = t THEN "unlock" ELSE pc[u]
  BY DEF dropHeld, Types
<1>6. /\ ~m_held'[m_acquiredLease[Top(t)]]
      /\ \A l \in Leases : l # m_acquiredLease[Top(t)] => m_held'[l] = m_held[l]
  BY <1>4 DEF dropHeld, Types
<1>7. Stack'
  BY <1>1, <1>3, <1>4, <1>5 DEF Stack, Busy, CompleteBelow, CleanAbove
<1>8. HeldOwned'
  BY <1>3, <1>6 DEF LeaseInv, HeldOwned
<1>9. LockBacked'
  BY <1>1, <1>3, <1>5 DEF LeaseInv, LockBacked, Has
<1>10. Writing'
  <2>1. \A u \in Threads : LeaseOf(u) \in Leases
    BY DEF LeaseOf, Leases
  <2> QED
    BY <1>1, <1>2, <1>3, <1>4, <1>5, <1>6, <2>1 DEF LeaseInv, Writing, Top
<1>11. Acquired'
  <2>1. ASSUME NEW u \in Threads, NEW d \in Depths, ~(u = t /\ d = depth[t]),
               m_acquiredLease[<<u, d>>] # NoLease
        PROVE  m_acquiredLease[<<u, d>>] # m_acquiredLease[Top(t)]
    BY <1>4, <2>1 DEF LeaseInv, Acquired, AcquiredOnce
  <2> QED
    BY <1>1, <1>3, <1>4, <1>5, <1>6, <2>1 DEF LeaseInv, Acquired
<1>12. AcquiredOnce' /\ Learned'
  BY <1>1, <1>3, <1>5 DEF LeaseInv, AcquiredOnce, Learned
<1>13. LeaseBacked'
  BY <1>3, LeaseBackedSame DEF LeaseInv
<1>14. LeaseTaken'
  <2>1. \A u \in Threads :
          Has(u, depth[u], LeaseOf(u))' = Has(u, depth[u], LeaseOf(u))
    BY <1>1, <1>3 DEF Has
  <2> QED
    BY <1>1, <1>2, <1>3, <1>5, <2>1 DEF LeaseInv, LeaseTaken
<1>15. FlagOwned' /\ FlagHolder' /\ FlagTaken'
  BY <1>1, <1>3, <1>5 DEF FlagInv, FlagOwned, FlagHolder, FlagTaken, HasFlag
<1>16. FlagBacked'
  BY <1>3, <1>5 DEF FlagInv, FlagBacked, Dropping, HasFlag
<1> QED
  BY <1>7, <1>8, <1>9, <1>10, <1>11, <1>12, <1>13, <1>14, <1>15, <1>16
     DEF LeaseInv, FlagInv

\* The end of a holder changes the top of the stack.
LEMMA PopEffect ==
  ASSUME Types, Stack, NEW t \in Threads, NEW p, p # "run", PopHolder(t, p)
  PROVE  /\ \A u \in Threads, d \in Depths :
              /\ m_level'[<<u, d>>] = IF u = t /\ d = depth[t] THEN "None"
                                      ELSE m_level[<<u, d>>]
              /\ m_kind'[<<u, d>>] = IF u = t /\ d = depth[t] THEN "Live"
                                     ELSE m_kind[<<u, d>>]
         /\ \A u \in Threads :
              /\ pc'[u] = IF u = t THEN "run" ELSE pc[u]
              /\ depth'[u] = IF u = t THEN depth[t] - 1 ELSE depth[u]
              /\ func'[u] = IF u = t /\ depth[t] = 1 THEN NoFunc ELSE func[u]
  BY TopHolder DEF PopHolder, Goto, Types, Top, Holders, Depths

\* The end of a holder that has given back what it had: its lease, if it has
\* one, is unlocked in the same step.
LEMMA PopStep ==
  ASSUME Types, Locks, NEW t \in Threads, NEW p,
         p \in {"dropLease", "unlock"}, PopHolder(t, p),
         UNCHANGED <<confVars, m_owner, m_held, funcVars, m_acquiredFunc,
                     m_acquiredThread>>,
         m_acquiredLease[Top(t)] = NoLease \/ pc[t] = "unlock",
         \A l \in Leases : m_lock'[l] = IF l = m_acquiredLease[Top(t)]
                                        THEN NoThread ELSE m_lock[l],
         \A u \in Threads, d \in Depths :
           m_acquiredLease'[<<u, d>>] = IF u = t /\ d = depth[t] THEN NoLease
                                        ELSE m_acquiredLease[<<u, d>>]
  PROVE  Locks'
<1> USE DEF leaseVars, funcVars, confVars, Goto, Locks
<1>1. pc[t] = p /\ p # "run"
  BY DEF PopHolder
<1>2. \A u \in Threads : /\ depth[u] \in 0..MaxDepth
                         /\ pc[u] # "run" => depth[u] \in Depths
                         /\ pc[u] # "run" => m_kind[Top(u)] \in Kinds
  BY TopHolder DEF Types
<1>3. depth[t] \in Depths /\ Top(t) = <<t, depth[t]>> /\ Top(t) \in Holders
  BY <1>1, TopHolder DEF Top
<1>4. /\ \A u \in Threads, d \in Depths :
           /\ m_level'[<<u, d>>] = IF u = t /\ d = depth[t] THEN "None"
                                   ELSE m_level[<<u, d>>]
           /\ m_kind'[<<u, d>>] = IF u = t /\ d = depth[t] THEN "Live"
                                  ELSE m_kind[<<u, d>>]
      /\ \A u \in Threads :
           /\ pc'[u] = IF u = t THEN "run" ELSE pc[u]
           /\ depth'[u] = IF u = t THEN depth[t] - 1 ELSE depth[u]
           /\ func'[u] = IF u = t /\ depth[t] = 1 THEN NoFunc ELSE func[u]
  BY <1>1, PopEffect
<1>5. /\ \A u \in Threads : u # t =>
           /\ Top(u)' = Top(u)
           /\ pc[u] # "run" => LeaseOf(u)' = LeaseOf(u)
           /\ pc[u] # "run" => LockLevel(m_kind[Top(u)])' = LockLevel(m_kind[Top(u)])
      /\ \A u \in Threads, d \in Depths : ~(u = t /\ d = depth[t]) =>
           LeaseFor(<<u, d>>)' = LeaseFor(<<u, d>>)
  BY <1>2, <1>4 DEF Top, LeaseOf, LeaseFor, LockLevel
<1>6. /\ ~m_acquiredFunc[Top(t)] /\ ~m_acquiredThread[Top(t)]
  BY <1>1, <1>3 DEF FlagInv, FlagHolder, Stack, Busy
<1>9. Busy'
  <2> SUFFICES ASSUME NEW u \in Threads
               PROVE  /\ pc'[u] # "run" => depth'[u] # 0
                      /\ depth'[u] = 0 <=> func'[u] = NoFunc
                      /\ pc'[u] \in {"setFlag", "loadThreads", "addThread"} =>
                           m_level'[Top(u)'] = "None" /\ Concurrently # 0
                      /\ pc'[u] \in {"dropLease", "unlock"} =>
                           ~m_acquiredThread[Top(u)']
    BY DEF Busy
  <2>1. CASE u = t
    BY <1>2, <1>3, <1>4, <2>1 DEF Stack, Busy, Depths
  <2>2. CASE u # t
    BY <1>2, <1>4, <1>5, <2>2 DEF Stack, Busy, Top
  <2> QED
    BY <2>1, <2>2
<1>10. CleanAbove'
  BY <1>2, <1>3, <1>4, <1>6 DEF Stack, CleanAbove, Depths
<1>11. CompleteBelow'
  BY <1>2, <1>3, <1>4 DEF Stack, CompleteBelow, Depths
<1>12. /\ \A u \in Threads : LeaseOf(u) \in Leases
       /\ \A u \in Threads, d \in Depths :
            /\ m_acquiredLease[<<u, d>>] # NoLease =>
                 m_acquiredLease[<<u, d>>] \in Leases
            /\ LeaseFor(<<u, d>>) \in Leases
       /\ NoLease \notin Leases
  BY DEF LeaseOf, LeaseFor, Leases, NoLease, Types, Holders, Depths
<1>13. m_acquiredLease[Top(t)] # NoLease =>
         /\ pc[t] = "unlock"
         /\ m_lock[m_acquiredLease[Top(t)]] = t
         /\ m_owner[m_acquiredLease[Top(t)]] = t
         /\ ~m_held[m_acquiredLease[Top(t)]]
         /\ \A u \in Threads, d \in Depths : ~(u = t /\ d = depth[t]) =>
              m_acquiredLease[<<u, d>>] # m_acquiredLease[Top(t)]
  <2>1. m_acquiredLease[Top(t)] # NoLease =>
          /\ pc[t] = "unlock" /\ m_lock[m_acquiredLease[Top(t)]] = t
          /\ m_owner[m_acquiredLease[Top(t)]] = t
          /\ ~m_held[m_acquiredLease[Top(t)]]
    BY <1>3 DEF LeaseInv, Acquired, Writing
  <2> QED
    BY <1>3, <2>1 DEF LeaseInv, Acquired, AcquiredOnce
<1>14. HeldOwned'
  BY <1>12, <1>13 DEF LeaseInv, HeldOwned
<1>15. LockBacked'
  <2> SUFFICES ASSUME NEW u \in Threads, NEW l \in Leases, m_lock'[l] = u
               PROVE  \/ pc'[u] \in {"writeOwner", "writeHeld"} /\ LeaseOf(u)' = l
                      \/ Has(u, depth[u], l)'
    BY DEF LockBacked
  <2>1. m_lock[l] = u /\ l # m_acquiredLease[Top(t)]
    OBVIOUS
  <2>2. CASE u = t
    <3>1. PICK d \in Depths : d <= depth[t] /\ m_acquiredLease[<<t, d>>] = l
      BY <1>1, <2>1, <2>2 DEF LeaseInv, LockBacked, Has
    <3>2. d # depth[t]
      BY <1>3, <2>1, <3>1
    <3>3. d <= depth[t] - 1 /\ m_acquiredLease'[<<t, d>>] = l
      BY <1>2, <3>1, <3>2 DEF Depths
    <3> QED
      BY <1>4, <2>2, <3>3 DEF Has
  <2>3. CASE u # t
    BY <1>4, <1>5, <2>1, <2>3 DEF LeaseInv, LockBacked, Has
  <2> QED
    BY <2>2, <2>3
<1>16. Writing'
  <2> SUFFICES ASSUME NEW u \in Threads, u # t
               PROVE  /\ pc[u] \in {"writeOwner", "writeHeld"} =>
                           m_lock'[LeaseOf(u)] = u /\ ~m_held[LeaseOf(u)]
                      /\ pc[u] = "writeHeld" => m_owner[LeaseOf(u)] = u
                      /\ pc[u] = "unlock" =>
                           /\ m_acquiredLease'[Top(u)] # NoLease
                           /\ ~m_held[m_acquiredLease'[Top(u)]]
    BY <1>4, <1>5 DEF Writing
  <2> QED
    BY <1>2, <1>12, <1>13 DEF LeaseInv, Writing, Top
<1>17. Acquired'
  BY <1>1, <1>4, <1>5, <1>12, <1>13 DEF LeaseInv, Acquired
<1>18. AcquiredOnce'
  BY DEF LeaseInv, AcquiredOnce
<1>19. Learned'
  <2> SUFFICES ASSUME NEW u \in Threads, u # t
               PROVE  /\ (pc[u] = "seeOwner" /\ m_owner[LeaseOf(u)] = u) =>
                           m_lock'[LeaseOf(u)] = u
                      /\ pc[u] \in {"acquire", "acquireOwner", "tryHeld",
                                    "tryHint", "lock"} =>
                           m_lock'[LeaseOf(u)] # u
                      /\ pc[u] = "acquireOwner" => m_owner[LeaseOf(u)] # u
    BY <1>4, <1>5 DEF Learned
  <2> QED
    BY <1>12, <1>13 DEF LeaseInv, Learned
<1>20. LeaseBacked'
  <2> SUFFICES ASSUME NEW u \in Threads, NEW d \in Depths
               PROVE  /\ m_level'[<<u, d>>] = "Global" => Concurrently = 0
                      /\ m_level'[<<u, d>>] \in {"Kind", "Global"} =>
                           Has(u, d, LeaseFor(<<u, d>>))'
    BY DEF LeaseBacked
  <2>1. CASE u # t \/ d < depth[t]
    <3>1. LeaseFor(<<u, d>>)' = LeaseFor(<<u, d>>)
      BY <1>2, <1>5, <2>1 DEF Depths
    <3>2. Has(u, d, LeaseFor(<<u, d>>)) => Has(u, d, LeaseFor(<<u, d>>))'
      BY <1>2, <2>1, <3>1, <1>12 DEF Has, Depths
    <3>3. m_level'[<<u, d>>] = m_level[<<u, d>>]
      BY <1>2, <1>4, <2>1 DEF Depths
    <3> QED
      BY <3>1, <3>2, <3>3 DEF LeaseInv, LeaseBacked
  <2>2. CASE u = t /\ d >= depth[t]
    BY <1>2, <1>4, <2>2 DEF Stack, CleanAbove, Depths
  <2> QED
    BY <1>2, <2>1, <2>2 DEF Depths
<1>21. LeaseTaken'
  <2> SUFFICES ASSUME NEW u \in Threads, u # t, pc[u] # "run"
               PROVE  /\ (pc[u] = "setFlag" /\ LockLevel(m_kind[Top(u)]) # "Func") =>
                           Has(u, depth[u], LeaseOf(u))'
                      /\ pc[u] \in {"loadThreads", "addThread"} =>
                           LockLevel(m_kind[Top(u)]) = "Func"
    BY <1>4, <1>5 DEF LeaseTaken
  <2>1. Has(u, depth[u], LeaseOf(u)) => Has(u, depth[u], LeaseOf(u))'
    BY <1>4, <1>5 DEF Has
  <2> QED
    BY <2>1 DEF LeaseInv, LeaseTaken
<1>22. FlagOwned'
  <2> SUFFICES ASSUME NEW u \in Threads, NEW f \in tl_ownedFunc[u]
               PROVE  f = func'[u] /\ HasFlag(u, depth[u])'
    BY DEF FlagInv, FlagOwned
  <2>1. f = func[u] /\ HasFlag(u, depth[u])
    BY DEF FlagInv, FlagOwned
  <2>2. PICK d \in Depths : d <= depth[u] /\ m_acquiredFunc[<<u, d>>]
    BY <2>1 DEF HasFlag
  <2>3. CASE u = t
    <3>1. d # depth[t]
      BY <1>3, <1>6, <2>2, <2>3
    <3>2. d <= depth[t] - 1 /\ depth[t] # 1
      BY <1>2, <2>2, <2>3, <3>1 DEF Depths
    <3> QED
      BY <1>4, <2>1, <2>2, <2>3, <3>2 DEF HasFlag
  <2>4. CASE u # t
    BY <1>4, <2>1, <2>2, <2>4 DEF HasFlag
  <2> QED
    BY <2>3, <2>4
<1>23. FlagHolder'
  <2> SUFFICES ASSUME NEW u \in Threads, NEW d \in Depths, m_acquiredFunc[<<u, d>>]
               PROVE  /\ func'[u] \in tl_ownedFunc[u]
                      /\ d = depth'[u] => pc'[u] \notin {"dropLease", "unlock"}
    BY DEF FlagInv, FlagHolder
  <2>1. CASE u = t
    <3>1. d # depth[t] /\ d <= depth[t]
      BY <1>2, <1>3, <1>6, <2>1 DEF Stack, CleanAbove, Depths
    <3>2. depth[t] # 1
      BY <1>2, <3>1 DEF Depths
    <3> QED
      BY <1>4, <2>1, <3>2 DEF FlagInv, FlagHolder
  <2>2. CASE u # t
    BY <1>4, <2>2 DEF FlagInv, FlagHolder
  <2> QED
    BY <2>1, <2>2
<1>24. FlagTaken'
  BY <1>4, <1>5 DEF FlagInv, FlagTaken
<1>25. FlagBacked'
  <2> SUFFICES ASSUME Concurrently # 0, NEW u \in Threads, NEW d \in Depths,
                      m_level'[<<u, d>>] # "None",
                      d # depth'[u] \/ ~Dropping(u)'
               PROVE  HasFlag(u, d)
    BY DEF FlagBacked, HasFlag
  <2>1. CASE u = t
    BY <1>2, <1>4, <2>1 DEF FlagInv, FlagBacked, Stack, CleanAbove, Depths
  <2>2. CASE u # t
    BY <1>4, <2>2 DEF FlagInv, FlagBacked, Dropping
  <2> QED
    BY <2>1, <2>2
<1> QED
  BY <1>9, <1>10, <1>11, <1>14, <1>15, <1>16, <1>17, <1>18, <1>19, <1>20,
     <1>21, <1>22, <1>23, <1>24, <1>25 DEF Stack, LeaseInv, FlagInv

\* A constructor begins: a new holder on top of the stack.
LEMMA LeaseHolderStep ==
  ASSUME Types, Locks, NEW t \in Threads, NEW f \in Funcs, NEW k \in Kinds,
         LeaseHolder(t, f, k)
  PROVE  Locks'
<1> USE DEF leaseVars, funcVars, confVars, acquiredVars, Locks
<1>1. /\ pc[t] = "run" /\ depth[t] < MaxDepth
      /\ depth[t] > 0 => f = func[t]
      /\ UNCHANGED <<confVars, leaseVars, funcVars, m_level, acquiredVars>>
  BY DEF LeaseHolder, Goto
<1>2. \A u \in Threads : /\ depth[u] \in 0..MaxDepth
                         /\ pc[u] # "run" => depth[u] \in Depths
                         /\ pc[u] # "run" => m_kind[Top(u)] \in Kinds
  BY TopHolder DEF Types
<1>3. /\ \A u \in Threads :
           /\ depth'[u] = IF u = t THEN depth[t] + 1 ELSE depth[u]
           /\ func'[u] = IF u = t THEN f ELSE func[u]
           /\ u # t => pc'[u] = pc[u]
      /\ \A u \in Threads, d \in Depths :
           m_kind'[<<u, d>>] = IF u = t /\ d = depth[t] + 1 THEN k
                               ELSE m_kind[<<u, d>>]
  BY DEF LeaseHolder, Goto, Types, Holders, Depths
<1>4. \/ pc'[t] = "setFlag" /\ LockLevel(k) = "Func"
      \/ pc'[t] = "seeHeld"
  BY DEF LeaseHolder, Goto, Types
<1>5. depth[t] + 1 \in Depths /\ Top(t)' = <<t, depth[t] + 1>>
  <2>1. depth[t] \in Int /\ 0 <= depth[t]
    BY <1>2
  <2>2. depth[t] + 1 \in Depths
    BY <1>1, <2>1 DEF Depths
  <2> QED
    BY <1>3, <2>2 DEF Top
<1>6. /\ m_level[<<t, depth[t] + 1>>] = "None"
      /\ m_acquiredLease[<<t, depth[t] + 1>>] = NoLease
      /\ ~m_acquiredFunc[<<t, depth[t] + 1>>]
      /\ ~m_acquiredThread[<<t, depth[t] + 1>>]
  BY <1>2, <1>5 DEF Stack, CleanAbove, Depths
<1>7. /\ \A u \in Threads : u # t =>
           /\ Top(u)' = Top(u)
           /\ pc[u] # "run" => LeaseOf(u)' = LeaseOf(u)
           /\ pc[u] # "run" => LockLevel(m_kind[Top(u)])' = LockLevel(m_kind[Top(u)])
      /\ \A u \in Threads, d \in Depths : ~(u = t /\ d = depth[t] + 1) =>
           LeaseFor(<<u, d>>)' = LeaseFor(<<u, d>>)
  BY <1>1, <1>2, <1>3 DEF Top, LeaseOf, LeaseFor, LockLevel
<1>8. LockLevel(m_kind[Top(t)])' = LockLevel(k)
  BY <1>1, <1>3, <1>5 DEF LockLevel
<1>9. \A u \in Threads, l \in Leases : Has(u, depth[u], l) => Has(u, depth[u], l)'
  BY <1>1, <1>2, <1>3 DEF Has, Depths
<1>10. Busy'
  <2> SUFFICES ASSUME NEW u \in Threads
               PROVE  /\ pc'[u] # "run" => depth'[u] # 0
                      /\ depth'[u] = 0 <=> func'[u] = NoFunc
                      /\ pc'[u] \in {"setFlag", "loadThreads", "addThread"} =>
                           m_level[Top(u)'] = "None" /\ Concurrently # 0
                      /\ pc'[u] \in {"dropLease", "unlock"} =>
                           ~m_acquiredThread[Top(u)']
    BY <1>1 DEF Busy
  <2>1. CASE u = t
    <3>1. LockLevel(k) = "Func" => Concurrently # 0
      BY LockLevelOfKind
    <3> QED
      BY <1>2, <1>3, <1>4, <1>5, <1>6, <2>1, <3>1
  <2>2. CASE u # t
    BY <1>3, <1>7, <2>2 DEF Stack, Busy
  <2> QED
    BY <2>1, <2>2
<1>11. CleanAbove' /\ CompleteBelow'
  BY <1>1, <1>2, <1>3, <1>4 DEF Stack, CleanAbove, CompleteBelow, Depths
<1>12. HeldOwned' /\ AcquiredOnce'
  BY <1>1 DEF LeaseInv, HeldOwned, AcquiredOnce
<1>13. LockBacked'
  BY <1>1, <1>3, <1>7, <1>9 DEF LeaseInv, LockBacked
<1>14. Writing' /\ Learned'
  BY <1>1, <1>3, <1>4, <1>7 DEF LeaseInv, Writing, Learned
<1>15. Acquired'
  BY <1>1, <1>3, <1>6, <1>7 DEF LeaseInv, Acquired
<1>16. LeaseBacked'
  <2> SUFFICES ASSUME NEW u \in Threads, NEW d \in Depths, m_level[<<u, d>>] # "None"
               PROVE  /\ m_level[<<u, d>>] = "Global" => Concurrently = 0
                      /\ m_level[<<u, d>>] \in {"Kind", "Global"} =>
                           Has(u, d, LeaseFor(<<u, d>>))'
    BY <1>1 DEF LeaseBacked
  <2>1. LeaseFor(<<u, d>>)' = LeaseFor(<<u, d>>)
    BY <1>6, <1>7
  <2>2. Has(u, d, LeaseFor(<<u, d>>))' = Has(u, d, LeaseFor(<<u, d>>))
    BY <1>1, <2>1 DEF Has
  <2> QED
    BY <2>2 DEF LeaseInv, LeaseBacked
<1>17. LeaseTaken'
  <2>1. ASSUME NEW u \in Threads, u # t, pc[u] # "run"
        PROVE  Has(u, depth[u], LeaseOf(u))' = Has(u, depth[u], LeaseOf(u))
    BY <1>1, <1>3, <1>7, <2>1 DEF Has
  <2> QED
    BY <1>3, <1>4, <1>7, <1>8, <2>1 DEF LeaseInv, LeaseTaken
<1>18. \A d \in Depths : m_acquiredFunc[<<t, d>>] => f = func[t]
  BY <1>1, <1>2 DEF Stack, CleanAbove, Depths
<1>19. FlagOwned'
  <2> SUFFICES ASSUME NEW u \in Threads, NEW g \in tl_ownedFunc[u]
               PROVE  g = func'[u] /\ HasFlag(u, depth[u])'
    BY <1>1 DEF FlagInv, FlagOwned
  <2>1. g = func[u] /\ HasFlag(u, depth[u])
    BY DEF FlagInv, FlagOwned
  <2>2. PICK d \in Depths : d <= depth[u] /\ m_acquiredFunc[<<u, d>>]
    BY <2>1 DEF HasFlag
  <2>3. d <= depth'[u] /\ m_acquiredFunc'[<<u, d>>]
    BY <1>1, <1>2, <1>3, <2>2 DEF Depths
  <2> QED
    BY <1>3, <1>18, <2>1, <2>2, <2>3 DEF HasFlag
<1>20. FlagHolder'
  BY <1>1, <1>3, <1>4, <1>18 DEF FlagInv, FlagHolder
<1>21. FlagTaken'
  BY <1>1, <1>3, <1>4, <1>7 DEF FlagInv, FlagTaken
<1>22. FlagBacked'
  <2> SUFFICES ASSUME Concurrently # 0, NEW u \in Threads, NEW d \in Depths,
                      m_level[<<u, d>>] # "None",
                      d # depth'[u] \/ ~Dropping(u)'
               PROVE  HasFlag(u, d)
    BY <1>1 DEF FlagBacked, HasFlag
  <2>1. CASE u = t
    BY <1>1, <2>1 DEF FlagInv, FlagBacked, Dropping
  <2>2. CASE u # t
    BY <1>3, <2>2 DEF FlagInv, FlagBacked, Dropping
  <2> QED
    BY <2>1, <2>2
<1> QED
  BY <1>10, <1>11, <1>12, <1>13, <1>14, <1>15, <1>16, <1>17, <1>19, <1>20,
     <1>21, <1>22 DEF Stack, LeaseInv, FlagInv

\* The translator has another kind in mind for the holder on top.
LEMMA CheckKindStep ==
  ASSUME Types, Locks, NEW t \in Threads, NEW k \in Kinds, checkKind(t, k)
  PROVE  Locks'
<1> USE DEF leaseVars, funcVars, confVars, threadVars, acquiredVars, Locks
<1>1. /\ pc[t] = "run" /\ depth[t] # 0
      /\ k # "Optimize" /\ m_kind[Top(t)] # "Optimize"
      /\ UNCHANGED <<confVars, leaseVars, funcVars, threadVars, acquiredVars>>
  BY DEF checkKind, Goto, Types
<1>2. \A u \in Threads : /\ depth[u] \in 0..MaxDepth
                         /\ pc[u] # "run" => depth[u] \in Depths
                         /\ pc[u] # "run" => m_kind[Top(u)] \in Kinds
  BY TopHolder DEF Types
<1>3. depth[t] \in Depths /\ Top(t) = <<t, depth[t]>> /\ Top(t) \in Holders
  BY <1>1, TopHolder DEF Top
<1>4. \A u \in Threads, d \in Depths :
        m_kind'[<<u, d>>] = IF u = t /\ d = depth[t] THEN k ELSE m_kind[<<u, d>>]
  BY <1>3 DEF checkKind, Types, Holders, Depths
<1>5. /\ \A u \in Threads : u # t => pc'[u] = pc[u]
      /\ pc'[t] \in {"run", "seeHeld"}
  BY DEF checkKind, Goto, Types
<1>6. /\ LockLevel(k) \in {"Func", "Kind", "Global"}
      /\ LockLevel(k) = "Global" <=> Concurrently = 0
  BY LockLevelOfKind
<1>7. \A u \in Threads, d \in Depths :
        \/ m_level'[<<u, d>>] = m_level[<<u, d>>]
        \/ u = t /\ d = depth[t] /\ m_level'[<<u, d>>] = "Func"
  <2>1. CASE m_level' = m_level
    BY <2>1
  <2>2. CASE /\ m_level' = [m_level EXCEPT ![Top(t)] = LockLevel(k)]
             /\ LockLevel(k) = m_level[Top(t)] \/ LockLevel(k) = "Func"
    <3>1. \A u \in Threads, d \in Depths : <<u, d>> \in Holders
      BY DEF Holders, Depths
    <3>2. \A u \in Threads, d \in Depths :
            m_level'[<<u, d>>] = IF <<u, d>> = Top(t) THEN LockLevel(k)
                                 ELSE m_level[<<u, d>>]
      BY <2>2, <3>1 DEF Types
    <3>3. ASSUME NEW u \in Threads, NEW d \in Depths, <<u, d>> # Top(t)
          PROVE  m_level'[<<u, d>>] = m_level[<<u, d>>]
      BY <3>2, <3>3
    <3>4. ASSUME NEW u \in Threads, NEW d \in Depths, <<u, d>> = Top(t)
          PROVE  /\ u = t /\ d = depth[t]
                 /\ m_level'[<<u, d>>] = m_level[<<u, d>>]
                      \/ m_level'[<<u, d>>] = "Func"
      <4>1. u = t /\ d = depth[t]
        BY <1>3, <3>4
      <4>2. m_level'[<<u, d>>] = LockLevel(k)
        BY <3>2, <3>4
      <4> QED
        BY <2>2, <3>4, <4>1, <4>2
    <3> QED
      BY <3>3, <3>4
  <2> QED
    BY <2>1, <2>2 DEF checkKind
<1>8. m_level[Top(t)] # "None"
  BY <1>1, <1>3 DEF Stack, CompleteBelow
<1>9. /\ \A u \in Threads : u # t =>
           /\ Top(u)' = Top(u)
           /\ pc[u] # "run" => LeaseOf(u)' = LeaseOf(u)
           /\ pc[u] # "run" => LockLevel(m_kind[Top(u)])' = LockLevel(m_kind[Top(u)])
      /\ \A u \in Threads, d \in Depths : LeaseFor(<<u, d>>)' = LeaseFor(<<u, d>>)
  BY <1>1, <1>2, <1>3, <1>4 DEF Top, LeaseOf, LeaseFor, LockLevel
<1>10. Busy'
  BY <1>1, <1>2, <1>5, <1>7, <1>9 DEF Stack, Busy, Top
<1>11. CleanAbove'
  BY <1>1, <1>2, <1>7 DEF Stack, CleanAbove, Depths
<1>12. CompleteBelow'
  BY <1>1, <1>5, <1>7 DEF Stack, CompleteBelow
<1>13. HeldOwned' /\ AcquiredOnce'
  BY <1>1 DEF LeaseInv, HeldOwned, AcquiredOnce
<1>14. LockBacked'
  BY <1>1, <1>5, <1>9 DEF LeaseInv, LockBacked, Has
<1>15. Writing' /\ Learned'
  BY <1>1, <1>5, <1>9 DEF LeaseInv, Writing, Learned
<1>16. Acquired'
  BY <1>1, <1>5, <1>9 DEF LeaseInv, Acquired
<1>17. LeaseBacked'
  <2>1. \A u \in Threads, d \in Depths :
          Has(u, d, LeaseFor(<<u, d>>))' = Has(u, d, LeaseFor(<<u, d>>))
    BY <1>1, <1>9 DEF Has
  <2> QED
    BY <1>1, <1>7, <2>1 DEF LeaseInv, LeaseBacked
<1>18. LeaseTaken'
  <2>1. ASSUME NEW u \in Threads, u # t, pc[u] # "run"
        PROVE  Has(u, depth[u], LeaseOf(u))' = Has(u, depth[u], LeaseOf(u))
    BY <1>1, <1>9, <2>1 DEF Has
  <2> QED
    BY <1>5, <1>9, <2>1 DEF LeaseInv, LeaseTaken
<1>19. FlagOwned' /\ FlagHolder' /\ FlagTaken'
  BY <1>1, <1>5, <1>9 DEF FlagInv, FlagOwned, FlagHolder, FlagTaken, HasFlag
<1>20. FlagBacked'
  <2>1. \A u \in Threads, d \in Depths : HasFlag(u, d)' = HasFlag(u, d)
    BY <1>1 DEF HasFlag
  <2> QED
    BY <1>1, <1>3, <1>5, <1>7, <1>8, <2>1 DEF FlagInv, FlagBacked, Dropping
<1> QED
  BY <1>10, <1>11, <1>12, <1>13, <1>14, <1>15, <1>16, <1>17, <1>18, <1>19,
     <1>20 DEF Stack, LeaseInv, FlagInv

\* Steps that touch neither locks nor holders.
LEMMA SameStep ==
  ASSUME Locks,
         UNCHANGED <<Concurrently, m_owner, m_held, m_lock, funcVars, pc,
                     threadVars, m_level, m_kind, acquiredVars>>
  PROVE  Locks'
<1> USE DEF funcVars, threadVars, acquiredVars, Locks
<1>1. /\ \A u \in Threads : Top(u)' = Top(u) /\ LeaseOf(u)' = LeaseOf(u)
      /\ \A u \in Threads, d \in Depths : LeaseFor(<<u, d>>)' = LeaseFor(<<u, d>>)
  BY DEF Top, LeaseOf, LeaseFor
<1>2. Stack'
  BY <1>1 DEF Stack, Busy, CleanAbove, CompleteBelow
<1>3. HeldOwned' /\ LockBacked' /\ Writing' /\ Learned'
  BY <1>1 DEF LeaseInv, HeldOwned, LockBacked, Writing, Learned, Has
<1>4. Acquired' /\ AcquiredOnce'
  BY <1>1 DEF LeaseInv, Acquired, AcquiredOnce
<1>5. LeaseBacked'
  BY LeaseBackedSame DEF LeaseInv
<1>6. LeaseTaken'
  <2>1. \A u \in Threads :
          /\ Has(u, depth[u], LeaseOf(u))' = Has(u, depth[u], LeaseOf(u))
          /\ LockLevel(m_kind[Top(u)])' = LockLevel(m_kind[Top(u)])
    BY <1>1 DEF Has, LockLevel
  <2> QED
    BY <2>1 DEF LeaseInv, LeaseTaken
<1>7. FlagInv'
  BY <1>1 DEF FlagInv, FlagOwned, FlagHolder, FlagTaken, FlagBacked, HasFlag,
     Dropping
<1> QED
  BY <1>2, <1>3, <1>4, <1>5, <1>6, <1>7 DEF LeaseInv

\* Every step keeps stack, leases and flags in order.
LEMMA LocksStep == Types /\ Locks /\ [Next]_vars => Locks'
<1> SUFFICES ASSUME Types, Locks, [Next]_vars PROVE Locks'
  OBVIOUS
<1> USE DEF leaseVars, funcVars, confVars, threadVars, acquiredVars, Goto
<1>a. \A u \in Threads :
        /\ (pc[u] # "run" \/ depth[u] # 0) => (depth[u] \in Depths /\ Top(u) \in Holders)
        /\ pc[u] # "run" => depth[u] # 0
        /\ LeaseOf(u) \in Leases
        /\ \A d \in Depths : d > depth[u] => ~m_acquiredThread[<<u, d>>]
  <2>1. \A u \in Threads : LeaseOf(u) \in Leases
    BY DEF LeaseOf, Leases
  <2> QED
    BY <2>1, TopHolder DEF Locks, Stack, Busy, CleanAbove
\* A thread that has a mutex locked and is not about to write its fields has
\* a holder of the lease and is its owner.
<1>b. ASSUME NEW t \in Threads, m_lock[LeaseOf(t)] = t,
             pc[t] \notin {"writeOwner", "writeHeld", "unlock"}
      PROVE  /\ Has(t, depth[t], LeaseOf(t))
             /\ m_owner[LeaseOf(t)] = t /\ m_held[LeaseOf(t)]
  <2>1. Has(t, depth[t], LeaseOf(t))
    BY <1>a, <1>b DEF Locks, LeaseInv, LockBacked
  <2>2. PICK d \in Depths : m_acquiredLease[<<t, d>>] = LeaseOf(t)
    BY <2>1 DEF Has
  <2>3. LeaseOf(t) # NoLease
    BY DEF LeaseOf, NoLease
  <2> QED
    BY <1>b, <2>1, <2>2, <2>3 DEF Locks, LeaseInv, Acquired
<1>1. ASSUME NEW l \in Leases, ExpireHint(l)
      PROVE Locks'
  BY <1>1, SameStep DEF ExpireHint
<1>2. ASSUME NEW t \in Threads, NEW f \in BOOLEAN, setMayAcquireLease(t, f)
      PROVE Locks'
  BY <1>2, SameStep DEF setMayAcquireLease
<1>3. ASSUME NEW t \in Threads, NEW f \in Funcs, NEW k \in Kinds,
             LeaseHolder(t, f, k)
      PROVE Locks'
  BY <1>3, LeaseHolderStep
<1>4. ASSUME NEW t \in Threads, NEW k \in Kinds, checkKind(t, k)
      PROVE Locks'
  BY <1>4, CheckKindStep
<1>5. ASSUME NEW t \in Threads, destroy(t)
      PROVE Locks'
  <2>1. depth[t] # 0
    BY <1>5 DEF destroy, Types
  <2> QED
    BY <1>5, <1>a, <2>1, MoveStep DEF destroy
<1>6. ASSUME NEW t \in Threads, amOwnerHeld(t)
      PROVE Locks'
  <2>1. CASE pc[t] = "seeHeld" /\ m_held[LeaseOf(t)]
    BY <1>6, <1>a, <2>1, MoveStep DEF amOwnerHeld
  <2>2. CASE pc[t] = "seeHeld" /\ ~m_held[LeaseOf(t)]
    <3>1. m_lock[LeaseOf(t)] # t
      BY <1>b, <2>2
    <3> QED
      BY <1>6, <1>a, <2>2, <3>1, MoveStep DEF amOwnerHeld
  <2>3. CASE pc[t] = "acquire" /\ m_held[LeaseOf(t)]
    <3>1. m_lock[LeaseOf(t)] # t /\ m_owner[LeaseOf(t)] # t
      BY <1>a, <2>3 DEF Locks, LeaseInv, Learned, HeldOwned
    <3> QED
      BY <1>6, <1>a, <2>3, <3>1, MoveStep DEF amOwnerHeld
  <2>4. CASE pc[t] = "acquire" /\ ~m_held[LeaseOf(t)]
    <3>1. m_lock[LeaseOf(t)] # t
      BY <2>4 DEF Locks, LeaseInv, Learned
    <3> QED
      BY <1>6, <1>a, <2>4, <3>1, MoveStep DEF amOwnerHeld
  <2> QED
    BY <1>6, <2>1, <2>2, <2>3, <2>4 DEF amOwnerHeld
<1>7. ASSUME NEW t \in Threads, acquireHeld(t) \/ acquireHint(t) \/ loadThreads(t)
      PROVE Locks'
  <2>1. CASE acquireHeld(t) \/ acquireHint(t)
    <3>1. m_lock[LeaseOf(t)] # t
      BY <2>1 DEF Locks, LeaseInv, Learned, acquireHeld, acquireHint
    <3>2. PICK q \in {"tryHint", "lock", "drop"} : pc' = [pc EXCEPT ![t] = q]
      BY <2>1 DEF acquireHeld, acquireHint
    <3>3. /\ UNCHANGED <<confVars, m_owner, m_held, m_lock, funcVars, threadVars, m_level,
                         m_kind, m_acquiredLease, m_acquiredFunc, m_acquiredThread>>
          /\ pc[t] \in {"tryHeld", "tryHint"}
      BY <2>1 DEF acquireHeld, acquireHint
    <3>4. depth[t] # 0 /\ \A d \in Depths : d > depth[t] => ~m_acquiredThread[<<t, d>>]
      BY <1>a, <3>3
    <3> QED
      BY <3>1, <3>2, <3>3, <3>4, MoveStep
  <2>2. CASE loadThreads(t)
    <3>1. PICK q \in {"addThread", "drop"} : pc' = [pc EXCEPT ![t] = q]
      BY <2>2 DEF loadThreads
    <3> QED
      BY <1>a, <2>2, <3>1, MoveStep DEF loadThreads
  <2> QED
    BY <1>7, <2>1, <2>2
<1>8. ASSUME NEW t \in Threads, amOwnerOwner(t)
      PROVE Locks'
  <2>1. pc[t] = "seeOwner"
    BY <1>8 DEF amOwnerOwner
  <2>2. CASE m_owner[LeaseOf(t)] # t
    <3>1. m_lock[LeaseOf(t)] # t
      BY <1>b, <2>1, <2>2
    <3> QED
      BY <1>8, <1>a, <2>1, <2>2, <3>1, MoveStep DEF amOwnerOwner
  <2>3. CASE m_owner[LeaseOf(t)] = t
    <3>1. Has(t, depth[t], LeaseOf(t))
      BY <1>b, <2>1, <2>3 DEF Locks, LeaseInv, Learned
    <3>2. CASE pc' = [pc EXCEPT ![t] = "setFlag"] /\ m_level[Top(t)] = "None"
                 /\ Concurrently > 0 /\ m_level' = m_level
      <4>1. Concurrently # 0
        BY <3>2
      <4> QED
        BY <1>8, <1>a, <2>1, <3>1, <3>2, <4>1, MoveStep DEF amOwnerOwner
    <3>3. CASE /\ pc' = [pc EXCEPT ![t] = "run"] /\ Complete(t)
               /\ m_level[Top(t)] # "None" \/ Concurrently = 0
      <4>1. Concurrently # 0 => HasFlag(t, depth[t])
        BY <1>a, <2>1, <3>3 DEF Locks, FlagInv, FlagBacked, Dropping, Top
      <4> QED
        BY <1>8, <1>a, <2>1, <3>1, <3>3, <4>1, CompleteStep DEF amOwnerOwner
    <3> QED
      BY <1>8, <2>3, <3>2, <3>3 DEF amOwnerOwner, AfterLease
  <2> QED
    BY <2>2, <2>3
<1>9. ASSUME NEW t \in Threads, acquireOwner(t)
      PROVE Locks'
  <2>1. /\ pc[t] = "acquireOwner" /\ m_owner[LeaseOf(t)] # t
        /\ m_lock[LeaseOf(t)] # t
    BY <1>9 DEF acquireOwner, Locks, LeaseInv, Learned
  <2> QED
    BY <1>9, <1>a, <2>1, MoveStep DEF acquireOwner
<1>10. ASSUME NEW t \in Threads, acquireLock(t)
      PROVE Locks'
  <2>1. CASE m_lock[LeaseOf(t)] = NoThread
    BY <1>10, <2>1, LockStep DEF acquireLock
  <2>2. CASE m_lock[LeaseOf(t)] # NoThread
    BY <1>10, <1>a, <2>2, MoveStep DEF acquireLock
  <2> QED
    BY <2>1, <2>2
<1>11. ASSUME NEW t \in Threads, acquireWriteOwner(t)
      PROVE Locks'
  BY <1>11, WriteOwnerStep
<1>12. ASSUME NEW t \in Threads, acquireWriteHeld(t)
      PROVE Locks'
  BY <1>12, WriteHeldStep
<1>13. ASSUME NEW t \in Threads, setFlag(t)
      PROVE Locks'
  <2>1. CASE func[t] \notin Locked
    BY <1>13, <2>1, SetFlagStep
  <2>2. CASE func[t] \in tl_ownedFunc[t] /\ func[t] \in Locked
    <3>1. pc[t] = "setFlag" /\ HasFlag(t, depth[t])
      BY <1>13, <2>2 DEF Locks, FlagInv, FlagOwned, setFlag
    <3>2. LockLevel(m_kind[Top(t)]) # "Func" => Has(t, depth[t], LeaseOf(t))
      BY <3>1 DEF Locks, LeaseInv, LeaseTaken
    <3> QED
      BY <1>13, <1>a, <2>2, <3>1, <3>2, CompleteStep DEF setFlag
  <2>3. CASE func[t] \notin tl_ownedFunc[t] /\ func[t] \in Locked
    BY <1>13, <1>a, <2>3, MoveStep DEF setFlag
  <2> QED
    BY <2>1, <2>2, <2>3
<1>14. ASSUME NEW t \in Threads, addThread(t)
      PROVE Locks'
  <2>1. /\ \A d \in Depths : d > depth[t] => ~m_acquiredThread'[<<t, d>>]
        /\ \A u \in Threads \ {t}, d \in Depths :
             m_acquiredThread'[<<u, d>>] = m_acquiredThread[<<u, d>>]
    BY <1>14, <1>a DEF addThread, Types, Holders, Depths, Top
  <2>2. CASE pc' = [pc EXCEPT ![t] = "drop"] /\ m_level' = m_level
    BY <1>14, <1>a, <2>1, <2>2, MoveStep DEF addThread
  <2>3. CASE pc' = [pc EXCEPT ![t] = "run"] /\ Complete(t)
    <3>1. /\ pc[t] = "addThread" /\ LockLevel(m_kind[Top(t)]) = "Func"
          /\ HasFlag(t, depth[t])
      <4>1. /\ pc[t] = "addThread" /\ m_acquiredFunc[Top(t)]
            /\ LockLevel(m_kind[Top(t)]) = "Func"
        BY <1>14 DEF addThread, Locks, FlagInv, FlagTaken, LeaseInv, LeaseTaken
      <4> QED
        BY <1>a, <4>1 DEF HasFlag, Top, Depths
    <3> QED
      BY <1>14, <2>1, <2>3, <3>1, CompleteStep DEF addThread
  <2> QED
    BY <1>14, <2>2, <2>3 DEF addThread
<1>15. ASSUME NEW t \in Threads, dropThread(t)
      PROVE Locks'
  <2>1. /\ \A d \in Depths : d > depth[t] => ~m_acquiredThread'[<<t, d>>]
        /\ \A u \in Threads \ {t}, d \in Depths :
             m_acquiredThread'[<<u, d>>] = m_acquiredThread[<<u, d>>]
    BY <1>15, <1>a DEF dropThread, Types, Holders, Depths, Top
  <2> QED
    BY <1>15, <1>a, <2>1, MoveStep DEF dropThread
<1>16. ASSUME NEW t \in Threads, dropFunc(t)
      PROVE Locks'
  <2>1. CASE m_acquiredFunc[Top(t)]
    BY <1>16, <2>1, DropFuncStep
  <2>2. CASE ~m_acquiredFunc[Top(t)]
    BY <1>16, <1>a, <2>2, MoveStep DEF dropFunc
  <2> QED
    BY <2>1, <2>2
<1>17. ASSUME NEW t \in Threads, dropHeld(t)
      PROVE Locks'
  <2>1. CASE m_acquiredLease[Top(t)] # NoLease
    BY <1>17, <2>1, DropHeldStep
  <2>2. CASE m_acquiredLease[Top(t)] = NoLease
    <3>1. \A l \in Leases : m_lock'[l] = IF l = m_acquiredLease[Top(t)]
                                         THEN NoThread ELSE m_lock[l]
      BY <1>17, <2>2 DEF dropHeld, Leases, NoLease
    <3>2. \A u \in Threads, d \in Depths :
            m_acquiredLease'[<<u, d>>] = IF u = t /\ d = depth[t] THEN NoLease
                                         ELSE m_acquiredLease[<<u, d>>]
      BY <1>17, <2>2 DEF dropHeld, Top
    <3> QED
      BY <1>17, <2>2, <3>1, <3>2, PopStep DEF dropHeld
  <2> QED
    BY <2>1, <2>2
<1>18. ASSUME NEW t \in Threads, unlock(t)
      PROVE Locks'
  <2>1. pc[t] = "unlock"
    BY <1>18 DEF unlock, PopHolder
  <2>2. m_acquiredLease[Top(t)] \in Leases
    BY <1>a, <2>1 DEF Locks, LeaseInv, Writing, Types
  <2>3. \A l \in Leases : m_lock'[l] = IF l = m_acquiredLease[Top(t)]
                                       THEN NoThread ELSE m_lock[l]
    BY <1>18, <2>2 DEF unlock, Types
  <2>4. \A u \in Threads, d \in Depths :
          m_acquiredLease'[<<u, d>>] = IF u = t /\ d = depth[t] THEN NoLease
                                       ELSE m_acquiredLease[<<u, d>>]
    BY <1>18, <1>a, <2>1 DEF unlock, Types, Holders, Depths, Top
  <2> QED
    BY <1>18, <2>1, <2>3, <2>4, PopStep DEF unlock
<1>19. CASE UNCHANGED vars
  BY <1>19, SameStep DEF vars
<1> QED
  BY <1>1, <1>2, <1>3, <1>4, <1>5, <1>6, <1>7, <1>8, <1>9, <1>10, <1>11, <1>12,
     <1>13, <1>14, <1>15, <1>16, <1>17, <1>18, <1>19 DEF Next, Step

-----------------------------------------------------------------------------
\* The holders that count towards Jit.Threads, and those that are valid too.
CountedHolders == {h \in Holders : m_acquiredThread[h]}
ValidHolders == {h \in Holders : m_acquiredThread[h] /\ Valid(h)}

\* There are finitely many holders.
LEMMA HoldersFinite == /\ IsFiniteSet(Holders)
                       /\ IsFiniteSet(CountedHolders) /\ IsFiniteSet(ValidHolders)
                       /\ IsFiniteSet(CountedHolders') /\ IsFiniteSet(ValidHolders')
<1>1. IsFiniteSet(1..MaxDepth)
  BY FS_Interval
<1>2. IsFiniteSet(Threads \X (1..MaxDepth))
  BY <1>1, FS_Product
<1>3. IsFiniteSet(Holders)
  BY <1>2 DEF Holders
<1>4. \A S \in SUBSET Holders : IsFiniteSet(S)
  BY <1>3, FS_Subset
<1>5. /\ CountedHolders \subseteq Holders /\ ValidHolders \subseteq Holders
      /\ CountedHolders' \subseteq Holders /\ ValidHolders' \subseteq Holders
  BY DEF CountedHolders, ValidHolders, Holders
<1> QED
  BY <1>3, <1>4, <1>5

\* A holder that counts is valid, or is on top of a stack that is being dropped.
LEMMA CountedOrDropped ==
  ASSUME Types, Locks, Counted, NEW u \in Threads, NEW d \in Depths,
         m_acquiredThread[<<u, d>>]
  PROVE  \/ Valid(<<u, d>>)
         \/ d = depth[u] /\ pc[u] = "drop"
  BY DEF Counted, Valid, Dropping, Locks, Stack, Busy, Top

\* The step of a thread that leaves the counter alone: no holder that counts
\* becomes valid, and none loses its level.
LEMMA UncountedStep ==
  ASSUME Types, Locks, Counted, ThreadsBounded, NEW t \in Threads,
         UNCHANGED <<m_acquiredThread, s_jittingThreads>>,
         \A u \in Threads \ {t} : pc'[u] = pc[u] /\ depth'[u] = depth[u],
         pc[t] = "drop" => ~m_acquiredThread[Top(t)],
         \A u \in Threads, d \in Depths : m_acquiredThread[<<u, d>>] =>
            m_level'[<<u, d>>] = m_level[<<u, d>>] \/ m_level'[<<u, d>>] # "None"
  PROVE  Counted' /\ ThreadsBounded'
<1>1. ASSUME NEW u \in Threads, NEW d \in Depths, m_acquiredThread[<<u, d>>],
             d = depth[u], pc[u] = "drop"
      PROVE  u # t /\ depth'[u] = depth[u] /\ pc'[u] = "drop"
  BY <1>1 DEF Top
<1>2. Counted'
  BY <1>1 DEF Counted
<1>3. ValidHolders' \subseteq ValidHolders
  <2> SUFFICES ASSUME NEW u \in Threads, NEW d \in Depths,
                      m_acquiredThread[<<u, d>>], Valid(<<u, d>>)'
               PROVE  Valid(<<u, d>>)
    BY DEF ValidHolders, Holders, Depths
  <2>1. CASE d = depth[u] /\ pc[u] = "drop"
    <3>1. ~Valid(<<u, d>>)'
      BY <1>1, <2>1 DEF Valid, Dropping
    <3> QED
      BY <3>1
  <2> QED
    BY <2>1, CountedOrDropped
<1>4. Cardinality(ValidHolders') <= Cardinality(ValidHolders)
  BY <1>3, HoldersFinite, FS_Subset
<1>5. Cardinality(ValidHolders) \in Nat /\ Cardinality(ValidHolders') \in Nat
  BY HoldersFinite, FS_CardinalityType
<1> QED
  BY <1>2, <1>4, <1>5 DEF ThreadsBounded, ValidHolders

\* A thread adds itself to the counter, and finds it over the limit or not.
LEMMA AddThreadCounts ==
  ASSUME Types, Locks, Counted, ThreadsBounded, NEW t \in Threads, addThread(t)
  PROVE  Counted' /\ ThreadsBounded'
<1> USE DEF threadVars, acquiredVars, Goto
<1>1. /\ pc[t] = "addThread" /\ depth' = depth
      /\ s_jittingThreads' = s_jittingThreads + 1
  BY DEF addThread
<1>2. /\ depth[t] \in Depths /\ Top(t) = <<t, depth[t]>> /\ Top(t) \in Holders
      /\ LockLevel(m_kind[Top(t)]) # "None"
      /\ m_level[Top(t)] = "None"
  BY <1>1, TopHolder DEF Top, Locks, Stack, Busy
<1>3. /\ m_acquiredThread'[<<t, depth[t]>>]
      /\ \A u \in Threads, d \in Depths : ~(u = t /\ d = depth[t]) =>
           m_acquiredThread'[<<u, d>>] = m_acquiredThread[<<u, d>>]
  <2>1. /\ m_acquiredThread' = [m_acquiredThread EXCEPT ![<<t, depth[t]>>] = TRUE]
        /\ m_acquiredThread \in [Holders -> BOOLEAN]
    BY <1>2 DEF addThread, Types
  <2> QED
    BY <1>2, <2>1 DEF Holders, Depths
<1>4. ~m_acquiredThread[Top(t)]
  BY <1>1, <1>2 DEF Counted
<1>5. CountedHolders' = CountedHolders \cup {Top(t)}
  BY <1>2, <1>3 DEF CountedHolders, Holders, Depths
<1>6. Cardinality(CountedHolders') = s_jittingThreads'
  BY <1>1, <1>4, <1>5, HoldersFinite, FS_AddElement
     DEF ThreadsBounded, CountedHolders
<1>7. \A u \in Threads : u # t => pc'[u] = pc[u]
  BY DEF addThread, Types
<1>8. Cardinality(ValidHolders) \in Nat /\ Cardinality(ValidHolders') \in Nat
  BY HoldersFinite, FS_CardinalityType
<1>9. CASE s_jittingThreads >= JitThreads /\ pc'[t] = "drop" /\ m_level' = m_level
  <2>1. Counted'
    BY <1>1, <1>3, <1>7, <1>9 DEF Counted
  <2>2. ValidHolders' \subseteq ValidHolders
    <3> SUFFICES ASSUME NEW u \in Threads, NEW d \in Depths,
                        m_acquiredThread'[<<u, d>>], Valid(<<u, d>>)'
                 PROVE  m_acquiredThread[<<u, d>>] /\ Valid(<<u, d>>)
      BY DEF ValidHolders, Holders, Depths
    <3>1. u # t \/ d # depth[t]
      BY <1>2, <1>9 DEF Valid
    <3> QED
      BY <1>1, <1>3, <1>7, <1>9, <3>1 DEF Valid, Dropping
  <2>3. Cardinality(ValidHolders') <= Cardinality(ValidHolders)
    BY <2>2, HoldersFinite, FS_Subset
  <2> QED
    BY <1>6, <1>8, <2>1, <2>3 DEF ThreadsBounded, ValidHolders, CountedHolders
<1>10. CASE s_jittingThreads < JitThreads /\ pc'[t] = "run" /\ Complete(t)
  <2>1. \A u \in Threads, d \in Depths :
          m_level'[<<u, d>>] = IF u = t /\ d = depth[t]
                               THEN LockLevel(m_kind[Top(t)])
                               ELSE m_level[<<u, d>>]
    BY <1>1, <1>10, CompleteEffect DEF Locks
  <2>2. Counted'
    BY <1>1, <1>2, <1>3, <1>7, <2>1 DEF Counted
  <2>3. Cardinality(ValidHolders') <= Cardinality(CountedHolders')
    <3>1. ValidHolders' \subseteq CountedHolders'
      BY DEF ValidHolders, CountedHolders
    <3> QED
      BY <3>1, HoldersFinite, FS_Subset
  <2>4. Cardinality(ValidHolders') <= JitThreads
    BY <1>1, <1>6, <1>8, <1>10, <2>3 DEF Types
  <2> QED
    BY <1>6, <2>2, <2>4 DEF ThreadsBounded, ValidHolders, CountedHolders
<1> QED
  BY <1>9, <1>10 DEF addThread, Types

\* A destructor takes its thread off the counter.
LEMMA DropThreadCounts ==
  ASSUME Types, Locks, Counted, ThreadsBounded, NEW t \in Threads, dropThread(t)
  PROVE  Counted' /\ ThreadsBounded'
<1> USE DEF threadVars, acquiredVars, Goto
<1>1. /\ pc[t] = "drop" /\ pc' = pc /\ UNCHANGED <<depth, m_level>>
      /\ m_acquiredThread[Top(t)] /\ s_jittingThreads' = s_jittingThreads - 1
  BY DEF dropThread, Types
<1>2. depth[t] \in Depths /\ Top(t) = <<t, depth[t]>> /\ Top(t) \in Holders
  BY <1>1, TopHolder DEF Top, Locks
<1>3. /\ ~m_acquiredThread'[<<t, depth[t]>>]
      /\ \A u \in Threads, d \in Depths : ~(u = t /\ d = depth[t]) =>
           m_acquiredThread'[<<u, d>>] = m_acquiredThread[<<u, d>>]
  <2>1. /\ m_acquiredThread' = [m_acquiredThread EXCEPT ![<<t, depth[t]>>] = FALSE]
        /\ m_acquiredThread \in [Holders -> BOOLEAN]
    BY <1>2 DEF dropThread, Types
  <2> QED
    BY <1>2, <2>1 DEF Holders, Depths
<1>4. CountedHolders' = CountedHolders \ {Top(t)}
  BY <1>2, <1>3 DEF CountedHolders, Holders, Depths
<1>5. Top(t) \in CountedHolders
  BY <1>1, <1>2 DEF CountedHolders
<1>6. Cardinality(CountedHolders') = s_jittingThreads'
  BY <1>1, <1>4, <1>5, HoldersFinite, FS_RemoveElement
     DEF ThreadsBounded, CountedHolders
<1>7. Counted'
  BY <1>1, <1>3 DEF Counted
<1>8. ValidHolders' \subseteq ValidHolders
  <2> SUFFICES ASSUME NEW u \in Threads, NEW d \in Depths,
                      m_acquiredThread'[<<u, d>>], Valid(<<u, d>>)'
               PROVE  m_acquiredThread[<<u, d>>] /\ Valid(<<u, d>>)
    BY DEF ValidHolders, Holders, Depths
  <2> QED
    BY <1>1, <1>3 DEF Valid, Dropping
<1>9. Cardinality(ValidHolders') <= Cardinality(ValidHolders)
  BY <1>8, HoldersFinite, FS_Subset
<1>10. Cardinality(ValidHolders) \in Nat /\ Cardinality(ValidHolders') \in Nat
  BY HoldersFinite, FS_CardinalityType
<1> QED
  BY <1>6, <1>7, <1>9, <1>10 DEF ThreadsBounded, ValidHolders, CountedHolders

\* Every step keeps the counter exact and bounded.
LEMMA CountStep ==
  Types /\ Locks /\ Counted /\ ThreadsBounded /\ [Next]_vars
    => Counted' /\ ThreadsBounded'
<1> SUFFICES ASSUME Types, Locks, Counted, ThreadsBounded, [Next]_vars
             PROVE  Counted' /\ ThreadsBounded'
  OBVIOUS
<1> USE DEF leaseVars, funcVars, confVars, threadVars, acquiredVars, Goto
<1>a. ASSUME NEW t \in Threads, pc[t] # "run", Complete(t)
      PROVE  \A u \in Threads, d \in Depths :
               m_level'[<<u, d>>] = m_level[<<u, d>>] \/ m_level'[<<u, d>>] # "None"
  <2>1. LockLevel(m_kind[Top(t)]) # "None"
    BY <1>a, TopHolder DEF Locks
  <2>2. \A u \in Threads, d \in Depths :
          m_level'[<<u, d>>] = IF u = t /\ d = depth[t]
                               THEN LockLevel(m_kind[Top(t)])
                               ELSE m_level[<<u, d>>]
    BY <1>a, CompleteEffect DEF Locks
  <2> QED
    BY <2>1, <2>2
<1>b. ASSUME NEW t \in Threads, NEW p, p \in {"dropLease", "unlock"},
             PopHolder(t, p)
      PROVE  /\ \A u \in Threads, d \in Depths : m_acquiredThread[<<u, d>>] =>
                  m_level'[<<u, d>>] = m_level[<<u, d>>]
             /\ \A u \in Threads \ {t} : pc'[u] = pc[u] /\ depth'[u] = depth[u]
             /\ pc[t] = p
  <2>1. pc[t] = p /\ p # "run" /\ ~m_acquiredThread[<<t, depth[t]>>]
    BY <1>b DEF PopHolder, Locks, Stack, Busy, Top
  <2> QED
    BY <1>b, <2>1, PopEffect DEF Locks
<1>1. ASSUME NEW l \in Leases, ExpireHint(l)
      PROVE  Counted' /\ ThreadsBounded'
  BY <1>1 DEF ExpireHint, Counted, ThreadsBounded, Valid, Dropping
<1>2. ASSUME NEW t \in Threads, NEW f \in BOOLEAN, setMayAcquireLease(t, f)
      PROVE  Counted' /\ ThreadsBounded'
  BY <1>2 DEF setMayAcquireLease, Counted, ThreadsBounded, Valid, Dropping
<1>3. ASSUME NEW t \in Threads, NEW f \in Funcs, NEW k \in Kinds,
             LeaseHolder(t, f, k)
      PROVE  Counted' /\ ThreadsBounded'
  <2>1. \A u \in Threads \ {t} : pc'[u] = pc[u] /\ depth'[u] = depth[u]
    BY <1>3 DEF LeaseHolder, Types
  <2> QED
    BY <1>3, <2>1, UncountedStep DEF LeaseHolder
<1>4. ASSUME NEW t \in Threads, NEW k \in Kinds, checkKind(t, k)
      PROVE  Counted' /\ ThreadsBounded'
  <2>1. \A u \in Threads \ {t} : pc'[u] = pc[u] /\ depth'[u] = depth[u]
    BY <1>4 DEF checkKind, Types
  <2>2. \A u \in Threads, d \in Depths :
          m_level'[<<u, d>>] = m_level[<<u, d>>] \/ m_level'[<<u, d>>] # "None"
    <3>1. CASE m_level' = m_level
      BY <3>1
    <3>2. CASE m_level' = [m_level EXCEPT ![Top(t)] = LockLevel(k)]
      <4>1. LockLevel(k) # "None"
        BY LockLevelOfKind
      <4> QED
        BY <3>2, <4>1 DEF Types, Holders, Depths
    <3> QED
      BY <1>4, <3>1, <3>2 DEF checkKind
  <2> QED
    BY <1>4, <2>1, <2>2, UncountedStep DEF checkKind
<1>5. ASSUME NEW t \in Threads,
             \/ destroy(t) \/ amOwnerHeld(t) \/ acquireHeld(t) \/ acquireHint(t)
             \/ loadThreads(t) \/ acquireLock(t) \/ acquireWriteOwner(t)
      PROVE  Counted' /\ ThreadsBounded'
  <2>1. /\ \A u \in Threads \ {t} : pc'[u] = pc[u] /\ depth'[u] = depth[u]
        /\ pc[t] # "drop"
    BY <1>5 DEF destroy, amOwnerHeld, acquireHeld, acquireHint, loadThreads,
       acquireLock, acquireWriteOwner, Types
  <2>2. UNCHANGED <<m_acquiredThread, s_jittingThreads, m_level>>
    BY <1>5 DEF destroy, amOwnerHeld, acquireHeld, acquireHint, loadThreads,
       acquireLock, acquireWriteOwner
  <2> QED
    BY <2>1, <2>2, UncountedStep
<1>6. ASSUME NEW t \in Threads,
             \/ amOwnerOwner(t) \/ acquireOwner(t) \/ acquireWriteHeld(t)
             \/ setFlag(t)
      PROVE  Counted' /\ ThreadsBounded'
  <2>1. /\ \A u \in Threads \ {t} : pc'[u] = pc[u] /\ depth'[u] = depth[u]
        /\ pc[t] \notin {"drop", "run"}
    BY <1>6 DEF amOwnerOwner, acquireOwner, acquireWriteHeld, setFlag, AfterLease,
       Types
  <2>2. /\ UNCHANGED <<m_acquiredThread, s_jittingThreads>>
        /\ Complete(t) \/ UNCHANGED m_level
    BY <1>6 DEF amOwnerOwner, acquireOwner, acquireWriteHeld, setFlag, AfterLease
  <2>3. \A u \in Threads, d \in Depths :
          m_level'[<<u, d>>] = m_level[<<u, d>>] \/ m_level'[<<u, d>>] # "None"
    BY <1>a, <2>1, <2>2
  <2> QED
    BY <2>1, <2>2, <2>3, UncountedStep
<1>7. ASSUME NEW t \in Threads, addThread(t) PROVE Counted' /\ ThreadsBounded'
  BY <1>7, AddThreadCounts
<1>8. ASSUME NEW t \in Threads, dropThread(t) PROVE Counted' /\ ThreadsBounded'
  BY <1>8, DropThreadCounts
<1>9. ASSUME NEW t \in Threads, dropFunc(t) PROVE Counted' /\ ThreadsBounded'
  <2>1. /\ \A u \in Threads \ {t} : pc'[u] = pc[u] /\ depth'[u] = depth[u]
        /\ ~m_acquiredThread[Top(t)]
    BY <1>9 DEF dropFunc, Types
  <2> QED
    BY <1>9, <2>1, UncountedStep DEF dropFunc
<1>10. ASSUME NEW t \in Threads, dropHeld(t) PROVE Counted' /\ ThreadsBounded'
  <2>1. CASE PopHolder(t, "dropLease")
    BY <1>10, <1>b, <2>1, UncountedStep DEF dropHeld
  <2>2. CASE Goto(t, "dropLease", "unlock") /\ UNCHANGED <<depth, m_level>>
    <3>1. \A u \in Threads \ {t} : pc'[u] = pc[u] /\ depth'[u] = depth[u]
      BY <2>2 DEF Types
    <3> QED
      BY <1>10, <2>2, <3>1, UncountedStep DEF dropHeld
  <2> QED
    BY <1>10, <2>1, <2>2 DEF dropHeld
<1>11. ASSUME NEW t \in Threads, unlock(t) PROVE Counted' /\ ThreadsBounded'
  BY <1>11, <1>b, UncountedStep DEF unlock
<1>12. CASE UNCHANGED vars
  BY <1>12 DEF vars, Counted, ThreadsBounded, Valid, Dropping
<1> QED
  BY <1>1, <1>2, <1>3, <1>4, <1>5, <1>6, <1>7, <1>8, <1>9, <1>10, <1>11, <1>12
     DEF Next, Step

-----------------------------------------------------------------------------
\* The initial state satisfies the invariant.
LEMMA InitIInv == Init => IInv
<1> SUFFICES ASSUME Init PROVE IInv
  OBVIOUS
<1>1. Types
  BY TypeInit
<1>2. Stack
  BY DEF Init, Stack, Busy, CleanAbove, CompleteBelow, Depths, Holders, Top
<1>3. LeaseInv
  <2>1. HeldOwned /\ LockBacked /\ Writing /\ Learned
    BY DEF Init, HeldOwned, LockBacked, Writing, Learned
  <2>2. Acquired /\ AcquiredOnce
    BY DEF Init, Acquired, AcquiredOnce, Depths, Holders
  <2>3. LeaseBacked /\ LeaseTaken
    BY DEF Init, LeaseBacked, LeaseTaken, Depths, Holders
  <2> QED
    BY <2>1, <2>2, <2>3 DEF LeaseInv
<1>4. FlagInv
  BY DEF Init, FlagInv, FlagOwned, FlagHolder, FlagTaken, FlagBacked, Depths, Holders
<1>5. Counted
  BY DEF Init, Counted, Depths, Holders
<1>6. ThreadsBounded
  <2>1. CountedHolders = {} /\ ValidHolders = {}
    BY DEF Init, CountedHolders, ValidHolders
  <2>2. Cardinality({}) = 0
    BY FS_EmptySet
  <2>3. s_jittingThreads = Cardinality(CountedHolders)
    BY <2>1, <2>2 DEF Init
  <2>4. Cardinality(ValidHolders) <= JitThreads
    BY <2>1, <2>2
  <2> QED
    BY <2>3, <2>4 DEF ThreadsBounded, CountedHolders, ValidHolders
<1> QED
  BY <1>1, <1>2, <1>3, <1>4, <1>5, <1>6 DEF IInv, Locks

\* The invariant is inductive.
LEMMA Invariance == Spec => []IInv
<1>1. Init => IInv
  BY InitIInv
<1>2. IInv /\ [Next]_vars => IInv'
  BY TypeStep, LocksStep, CountStep DEF IInv, Locks
<1> QED
  BY <1>1, <1>2, PTL DEF Spec

\* The leases, holders and threads have their types in every reachable state, and
\* the counter of jitting threads is never negative: it counts holders.
THEOREM TypeCorrect == Spec => []TypeOK
<1>1. IInv => TypeOK
  <2> SUFFICES ASSUME IInv PROVE s_jittingThreads >= 0
    BY DEF IInv, TypeOK
  <2>1. s_jittingThreads = Cardinality({h \in Holders : m_acquiredThread[h]})
    BY DEF IInv, ThreadsBounded
  <2>2. IsFiniteSet({h \in Holders : m_acquiredThread[h]})
    BY HoldersFinite, FS_Subset
  <2> QED
    BY <2>1, <2>2, FS_CardinalityType
<1> QED
  BY <1>1, Invariance, PTL

\* Whatever the number of threads, functions and nested holders and whatever
\* Jit.Concurrently is, two threads never translate one function at a time,
\* nor, on the Kind and Global levels, hold the permission of one lease.
THEOREM PermissionIsExclusive == Spec => []ExclusivePermission
<1>1. IInv => ExclusivePermission
  <2> SUFFICES ASSUME IInv PROVE FuncExclusive /\ LevelExclusive
    BY DEF ExclusivePermission
  <2>1. FuncExclusive
    <3> SUFFICES ASSUME Concurrently > 0,
                        NEW t \in Threads, NEW d \in Depths,
                        NEW u \in Threads, NEW e \in Depths,
                        Valid(<<t, d>>), Valid(<<u, e>>), func[t] = func[u]
                 PROVE  t = u
      BY DEF FuncExclusive, Holders, Depths
    <3>1. HasFlag(t, d) /\ HasFlag(u, e)
      BY DEF IInv, Locks, FlagInv, FlagBacked, Valid, Dropping
    <3>2. func[t] \in tl_ownedFunc[t] /\ func[u] \in tl_ownedFunc[u]
      BY <3>1 DEF IInv, Locks, FlagInv, FlagHolder, HasFlag
    <3> QED
      BY <3>2 DEF IInv, Locks, FlagInv, FlagOwned
  <2>2. LevelExclusive
    <3> SUFFICES ASSUME NEW t \in Threads, NEW d \in Depths,
                        NEW u \in Threads, NEW e \in Depths,
                        m_level[<<t, d>>] = m_level[<<u, e>>],
                        \/ m_level[<<t, d>>] = "Global"
                        \/ /\ m_level[<<t, d>>] = "Kind"
                           /\ m_kind[<<t, d>>] = m_kind[<<u, e>>]
                 PROVE  t = u
      BY DEF LevelExclusive, Holders, Depths
    <3>1. LeaseFor(<<t, d>>) = LeaseFor(<<u, e>>) /\ LeaseFor(<<t, d>>) # NoLease
      BY DEF IInv, Locks, LeaseInv, LeaseBacked, LeaseFor, NoLease
    <3>2. /\ Has(t, d, LeaseFor(<<t, d>>)) /\ Has(u, e, LeaseFor(<<u, e>>))
      BY DEF IInv, Locks, LeaseInv, LeaseBacked
    <3>3. /\ m_lock[LeaseFor(<<t, d>>)] = t /\ m_lock[LeaseFor(<<u, e>>)] = u
      BY <3>1, <3>2 DEF IInv, Locks, LeaseInv, Acquired, Has
    <3> QED
      BY <3>1, <3>3
  <2> QED
    BY <2>1, <2>2
<1> QED
  BY <1>1, Invariance, PTL

\* amOwner, which reads m_held and m_owner at two different times and without
\* the mutex, is right about the mutex, and drop is only called by the owner.
THEOREM AmOwnerIsExact == Spec => []AmOwnerExact
<1>1. IInv => AmOwnerExact
  <2> SUFFICES ASSUME IInv, NEW t \in Threads
               PROVE  /\ pc[t] \in {"seeOwner", "acquireOwner"} =>
                           (m_owner[LeaseOf(t)] = t <=> m_lock[LeaseOf(t)] = t)
                      /\ (pc[t] = "dropLease" /\ m_acquiredLease[Top(t)] # NoLease) =>
                           /\ m_held[m_acquiredLease[Top(t)]]
                           /\ m_owner[m_acquiredLease[Top(t)]] = t
    BY DEF AmOwnerExact
  <2> USE DEF IInv, Locks
  <2>1. pc[t] = "acquireOwner" => m_owner[LeaseOf(t)] # t /\ m_lock[LeaseOf(t)] # t
    BY DEF LeaseInv, Learned
  <2>2. ASSUME pc[t] = "seeOwner"
        PROVE  m_owner[LeaseOf(t)] = t <=> m_lock[LeaseOf(t)] = t
    <3>1. m_owner[LeaseOf(t)] = t => m_lock[LeaseOf(t)] = t
      BY <2>2 DEF LeaseInv, Learned
    <3>2. ASSUME m_lock[LeaseOf(t)] = t PROVE m_owner[LeaseOf(t)] = t
      <4>1. LeaseOf(t) \in Leases /\ LeaseOf(t) # NoLease
        BY DEF LeaseOf, Leases, NoLease
      <4>2. Has(t, depth[t], LeaseOf(t))
        BY <2>2, <3>2, <4>1 DEF LeaseInv, LockBacked
      <4> QED
        BY <4>1, <4>2 DEF LeaseInv, Acquired, Has
    <3> QED
      BY <3>1, <3>2
  <2>3. ASSUME pc[t] = "dropLease", m_acquiredLease[Top(t)] # NoLease
        PROVE  /\ m_held[m_acquiredLease[Top(t)]]
               /\ m_owner[m_acquiredLease[Top(t)]] = t
    <3>1. depth[t] \in Depths
      BY <2>3, TopHolder
    <3> QED
      BY <2>3, <3>1 DEF LeaseInv, Acquired, Top
  <2> QED
    BY <2>1, <2>2, <2>3
<1> QED
  BY <1>1, Invariance, PTL

\* Every mutex and every flag that is taken is to be given back by exactly one
\* holder on the stack of its thread, however constructors fail.
THEOREM LocksAreAccounted == Spec => []LocksAccounted
<1>1. IInv => LocksAccounted
  <2> SUFFICES ASSUME IInv PROVE LocksAccounted
    OBVIOUS
  <2> USE DEF IInv, Locks
  <2>0. NoLease \notin Leases /\ \A t \in Threads : depth[t] \in 0..MaxDepth
    BY DEF Leases, NoLease, Types
  <2>1. ASSUME NEW l \in Leases, NEW t \in Threads, m_lock[l] = t,
               ~(pc[t] \in {"writeOwner", "writeHeld"} /\ LeaseOf(t) = l)
        PROVE  \E d \in 1..depth[t] : \A e \in 1..MaxDepth :
                 (m_acquiredLease[<<t, e>>] = l) <=> e = d
    <3>1. PICK d \in Depths : d <= depth[t] /\ m_acquiredLease[<<t, d>>] = l
      BY <2>1 DEF LeaseInv, LockBacked, Has
    <3>2. \A e \in 1..MaxDepth : (m_acquiredLease[<<t, e>>] = l) <=> e = d
      BY <2>0, <3>1 DEF LeaseInv, AcquiredOnce, Depths
    <3>3. d \in 1..depth[t]
      BY <2>0, <3>1 DEF Depths
    <3> QED
      BY <3>2, <3>3
  <2>2. ASSUME NEW f \in Locked
        PROVE  \E t \in Threads :
                 /\ tl_ownedFunc[t] = {f} /\ func[t] = f
                 /\ \A u \in Threads \ {t} : f \notin tl_ownedFunc[u]
                 /\ \E d \in 1..depth[t] : \A e \in 1..MaxDepth :
                      m_acquiredFunc[<<t, e>>] <=> e = d
    <3>1. PICK t \in Threads : f \in tl_ownedFunc[t]
      BY DEF FlagInv, FlagOwned
    <3>2. /\ tl_ownedFunc[t] = {f} /\ func[t] = f /\ HasFlag(t, depth[t])
          /\ \A u \in Threads \ {t} : f \notin tl_ownedFunc[u]
      BY <3>1 DEF FlagInv, FlagOwned
    <3>3. PICK d \in Depths : d <= depth[t] /\ m_acquiredFunc[<<t, d>>]
      BY <3>2 DEF HasFlag
    <3>4. \A e \in 1..MaxDepth : m_acquiredFunc[<<t, e>>] <=> e = d
      BY <3>3 DEF FlagInv, FlagHolder, Depths
    <3>5. d \in 1..depth[t]
      BY <2>0, <3>3 DEF Depths
    <3> QED
      BY <3>2, <3>4, <3>5
  <2> QED
    BY <2>1, <2>2 DEF LocksAccounted
<1> QED
  BY <1>1, Invariance, PTL

\* The counter of jitting threads is exact, and no more than Jit.Threads of
\* the holders that count are valid, although the counter is loaded, added to
\* and compared in separate steps.
THEOREM ThreadsAreBounded == Spec => []ThreadsBounded
  BY Invariance, PTL DEF IInv
=============================================================================
