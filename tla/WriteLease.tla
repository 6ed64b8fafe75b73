------------------------------ MODULE WriteLease ------------------------------
(***************************************************************************)
(* The locks that decide which thread may translate                        *)
(* (hphp/runtime/vm/jit/write-lease.cpp).  A LeaseHolder takes, depending  *)
(* on Jit.Concurrently and the kind of translation, the global lease, the  *)
(* lease of the kind, the Locked flag of the function and a unit of        *)
(* Jit.Threads, and gives them back in its destructor.  Each access to     *)
(* shared memory is a step of its own: a Lease is a mutex whose owner and  *)
(* held state are read by other threads without taking it.                 *)
(*                                                                         *)
(* A translating thread nests holders of one function: getFuncEntry,       *)
(* getTranslation and the Translator each have one on the stack.  Holders  *)
(* are addressed by thread and depth.  No caller constructs a holder as a  *)
(* worker, and a constructor that finds that the thread may not acquire    *)
(* leases leaves no trace.                                                 *)
(***************************************************************************)
EXTENDS Integers, FiniteSets

CONSTANTS
  Threads,
  Funcs,
  Concurrencies,      \* the values of Jit.Concurrently in play
  RequireWriteLease,  \* Jit.RequireWriteLease
  JitThreads,         \* Jit.Threads
  MaxDepth,           \* bound: nested holders of a thread
  NoThread,
  NoFunc

ASSUME WriteLeaseAssumption ==
  /\ Concurrencies \subseteq 0..3
  /\ RequireWriteLease \in BOOLEAN
  /\ JitThreads \in Nat
  /\ MaxDepth \in Nat \ {0}
  /\ IsFiniteSet(Threads)
  /\ NoThread \notin Threads
  /\ NoFunc \notin Funcs

\* Prologues take the same locks as the translations of their kind.
Kinds == {"Profile", "Optimize", "Live"}
Levels == {"None", "Func", "Kind", "Global"}
Leases == {"global", "optimize", "live"}
NoLease == "none"

Holders == Threads \X (1..MaxDepth)

VARIABLES
  Concurrently,      \* Jit.Concurrently, fixed when the process starts
  threadCanAcquire,  \* may the thread take leases (set once per request)?
  m_owner,           \* Lease: the last thread that took it
  m_held,            \* Lease: is it held?
  m_lock,            \* Lease: the thread that has the mutex locked
  hinted,            \* Lease: m_hintExpire lies in the future
  Locked,            \* functions whose Func::Flags::Locked is set
  tl_ownedFunc,      \* thread-local: functions the thread has locked
  s_jittingThreads,  \* threads counted towards Jit.Threads
  pc,                \* where the thread is
  func,              \* the function of its holders
  depth,             \* how many holders it has on the stack
  m_level,           \* LeaseHolder: what the holder allows
  m_kind,            \* LeaseHolder: the kind of translation it is used for
  m_acquiredLease,   \* LeaseHolder: the lease it took (global or of a kind)
  m_acquiredFunc,    \* LeaseHolder: did it set the flag of the function?
  m_acquiredThread   \* LeaseHolder: did it add to s_jittingThreads?

leaseVars == <<m_owner, m_held, m_lock, hinted>>
funcVars == <<Locked, tl_ownedFunc>>
confVars == <<Concurrently, threadCanAcquire>>
threadVars == <<func, depth>>
acquiredVars == <<m_acquiredLease, m_acquiredFunc, m_acquiredThread>>
vars == <<confVars, leaseVars, funcVars, s_jittingThreads, pc, threadVars,
          m_level, m_kind, acquiredVars>>

Top(t) == <<t, depth[t]>>

LockLevel(k) ==
  CASE Concurrently = 0 -> "Global"
    [] Concurrently > 0 /\ k = "Profile"  -> "Func"
    [] Concurrently > 0 /\ k = "Optimize" ->
         IF Concurrently >= 2 THEN "Func" ELSE "Kind"
    [] Concurrently > 0 /\ k = "Live" ->
         IF Concurrently >= 3 THEN "Func" ELSE "Kind"

\* The lease a thread is after.
LeaseOf(t) == IF Concurrently = 0 THEN "global"
              ELSE IF m_kind[Top(t)] = "Optimize" THEN "optimize" ELSE "live"

\* Only the constructor of a holder of the global lease may wait.
Blocking == RequireWriteLease /\ Concurrently = 0

Init ==
  /\ Concurrently \in Concurrencies
  /\ threadCanAcquire = [t \in Threads |-> TRUE]
  /\ m_owner = [l \in Leases |-> NoThread]
  /\ m_held = [l \in Leases |-> FALSE]
  /\ m_lock = [l \in Leases |-> NoThread]
  /\ hinted = [l \in Leases |-> FALSE]
  /\ Locked = {}
  /\ tl_ownedFunc = [t \in Threads |-> {}]
  /\ s_jittingThreads = 0
  /\ pc = [t \in Threads |-> "run"]
  /\ func = [t \in Threads |-> NoFunc]
  /\ depth = [t \in Threads |-> 0]
  /\ m_level = [h \in Holders |-> "None"]
  /\ m_kind = [h \in Holders |-> "Live"]
  /\ m_acquiredLease = [h \in Holders |-> NoLease]
  /\ m_acquiredFunc = [h \in Holders |-> FALSE]
  /\ m_acquiredThread = [h \in Holders |-> FALSE]

Goto(t, from, to) == pc[t] = from /\ pc' = [pc EXCEPT ![t] = to]
-----------------------------------------------------------------------------
\* Set at the start of a request: is this one allowed to translate?
setMayAcquireLease(t, f) ==
  /\ pc[t] = "run" /\ depth[t] = 0
  /\ threadCanAcquire' = [threadCanAcquire EXCEPT ![t] = f]
  /\ UNCHANGED <<Concurrently, leaseVars, funcVars, s_jittingThreads, pc,
                 threadVars, m_level, m_kind, acquiredVars>>

\* Time passes and a hint expires.
ExpireHint(l) ==
  /\ hinted[l]
  /\ hinted' = [hinted EXCEPT ![l] = FALSE]
  /\ UNCHANGED <<confVars, m_owner, m_held, m_lock, funcVars,
                 s_jittingThreads, pc, threadVars, m_level, m_kind,
                 acquiredVars>>

(***************************************************************************)
(* The constructor of LeaseHolder, up to the first shared access.  Inside  *)
(* a holder only getTranslation and Translator make another one, for the   *)
(* same function and never for an optimized translation.                   *)
(***************************************************************************)
LeaseHolder(t, f, k) ==
  LET h == <<t, depth[t] + 1>>
  IN  /\ depth[t] < MaxDepth
      /\ threadCanAcquire[t]
      /\ depth[t] > 0 => /\ f = func[t]
                         /\ k # "Optimize"
                         /\ m_kind[Top(t)] # "Optimize"
      /\ Goto(t, "run", IF LockLevel(k) = "Func" THEN "setFlag" ELSE "seeHeld")
      /\ func' = [func EXCEPT ![t] = f]
      /\ depth' = [depth EXCEPT ![t] = @ + 1]
      /\ m_kind' = [m_kind EXCEPT ![h] = k]
      /\ UNCHANGED <<confVars, leaseVars, funcVars, s_jittingThreads, m_level,
                     acquiredVars>>

\* The locks of the holder on top are complete: "we acquired all the locks we
\* need to translate".
Complete(t) ==
  m_level' = [m_level EXCEPT ![Top(t)] = LockLevel(m_kind[Top(t)])]

\* The lease is ours.  The constructor goes on to the function's flag, unless
\* there is only the global lease; checkKind is done.
AfterLease(t, from) ==
  \/ /\ Goto(t, from, "setFlag")
     /\ m_level[Top(t)] = "None" /\ Concurrently > 0
     /\ UNCHANGED m_level
  \/ /\ Goto(t, from, "run")
     /\ m_level[Top(t)] # "None" \/ Concurrently = 0
     /\ Complete(t)
-----------------------------------------------------------------------------
(***************************************************************************)
(* Lease.  A thread first asks whether it owns the lease (amOwner: a look  *)
(* at m_held, then at m_owner) and then calls acquire, which asks again.   *)
(***************************************************************************)
\* Mutant: only m_owner is looked at, which names the last owner.
amOwnerHeldIgnored(t) ==
  /\ \/ Goto(t, "seeHeld", "seeOwner")
     \/ Goto(t, "acquire", "acquireOwner")
  /\ UNCHANGED <<confVars, leaseVars, funcVars, s_jittingThreads, threadVars,
                 m_level, m_kind, acquiredVars>>

amOwnerHeld(t) ==
  /\ \/ Goto(t, "seeHeld", IF m_held[LeaseOf(t)] THEN "seeOwner" ELSE "acquire")
     \/ Goto(t, "acquire", IF m_held[LeaseOf(t)] THEN "acquireOwner" ELSE "tryHeld")
  /\ UNCHANGED <<confVars, leaseVars, funcVars, s_jittingThreads, threadVars,
                 m_level, m_kind, acquiredVars>>

\* The caller's question: if we own the lease already, the holder takes
\* nothing and will give nothing back.
amOwnerOwner(t) ==
  /\ pc[t] = "seeOwner"
  /\ \/ /\ m_owner[LeaseOf(t)] = t
        /\ AfterLease(t, "seeOwner")
     \/ /\ m_owner[LeaseOf(t)] # t
        /\ Goto(t, "seeOwner", "acquire")
        /\ UNCHANGED m_level
  /\ UNCHANGED <<confVars, leaseVars, funcVars, s_jittingThreads, threadVars,
                 m_kind, acquiredVars>>

\* The same question inside acquire: a yes makes the holder the one that has
\* acquired the lease.
acquireOwner(t) ==
  /\ pc[t] = "acquireOwner"
  /\ \/ /\ m_owner[LeaseOf(t)] = t
        /\ AfterLease(t, "acquireOwner")
        /\ m_acquiredLease' = [m_acquiredLease EXCEPT ![Top(t)] = LeaseOf(t)]
     \/ /\ m_owner[LeaseOf(t)] # t
        /\ Goto(t, "acquireOwner", "tryHeld")
        /\ UNCHANGED <<m_level, m_acquiredLease>>
  /\ UNCHANGED <<confVars, leaseVars, funcVars, s_jittingThreads, threadVars,
                 m_kind, m_acquiredFunc, m_acquiredThread>>

\* Without blocking: give up if somebody holds the lease.
acquireHeld(t) ==
  /\ Goto(t, "tryHeld", IF Blocking THEN "lock"
                        ELSE IF m_held[LeaseOf(t)] THEN "drop" ELSE "tryHint")
  /\ UNCHANGED <<confVars, leaseVars, funcVars, s_jittingThreads, threadVars,
                 m_level, m_kind, acquiredVars>>

\* Without blocking: give up if the last owner asked to be preferred.
acquireHint(t) ==
  /\ Goto(t, "tryHint", IF hinted[LeaseOf(t)] /\ m_owner[LeaseOf(t)] # t
                        THEN "drop" ELSE "lock")
  /\ UNCHANGED <<confVars, leaseVars, funcVars, s_jittingThreads, threadVars,
                 m_level, m_kind, acquiredVars>>

\* Mutant: a call that must not block locks the mutex.
acquireLockWaits(t) ==
  /\ pc[t] = "lock"
  /\ m_lock[LeaseOf(t)] = NoThread
  /\ Goto(t, "lock", "writeOwner")
  /\ m_lock' = [m_lock EXCEPT ![LeaseOf(t)] = t]
  /\ UNCHANGED <<confVars, m_owner, m_held, hinted, funcVars,
                 s_jittingThreads, threadVars, m_level, m_kind, acquiredVars>>

\* pthread_mutex_lock, or trylock, which fails when the mutex is locked.
acquireLock(t) ==
  /\ pc[t] = "lock"
  /\ \/ /\ m_lock[LeaseOf(t)] = NoThread
        /\ Goto(t, "lock", "writeOwner")
        /\ m_lock' = [m_lock EXCEPT ![LeaseOf(t)] = t]
     \/ /\ m_lock[LeaseOf(t)] # NoThread /\ ~Blocking
        /\ Goto(t, "lock", "drop")
        /\ UNCHANGED m_lock
  /\ UNCHANGED <<confVars, m_owner, m_held, hinted, funcVars,
                 s_jittingThreads, threadVars, m_level, m_kind, acquiredVars>>

acquireWriteOwner(t) ==
  /\ Goto(t, "writeOwner", "writeHeld")
  /\ m_owner' = [m_owner EXCEPT ![LeaseOf(t)] = t]
  /\ hinted' = [hinted EXCEPT ![LeaseOf(t)] = FALSE]
  /\ UNCHANGED <<confVars, m_held, m_lock, funcVars, s_jittingThreads,
                 threadVars, m_level, m_kind, acquiredVars>>

acquireWriteHeld(t) ==
  /\ AfterLease(t, "writeHeld")
  /\ m_held' = [m_held EXCEPT ![LeaseOf(t)] = TRUE]
  /\ m_acquiredLease' = [m_acquiredLease EXCEPT ![Top(t)] = LeaseOf(t)]
  /\ UNCHANGED <<confVars, m_owner, m_lock, hinted, funcVars,
                 s_jittingThreads, threadVars, m_kind, m_acquiredFunc,
                 m_acquiredThread>>
-----------------------------------------------------------------------------
(***************************************************************************)
(* The rest of the constructor.                                            *)
(***************************************************************************)
\* Does the holder count towards Jit.Threads?
Counts(t) == /\ LockLevel(m_kind[Top(t)]) = "Func"
             /\ m_kind[Top(t)] # "Profile"

\* Mutant: a constructor that finds the function locked just returns, as if
\* it had no lease to give back.
setFlagNoCleanup(t) ==
  /\ pc[t] = "setFlag"
  /\ \/ /\ func[t] \notin Locked
        /\ Locked' = Locked \cup {func[t]}
        /\ tl_ownedFunc' = [tl_ownedFunc EXCEPT ![t] = @ \cup {func[t]}]
        /\ m_acquiredFunc' = [m_acquiredFunc EXCEPT ![Top(t)] = TRUE]
        /\ Complete(t)
        /\ UNCHANGED <<depth, func>>
     \/ /\ func[t] \in tl_ownedFunc[t]
        /\ Complete(t)
        /\ UNCHANGED <<depth, func, funcVars, m_acquiredFunc>>
     \/ /\ func[t] \in Locked \ tl_ownedFunc[t]
        /\ depth' = [depth EXCEPT ![t] = @ - 1]
        /\ func' = [func EXCEPT ![t] = IF depth[t] = 1 THEN NoFunc ELSE @]
        /\ UNCHANGED <<funcVars, m_level, m_acquiredFunc>>
  /\ Goto(t, "setFlag", "run")
  /\ UNCHANGED <<confVars, leaseVars, s_jittingThreads, m_kind,
                 m_acquiredLease, m_acquiredThread>>

\* The atomic test-and-set of Func::Flags::Locked.  A flag that was set is
\* fine if it was set by an outer holder of this thread.
setFlag(t) ==
  /\ pc[t] = "setFlag"
  /\ \/ /\ func[t] \notin Locked
        /\ Locked' = Locked \cup {func[t]}
        /\ tl_ownedFunc' = [tl_ownedFunc EXCEPT ![t] = @ \cup {func[t]}]
        /\ m_acquiredFunc' = [m_acquiredFunc EXCEPT ![Top(t)] = TRUE]
        /\ \/ /\ Counts(t)
              /\ Goto(t, "setFlag", "loadThreads")
              /\ UNCHANGED m_level
           \/ /\ ~Counts(t)
              /\ Goto(t, "setFlag", "run")
              /\ Complete(t)
     \/ /\ func[t] \in Locked
        /\ \/ /\ func[t] \in tl_ownedFunc[t]
              /\ Goto(t, "setFlag", "run")
              /\ Complete(t)
           \/ /\ func[t] \notin tl_ownedFunc[t]
              /\ Goto(t, "setFlag", "drop")
              /\ UNCHANGED m_level
        /\ UNCHANGED <<funcVars, m_acquiredFunc>>
  /\ UNCHANGED <<confVars, leaseVars, s_jittingThreads, threadVars, m_kind,
                 m_acquiredLease, m_acquiredThread>>

loadThreads(t) ==
  /\ Goto(t, "loadThreads",
          IF s_jittingThreads >= JitThreads THEN "drop" ELSE "addThread")
  /\ UNCHANGED <<confVars, leaseVars, funcVars, s_jittingThreads, threadVars,
                 m_level, m_kind, acquiredVars>>

\* Mutant: the old value is not checked again.
addThreadUnchecked(t) ==
  /\ pc[t] = "addThread"
  /\ s_jittingThreads' = s_jittingThreads + 1
  /\ m_acquiredThread' = [m_acquiredThread EXCEPT ![Top(t)] = TRUE]
  /\ Goto(t, "addThread", "run")
  /\ Complete(t)
  /\ UNCHANGED <<confVars, leaseVars, funcVars, threadVars, m_kind,
                 m_acquiredLease, m_acquiredFunc>>

\* Mutant: the thread that was one too many takes its unit back at once, and then
\* dropLocks does so again.
addThreadUndone(t) ==
  /\ pc[t] = "addThread"
  /\ m_acquiredThread' = [m_acquiredThread EXCEPT ![Top(t)] = TRUE]
  /\ \/ /\ s_jittingThreads >= JitThreads
        /\ Goto(t, "addThread", "drop")
        /\ UNCHANGED <<s_jittingThreads, m_level>>
     \/ /\ s_jittingThreads < JitThreads
        /\ s_jittingThreads' = s_jittingThreads + 1
        /\ Goto(t, "addThread", "run")
        /\ Complete(t)
  /\ UNCHANGED <<confVars, leaseVars, funcVars, threadVars, m_kind,
                 m_acquiredLease, m_acquiredFunc>>

\* fetch_add; the old value is checked once more, since other threads may
\* have passed loadThreads together with this one.
addThread(t) ==
  /\ pc[t] = "addThread"
  /\ s_jittingThreads' = s_jittingThreads + 1
  /\ m_acquiredThread' = [m_acquiredThread EXCEPT ![Top(t)] = TRUE]
  /\ \/ /\ s_jittingThreads >= JitThreads
        /\ Goto(t, "addThread", "drop")
        /\ UNCHANGED m_level
     \/ /\ s_jittingThreads < JitThreads
        /\ Goto(t, "addThread", "run")
        /\ Complete(t)
  /\ UNCHANGED <<confVars, leaseVars, funcVars, threadVars, m_kind,
                 m_acquiredLease, m_acquiredFunc>>

(***************************************************************************)
(* checkKind: the translator recomputes the kind after it has its locks,   *)
(* because profiling may have ended or begun, and asks for what the new    *)
(* kind needs.  A failure makes it destroy the holder.                     *)
(***************************************************************************)
checkKind(t, k) ==
  LET h == Top(t)
  IN  /\ depth[t] > 0
      /\ k # "Optimize" /\ m_kind[h] # "Optimize"
      /\ m_kind' = [m_kind EXCEPT ![h] = k]
      /\ \/ /\ LockLevel(k) = m_level[h] \/ LockLevel(k) = "Func"
            /\ Goto(t, "run", "run")
            /\ m_level' = [m_level EXCEPT ![h] = LockLevel(k)]
         \/ /\ LockLevel(k) # m_level[h] /\ LockLevel(k) = "Kind"
            /\ Goto(t, "run", "seeHeld")
            /\ UNCHANGED m_level
      /\ UNCHANGED <<confVars, leaseVars, funcVars, s_jittingThreads,
                     threadVars, acquiredVars>>
-----------------------------------------------------------------------------
(***************************************************************************)
(* dropLocks, called by the destructor and by a constructor that failed.   *)
(***************************************************************************)
destroy(t) ==
  /\ depth[t] > 0
  /\ Goto(t, "run", "drop")
  /\ UNCHANGED <<confVars, leaseVars, funcVars, s_jittingThreads, threadVars,
                 m_level, m_kind, acquiredVars>>

dropThread(t) ==
  /\ Goto(t, "drop", "drop")
  /\ m_acquiredThread[Top(t)]
  /\ s_jittingThreads' = s_jittingThreads - 1
  /\ m_acquiredThread' = [m_acquiredThread EXCEPT ![Top(t)] = FALSE]
  /\ UNCHANGED <<confVars, leaseVars, funcVars, threadVars, m_level, m_kind,
                 m_acquiredLease, m_acquiredFunc>>

\* Mutant: the flag is cleared by every holder of the function, also by an
\* inner one that found it set.
dropFuncAlways(t) ==
  /\ Goto(t, "drop", "dropLease")
  /\ ~m_acquiredThread[Top(t)]
  /\ Locked' = Locked \ {func[t]}
  /\ tl_ownedFunc' = [tl_ownedFunc EXCEPT ![t] = @ \ {func[t]}]
  /\ m_acquiredFunc' = [m_acquiredFunc EXCEPT ![Top(t)] = FALSE]
  /\ UNCHANGED <<confVars, leaseVars, s_jittingThreads, threadVars, m_level,
                 m_kind, m_acquiredLease, m_acquiredThread>>

dropFunc(t) ==
  /\ Goto(t, "drop", "dropLease")
  /\ ~m_acquiredThread[Top(t)]
  /\ \/ /\ m_acquiredFunc[Top(t)]
        /\ tl_ownedFunc' = [tl_ownedFunc EXCEPT ![t] = @ \ {func[t]}]
        /\ Locked' = Locked \ {func[t]}
        /\ m_acquiredFunc' = [m_acquiredFunc EXCEPT ![Top(t)] = FALSE]
     \/ /\ ~m_acquiredFunc[Top(t)]
        /\ UNCHANGED <<funcVars, m_acquiredFunc>>
  /\ UNCHANGED <<confVars, leaseVars, s_jittingThreads, threadVars, m_level,
                 m_kind, m_acquiredLease, m_acquiredThread>>

\* The holder ends: back to the code around it.
PopHolder(t, from) ==
  /\ Goto(t, from, "run")
  /\ depth' = [depth EXCEPT ![t] = @ - 1]
  /\ func' = [func EXCEPT ![t] = IF depth[t] = 1 THEN NoFunc ELSE @]
  /\ m_level' = [m_level EXCEPT ![Top(t)] = "None"]
  /\ m_kind' = [m_kind EXCEPT ![Top(t)] = "Live"]

\* Lease::drop, up to the mutex.
dropHeld(t) ==
  LET l == m_acquiredLease[Top(t)]
  IN  /\ pc[t] = "dropLease"
      /\ \/ /\ l # NoLease
            /\ Goto(t, "dropLease", "unlock")
            /\ hinted' = [hinted EXCEPT ![l] = TRUE]
            /\ m_held' = [m_held EXCEPT ![l] = FALSE]
            /\ UNCHANGED <<depth, func, m_level, m_kind>>
         \/ /\ l = NoLease
            /\ PopHolder(t, "dropLease")
            /\ UNCHANGED <<hinted, m_held>>
      /\ UNCHANGED <<confVars, m_owner, m_lock, funcVars, s_jittingThreads,
                     acquiredVars>>

unlock(t) ==
  LET l == m_acquiredLease[Top(t)]
  IN  /\ PopHolder(t, "unlock")
      /\ m_lock' = [m_lock EXCEPT ![l] = NoThread]
      /\ m_acquiredLease' = [m_acquiredLease EXCEPT ![Top(t)] = NoLease]
      /\ UNCHANGED <<confVars, m_owner, m_held, hinted, funcVars,
                     s_jittingThreads, m_acquiredFunc,
                     m_acquiredThread>>
-----------------------------------------------------------------------------
\* The steps a thread takes on its own once it has begun.
Step(t) ==
  \/ amOwnerHeld(t) \/ amOwnerOwner(t) \/ acquireOwner(t)
  \/ acquireHeld(t) \/ acquireHint(t)
  \/ acquireLock(t) \/ acquireWriteOwner(t) \/ acquireWriteHeld(t)
  \/ setFlag(t) \/ loadThreads(t) \/ addThread(t)
  \/ dropThread(t) \/ dropFunc(t) \/ dropHeld(t) \/ unlock(t)

Next ==
  \/ \E l \in Leases : ExpireHint(l)
  \/ \E t \in Threads :
       \/ \E f \in BOOLEAN : setMayAcquireLease(t, f)
       \/ \E f \in Funcs, k \in Kinds : LeaseHolder(t, f, k)
       \/ \E k \in Kinds : checkKind(t, k)
       \/ destroy(t)
       \/ Step(t)

Spec == Init /\ [][Next]_vars

\* A thread inside a constructor, checkKind or a destructor keeps running.
FairSpec == Spec /\ \A t \in Threads : WF_vars(Step(t))
-----------------------------------------------------------------------------
Types ==
  /\ Concurrently \in Concurrencies
  /\ threadCanAcquire \in [Threads -> BOOLEAN]
  /\ m_owner \in [Leases -> Threads \cup {NoThread}]
  /\ m_held \in [Leases -> BOOLEAN]
  /\ m_lock \in [Leases -> Threads \cup {NoThread}]
  /\ hinted \in [Leases -> BOOLEAN]
  /\ Locked \subseteq Funcs
  /\ tl_ownedFunc \in [Threads -> SUBSET Funcs]
  /\ s_jittingThreads \in Int
  /\ pc \in [Threads -> {"run", "seeHeld", "seeOwner", "acquire",
                         "acquireOwner", "tryHeld", "tryHint", "lock",
                         "writeOwner", "writeHeld", "setFlag", "loadThreads",
                         "addThread", "drop", "dropLease", "unlock"}]
  /\ func \in [Threads -> Funcs \cup {NoFunc}]
  /\ depth \in [Threads -> 0..MaxDepth]
  /\ m_level \in [Holders -> Levels]
  /\ m_kind \in [Holders -> Kinds]
  /\ m_acquiredLease \in [Holders -> Leases \cup {NoLease}]
  /\ m_acquiredFunc \in [Holders -> BOOLEAN]
  /\ m_acquiredThread \in [Holders -> BOOLEAN]

\* Types of the leases, holders and threads; and the counter of jitting threads,
\* which comparisons with Jit.Threads take for a number of threads, never goes
\* below 0.
TypeOK == Types /\ s_jittingThreads >= 0

Dropping(t) == pc[t] \in {"drop", "dropLease", "unlock"}

\* A holder that is on the stack, converts to true and is not being destroyed:
\* its thread may translate.
Valid(h) ==
  /\ m_level[h] # "None"
  /\ h[2] = depth[h[1]] => ~Dropping(h[1])

\* "These locks give the owning thread exclusive permission to write to the
\* SrcRec for translations of the corresponding Func" (tc-internal.h): two
\* threads never have a holder of one function, however their constructors,
\* nested holders and destructors interleave.
FuncExclusive ==
  Concurrently > 0 =>
    \A g, h \in Holders :
      (Valid(g) /\ Valid(h) /\ func[g[1]] = func[h[1]]) => g[1] = h[1]

\* The Kind level "allows 1 Optimize concurrent with 1 Live translation" and
\* the Global level "1 translation at a time": the leases exclude other
\* threads although amOwner looks at them without the mutex.
LevelExclusive ==
  \A g, h \in Holders :
    (Valid(g) /\ Valid(h) /\ m_level[g] = m_level[h]
       /\ \/ m_level[g] = "Global"
          \/ m_level[g] = "Kind" /\ m_kind[g] = m_kind[h])
      => g[1] = h[1]

\* Whatever the level of concurrency, a thread with a valid holder has the
\* exclusive permission that the holder's level stands for.
ExclusivePermission == FuncExclusive /\ LevelExclusive

\* amOwner reads m_held and m_owner at two different times and yet "returns
\* true iff the Lease is locked and the current thread is the owner"; and
\* drop is only called by the owner, as it asserts.
AmOwnerExact ==
  \A t \in Threads :
    /\ pc[t] \in {"seeOwner", "acquireOwner"} =>
         (m_owner[LeaseOf(t)] = t <=> m_lock[LeaseOf(t)] = t)
    /\ (pc[t] = "dropLease" /\ m_acquiredLease[Top(t)] # NoLease) =>
         /\ m_held[m_acquiredLease[Top(t)]]
         /\ m_owner[m_acquiredLease[Top(t)]] = t

\* Every lock that is taken is to be given back by exactly one holder on the
\* stack of the thread that has it, also when constructors fail half way: a
\* thread without holders has no lock left.
LocksAccounted ==
  /\ \A l \in Leases : \A t \in Threads : m_lock[l] = t =>
       \/ pc[t] \in {"writeOwner", "writeHeld"} /\ LeaseOf(t) = l
       \/ \E d \in 1..depth[t] : \A e \in 1..MaxDepth :
            (m_acquiredLease[<<t, e>>] = l) <=> e = d
  /\ \A f \in Locked : \E t \in Threads :
       /\ tl_ownedFunc[t] = {f} /\ func[t] = f
       /\ \A u \in Threads \ {t} : f \notin tl_ownedFunc[u]
       /\ \E d \in 1..depth[t] : \A e \in 1..MaxDepth :
            m_acquiredFunc[<<t, e>>] <=> e = d

\* The counter of jitting threads is exact, and although threads load it,
\* add to it and check it in separate steps, no more than Jit.Threads of the
\* threads that count have a valid holder.
ThreadsBounded ==
  /\ s_jittingThreads = Cardinality({h \in Holders : m_acquiredThread[h]})
  /\ Cardinality({h \in Holders : m_acquiredThread[h] /\ Valid(h)})
       <= JitThreads

\* With Jit.Concurrently above 0 nobody ever waits for a translation of
\* another thread: a constructor, checkKind or destructor comes to its end
\* whatever the other threads do or fail to do.
NobodyWaits ==
  \A t \in Threads :
    (Concurrently > 0 /\ pc[t] # "run") ~> (pc[t] = "run")
===============================================================================
