------------------------------ MODULE Treadmill ------------------------------
(***************************************************************************)
(* The treadmill (hphp/runtime/vm/treadmill.cpp) defers work, typically    *)
(* the freeing of shared memory, until every request that was in flight    *)
(* when the work was enqueued has finished.  Requests announce themselves  *)
(* with startRequest and finishRequest; the thread whose finishRequest     *)
(* makes work items unreachable takes them off the queue and runs them     *)
(* after it has released the state lock.                                   *)
(*                                                                         *)
(* One thread owns one slot of the s_inflightRequests vector for its whole *)
(* life, so the vector is a function of threads here, and its order is the *)
(* order of the threads' request indexes.                                  *)
(***************************************************************************)
EXTENDS Integers, Sequences

CONSTANTS
  Threads,                \* threads that run requests or enqueue work
  Items,                  \* work items, each enqueued at most once
  WithRequestInfo,        \* the threads that have a RequestInfo
  MaxTime,                \* bound: the clock stops here
  Timeouts,               \* values RequestInjectionData::getTimeout() may give
  Kinds,                  \* session kinds in play
  MaxRequestAgeFactor,    \* Cfg::Server::MaxRequestAgeFactor
  RequestTimeoutSeconds,  \* Cfg::Server::RequestTimeoutSeconds
  debug,                  \* is this a debug build?
  NoThread,               \* nobody
  NoItem                  \* no work item

ASSUME TreadmillAssumption ==
  /\ WithRequestInfo \subseteq Threads
  /\ MaxTime \in Nat \ {0}
  /\ Timeouts \subseteq Nat
  /\ MaxRequestAgeFactor \in Nat
  /\ RequestTimeoutSeconds \in Nat
  /\ debug \in BOOLEAN
  /\ NoThread \notin Threads
  /\ NoItem \notin Items

\* The two kinds that getRequestToAbort tells apart.
TranslateWorker == "TranslateWorker"
RetranslateAll == "RetranslateAll"

\* The epoch marks an idle slot, and "no request in flight" globally.
kNoStartTime == 0
kInvalidRequestIdx == -1

VARIABLES
  clock,                   \* Clock::now(), monotonic but not strictly so
  g_nextThreadIdx,         \* next request index to hand out
  rl_thisRequestIdx,       \* each thread's index
  s_stateLock,             \* the thread in the status loop of finishRequest, which
                           \* keeps the lock; the other sections are one step each
  s_inflightRequests,      \* each thread's slot
  s_oldestRequestInFlight, \* start time of the oldest request in flight
  s_tq,                    \* pending work items, in the order they were appended
  s_destroyed,             \* has the pending list been destroyed (process exit)?
  timestamp,               \* WorkItem::m_timestamp, 0 before it is taken
  enqueuing,               \* the item a thread has stamped but not yet appended
  toFire,                  \* the items a finishing thread has still to run
  ran,                     \* items that have run
  gcStatus,                \* RequestInfo::m_globalGCStatus
  gcRound,                 \* "i" of the status loop
  gcSecond,                \* is the second exchange of the round next?
  aborted,                 \* the thread that was sent SIGABRT
  outstanding              \* history: the requests each item has to outlive

vars == <<clock, g_nextThreadIdx, rl_thisRequestIdx, s_stateLock,
          s_inflightRequests, s_oldestRequestInFlight, s_tq, s_destroyed,
          timestamp, enqueuing, toFire, ran, gcStatus, gcRound, gcSecond,
          aborted, outstanding>>

idxVars == <<g_nextThreadIdx, rl_thisRequestIdx>>
loopVars == <<s_stateLock, gcRound, gcSecond>>
requestVars == <<s_inflightRequests, s_oldestRequestInFlight, gcStatus>>
itemVars == <<s_tq, s_destroyed, timestamp, enqueuing, toFire, ran, outstanding>>
-----------------------------------------------------------------------------
StartTime(t) == s_inflightRequests[t].startTime

InFlight == {t \in Threads : StartTime(t) # kNoStartTime}

\* A thread that may begin a new call: it runs no work item, is not in the
\* middle of enqueueInternal or finishRequest, and the process is not dying.
Free(t) == /\ aborted = NoThread
           /\ enqueuing[t] = NoItem
           /\ toFire[t] = <<>>
           /\ s_stateLock # t

\* The state lock can be taken.
Unlocked == s_stateLock = NoThread

GCStatus == {"Idle", "OnRequestWithNoPendingExecution",
             "OnRequestWithPendingExecution"}

Init ==
  /\ clock = 1
  /\ g_nextThreadIdx = 0
  /\ rl_thisRequestIdx = [t \in Threads |-> kInvalidRequestIdx]
  /\ s_stateLock = NoThread
  /\ s_inflightRequests = [t \in Threads |->
       [startTime |-> kNoStartTime, timeout |-> 0, sessionKind |-> "None"]]
  /\ s_oldestRequestInFlight = kNoStartTime
  /\ s_tq = <<>>
  /\ s_destroyed = FALSE
  /\ timestamp = [i \in Items |-> 0]
  /\ enqueuing = [t \in Threads |-> NoItem]
  /\ toFire = [t \in Threads |-> <<>>]
  /\ ran = {}
  /\ gcStatus = [t \in Threads |-> "Idle"]
  /\ gcRound = 0
  /\ gcSecond = FALSE
  /\ aborted = NoThread
  /\ outstanding = [i \in Items |-> {}]
-----------------------------------------------------------------------------
(***************************************************************************)
(* Detecting a stuck treadmill.                                            *)
(***************************************************************************)
Larger(a, b) == IF a >= b THEN a ELSE b

AgeLimit(t) == Larger(MaxRequestAgeFactor * RequestTimeoutSeconds,
                      MaxRequestAgeFactor * s_inflightRequests[t].timeout)

\* The requests getRequestToAbort does not skip.
OverLimit == {t \in InFlight : /\ AgeLimit(t) # 0
                               /\ clock - StartTime(t) > AgeLimit(t)}

Workers == {t \in OverLimit :
              s_inflightRequests[t].sessionKind = TranslateWorker}

\* What "oldest" holds after the loop: it is assigned in every iteration that
\* is not skipped, so it is the last such slot.
LastSlot(t) ==
  \A u \in OverLimit : rl_thisRequestIdx[u] <= rl_thisRequestIdx[t]

\* What "oldestWorker" holds: the first among the workers that began first.
OldestWorker(t) ==
  /\ t \in Workers
  /\ \A u \in Workers : \/ StartTime(t) < StartTime(u)
                         \/ /\ StartTime(t) = StartTime(u)
                            /\ rl_thisRequestIdx[t] <= rl_thisRequestIdx[u]

\* Is r the request that getRequestToAbort returns?
getRequestToAbort(r) ==
  \E oldest \in OverLimit :
    /\ LastSlot(oldest)
    /\ IF /\ s_inflightRequests[oldest].sessionKind = RetranslateAll
          /\ Workers # {}
       THEN OldestWorker(r)
       ELSE r = oldest

\* checkOldest does not return: some request has to be aborted.
MustAbort(force) ==
  /\ force \/ ~debug
  /\ MaxRequestAgeFactor * RequestTimeoutSeconds # 0
  /\ s_oldestRequestInFlight # kNoStartTime
  /\ clock - s_oldestRequestInFlight >
       MaxRequestAgeFactor * RequestTimeoutSeconds
  /\ OverLimit # {}

\* The SIGABRT ends the process; nothing else happens after it.
AbortServer ==
  /\ \E r \in OverLimit : getRequestToAbort(r) /\ aborted' = r
  /\ UNCHANGED <<clock, idxVars, requestVars, loopVars, itemVars>>
-----------------------------------------------------------------------------
\* Clock::now() advances.
Tick ==
  /\ aborted = NoThread
  /\ clock < MaxTime
  /\ clock' = clock + 1
  /\ UNCHANGED <<idxVars, requestVars, loopVars, itemVars, aborted>>

\* A thread draws its index the first time it uses the treadmill, before it
\* takes the state lock.
requestIdx(t) ==
  /\ Free(t)
  /\ rl_thisRequestIdx[t] = kInvalidRequestIdx
  /\ rl_thisRequestIdx' = [rl_thisRequestIdx EXCEPT ![t] = g_nextThreadIdx]
  /\ g_nextThreadIdx' = g_nextThreadIdx + 1
  /\ UNCHANGED <<clock, requestVars, loopVars, itemVars, aborted>>

\* A thread without a RequestInfo has no timeout and no GC status.
startRequest(t, kind, timeout) ==
  /\ Free(t) /\ Unlocked
  /\ rl_thisRequestIdx[t] # kInvalidRequestIdx
  /\ t \notin InFlight
  /\ ~MustAbort(FALSE)
  /\ s_inflightRequests' = [s_inflightRequests EXCEPT ![t] =
       [startTime |-> clock,
        timeout |-> IF t \in WithRequestInfo THEN timeout ELSE 0,
        sessionKind |-> kind]]
  /\ s_oldestRequestInFlight' =
       IF s_oldestRequestInFlight = kNoStartTime
       THEN clock ELSE s_oldestRequestInFlight
  /\ gcStatus' = [gcStatus EXCEPT ![t] =
       IF t \in WithRequestInfo /\ @ = "Idle"
       THEN "OnRequestWithNoPendingExecution" ELSE @]
  /\ UNCHANGED <<clock, idxVars, loopVars, itemVars, aborted>>

\* The same call when the check at its start finds the treadmill stuck.
startRequestAborts(t) ==
  /\ Free(t) /\ Unlocked
  /\ rl_thisRequestIdx[t] # kInvalidRequestIdx
  /\ t \notin InFlight
  /\ MustAbort(FALSE)
  /\ AbortServer

checkForStuckTreadmill(t) ==
  /\ Free(t) /\ Unlocked
  /\ MustAbort(TRUE)
  /\ AbortServer

\* enqueueInternal up to the lock: the item is stamped with the time.  The
\* history variable notes which requests are in flight at that instant.
enqueueStamp(t, i) ==
  /\ aborted = NoThread
  /\ enqueuing[t] = NoItem /\ s_stateLock # t
  /\ timestamp[i] = 0
  /\ ~s_destroyed
  /\ timestamp' = [timestamp EXCEPT ![i] = clock]
  /\ enqueuing' = [enqueuing EXCEPT ![t] = i]
  /\ outstanding' = [outstanding EXCEPT ![i] = InFlight]
  /\ UNCHANGED <<clock, idxVars, requestVars, loopVars, s_tq, s_destroyed,
                 toFire, ran, aborted>>

\* enqueueInternal under the lock.
enqueueAppend(t) ==
  /\ aborted = NoThread
  /\ enqueuing[t] # NoItem
  /\ Unlocked
  /\ s_tq' = Append(s_tq, enqueuing[t])
  /\ enqueuing' = [enqueuing EXCEPT ![t] = NoItem]
  /\ UNCHANGED <<clock, idxVars, requestVars, loopVars, s_destroyed, timestamp,
                 toFire, ran, aborted, outstanding>>

(***************************************************************************)
(* finishRequest.  "limit" in the code is the earliest remaining start     *)
(* time, or the end of time; an item older than it is unreachable.         *)
(***************************************************************************)
\* Mutant: an item stamped in the same instant a request started is released.
UnreachableOrEqual(i, remaining) ==
  \A u \in remaining : timestamp[i] <= StartTime(u)

Unreachable(i, remaining) ==
  \A u \in remaining : timestamp[i] < StartTime(u)

\* Mutant: the items are copied and not erased from the list.
CollectTriggersNoErase(t, remaining) ==
  \E n \in 0..Len(s_tq) :
    /\ \A k \in 1..n : Unreachable(s_tq[k], remaining)
    /\ n < Len(s_tq) => ~Unreachable(s_tq[n + 1], remaining)
    /\ toFire' = [toFire EXCEPT ![t] = SubSeq(s_tq, 1, n)]
    /\ s_tq' = s_tq

\* Mutant: one item per finished request.
CollectTriggersOne(t, remaining) ==
  LET n == IF s_tq = <<>> THEN 0 ELSE
           IF Unreachable(Head(s_tq), remaining) THEN 1 ELSE 0
  IN  /\ toFire' = [toFire EXCEPT ![t] = SubSeq(s_tq, 1, n)]
      /\ s_tq' = SubSeq(s_tq, n + 1, Len(s_tq))

\* The leading unreachable items; the scan stops at the first other one.
CollectTriggers(t, remaining) ==
  \E n \in 0..Len(s_tq) :
    /\ \A k \in 1..n : Unreachable(s_tq[k], remaining)
    /\ n < Len(s_tq) => ~Unreachable(s_tq[n + 1], remaining)
    /\ toFire' = [toFire EXCEPT ![t] = SubSeq(s_tq, 1, n)]
    /\ s_tq' = SubSeq(s_tq, n + 1, Len(s_tq))

\* Mutant: the end of time is stored when no request remains.
UpdateOldestNoReset(remaining) ==
  \/ /\ remaining = {}
     /\ s_oldestRequestInFlight' = MaxTime + 1
  \/ \E u \in remaining :
       /\ \A v \in remaining : StartTime(u) <= StartTime(v)
       /\ s_oldestRequestInFlight' = StartTime(u)

\* Mutant: the oldest start time is kept while other requests remain.
UpdateOldestWhenQuiet(remaining) ==
  s_oldestRequestInFlight' =
    IF remaining = {} THEN kNoStartTime ELSE s_oldestRequestInFlight

UpdateOldest(remaining) ==
  \/ /\ remaining = {}
     /\ s_oldestRequestInFlight' = kNoStartTime
  \/ \E u \in remaining :
       /\ \A v \in remaining : StartTime(u) <= StartTime(v)
       /\ s_oldestRequestInFlight' = StartTime(u)

\* finishRequest up to the status loop.  A thread with a RequestInfo goes into
\* the loop with the lock held; for the others this is the whole section.
finishRequest(t) ==
  LET remaining == InFlight \ {t}
  IN  /\ Free(t) /\ Unlocked
      /\ t \in InFlight
      /\ s_inflightRequests' = [s_inflightRequests EXCEPT ![t] =
           [startTime |-> kNoStartTime, timeout |-> @.timeout,
            sessionKind |-> @.sessionKind]]
      /\ \/ /\ s_oldestRequestInFlight = StartTime(t)
            /\ UpdateOldest(remaining)
            /\ CollectTriggers(t, remaining)
         \/ /\ s_oldestRequestInFlight # StartTime(t)
            /\ UNCHANGED <<s_oldestRequestInFlight, s_tq, toFire>>
      /\ s_stateLock' = IF t \in WithRequestInfo THEN t ELSE NoThread
      /\ outstanding' = [i \in Items |-> outstanding[i] \ {t}]
      /\ UNCHANGED <<clock, idxVars, s_destroyed, timestamp, enqueuing, ran,
                     gcStatus, gcRound, gcSecond, aborted>>

(***************************************************************************)
(* The status loop: in each round an exchange from "pending" and one from  *)
(* "no pending", each atomic; SetPendingGC may come between any two.  The  *)
(* loop ends with the first exchange that succeeds or after "limit"        *)
(* rounds, and the lock is released.                                       *)
(***************************************************************************)
\* Mutant: one round.
gcLimitOne == 1

gcLimit == 100

LeaveStatusLoop ==
  /\ s_stateLock' = NoThread
  /\ gcRound' = 0
  /\ gcSecond' = FALSE

SetIdle(t) == gcStatus' = [gcStatus EXCEPT ![t] = "Idle"]

exchangePending(t) ==
  /\ aborted = NoThread
  /\ s_stateLock = t /\ ~gcSecond
  /\ \/ /\ gcStatus[t] = "OnRequestWithPendingExecution"
        /\ SetIdle(t)
        /\ LeaveStatusLoop
     \/ /\ gcStatus[t] # "OnRequestWithPendingExecution"
        /\ gcSecond' = TRUE
        /\ UNCHANGED <<gcStatus, s_stateLock, gcRound>>
  /\ UNCHANGED <<clock, idxVars, s_inflightRequests, s_oldestRequestInFlight,
                 itemVars, aborted>>

exchangeNoPending(t) ==
  /\ aborted = NoThread
  /\ s_stateLock = t /\ gcSecond
  /\ \/ /\ gcStatus[t] = "OnRequestWithNoPendingExecution"
        /\ SetIdle(t)
        /\ LeaveStatusLoop
     \/ /\ gcStatus[t] # "OnRequestWithNoPendingExecution"
        /\ gcRound' = IF gcRound + 1 < gcLimit THEN gcRound + 1 ELSE 0
        /\ gcSecond' = FALSE
        /\ s_stateLock' = IF gcRound + 1 < gcLimit THEN t ELSE NoThread
        /\ UNCHANGED gcStatus
  /\ UNCHANGED <<clock, idxVars, s_inflightRequests, s_oldestRequestInFlight,
                 itemVars, aborted>>

\* WorkItem::run, on the finishing thread, with the lock released.  The item
\* may itself enqueue work: enqueueStamp does not ask for toFire to be empty.
run(t) ==
  /\ aborted = NoThread
  /\ enqueuing[t] = NoItem /\ s_stateLock # t
  /\ toFire[t] # <<>>
  /\ ran' = ran \cup {Head(toFire[t])}
  /\ toFire' = [toFire EXCEPT ![t] = Tail(@)]
  /\ UNCHANGED <<clock, idxVars, requestVars, loopVars, s_tq, s_destroyed,
                 timestamp, enqueuing, aborted, outstanding>>

\* RequestInfo::SetPendingGCForAllOnRequest for one thread: it holds the
\* request-info lock and not the treadmill's.
SetPendingGC(t) ==
  /\ aborted = NoThread
  /\ gcStatus[t] = "OnRequestWithNoPendingExecution"
  /\ gcStatus' = [gcStatus EXCEPT ![t] = "OnRequestWithPendingExecution"]
  /\ UNCHANGED <<clock, idxVars, s_inflightRequests, s_oldestRequestInFlight,
                 loopVars, itemVars, aborted>>

\* Static destruction of the pending list at process exit: what is queued never
\* runs and later enqueues are dropped.  It comes when the threads are gone
\* ("All threads should have already exited before process exit",
\* hphp_thread_exit), so no request is in flight and no call under way.
Destroy ==
  /\ InFlight = {}
  /\ \A t \in Threads : Free(t)
  /\ ~s_destroyed
  /\ s_destroyed' = TRUE
  /\ s_tq' = <<>>
  /\ UNCHANGED <<clock, idxVars, requestVars, loopVars, timestamp, enqueuing,
                 toFire, ran, aborted, outstanding>>

Next ==
  \/ Tick
  \/ Destroy
  \/ \E t \in Threads :
       \/ requestIdx(t)
       \/ \E k \in Kinds, to \in Timeouts : startRequest(t, k, to)
       \/ startRequestAborts(t)
       \/ checkForStuckTreadmill(t)
       \/ \E i \in Items : enqueueStamp(t, i)
       \/ enqueueAppend(t)
       \/ finishRequest(t)
       \/ exchangePending(t)
       \/ exchangeNoPending(t)
       \/ run(t)
       \/ SetPendingGC(t)

Spec == Init /\ [][Next]_vars

\* A request ends (the request timeout sees to that), a thread does not stop
\* inside a treadmill call, a thread that waits for the lock gets it although
\* others take it again and again, and time goes on.
Fairness ==
  /\ WF_vars(Tick)
  /\ \A t \in Threads : /\ SF_vars(enqueueAppend(t))
                        /\ SF_vars(finishRequest(t))
                        /\ WF_vars(exchangePending(t))
                        /\ WF_vars(exchangeNoPending(t))
                        /\ WF_vars(run(t))

FairSpec == Spec /\ Fairness
-----------------------------------------------------------------------------
\* Types of the treadmill's state.  The oldest request never began in the
\* future: "assertx(oldest <= startTime)" in startRequest.
TypeOK ==
  /\ clock \in Nat \ {0}
  /\ g_nextThreadIdx \in Nat
  /\ rl_thisRequestIdx \in [Threads -> Nat \cup {kInvalidRequestIdx}]
  /\ s_inflightRequests \in
       [Threads -> [startTime : Nat, timeout : Nat, sessionKind : Kinds \cup {"None"}]]
  /\ s_stateLock \in Threads \cup {NoThread}
  /\ s_oldestRequestInFlight \in 0..clock
  /\ s_tq \in Seq(Items)
  /\ s_destroyed \in BOOLEAN
  /\ timestamp \in [Items -> Nat]
  /\ enqueuing \in [Threads -> Items \cup {NoItem}]
  /\ toFire \in [Threads -> Seq(Items)]
  /\ ran \in SUBSET Items
  /\ gcStatus \in [Threads -> GCStatus]
  /\ gcRound \in Nat
  /\ gcSecond \in BOOLEAN
  /\ aborted \in Threads \cup {NoThread}
  /\ outstanding \in [Items -> SUBSET Threads]

(***************************************************************************)
(* The promise of the treadmill: "defer work until all currently           *)
(* outstanding requests have finished".  When a finishing thread has taken *)
(* an item to run it, no request is left of those that were in flight when *)
(* enqueueInternal read the clock, even though that read is outside the    *)
(* lock and the list is not sorted by timestamp.                           *)
(***************************************************************************)
FiresOnlyUnreachable ==
  /\ \A t \in Threads : \A k \in 1..Len(toFire[t]) :
       outstanding[toFire[t][k]] = {}
  /\ \A i \in ran : outstanding[i] = {}

\* s_oldestRequestInFlight, updated incrementally by startRequest and
\* finishRequest, is the minimum over the slots that are in use.
OldestIsMinimum ==
  \/ /\ InFlight = {}
     /\ s_oldestRequestInFlight = kNoStartTime
  \/ \E u \in InFlight :
       /\ s_oldestRequestInFlight = StartTime(u)
       /\ \A v \in InFlight : StartTime(u) <= StartTime(v)

\* Where an item is between its stamping and its run, as often as it is there.
Enqueuing(i) == {<<"enqueuing", t>> : t \in {u \in Threads : enqueuing[u] = i}}

Queued(i) == {<<"s_tq", k>> : k \in {n \in 1..Len(s_tq) : s_tq[n] = i}}

Firing(i) ==
  UNION {{<<t, k>> : k \in {n \in 1..Len(toFire[t]) : toFire[t][n] = i}}
           : t \in Threads}

Ran(i) == IF i \in ran THEN {<<"ran", 0>>} ELSE {}

Places(i) == Enqueuing(i) \cup Queued(i) \cup Firing(i) \cup Ran(i)

\* The moves between enqueuing thread, queue and finishing thread neither
\* lose nor duplicate a work item: until the list is destroyed at exit, a
\* stamped item is in exactly one place, so its function is called once.
ItemsConserved ==
  \A i \in Items : timestamp[i] # 0 =>
    \/ s_destroyed /\ Places(i) = {}
    \/ \E p \in Places(i) : Places(i) = {p}

\* However SetPendingGCForAllOnRequest falls between the exchanges of the
\* status loop, the loop does not run out of rounds ("assertx(i < limit)") but
\* ends in its second one at the latest, and when it has ended the status is
\* Idle: it is so exactly while its thread is outside a request.
GCStatusFollowsRequest ==
  /\ gcRound <= 1
  /\ \A t \in WithRequestInfo :
       t \in InFlight \/ s_stateLock = t <=> gcStatus[t] # "Idle"

\* When the last request in flight finishes, whatever its place in the
\* vector, the whole queue becomes runnable and finishRequest takes it.
DrainsWhenQuiet ==
  [][InFlight # {} /\ InFlight' = {} => s_tq' = <<>>]_vars

\* The treadmill implements the deferred work its header promises: the items
\* that have been stamped are the submitted ones, and every step of the
\* clocks, slots and queues is a step of DeferredWork or invisible to it.
Deferred == INSTANCE DeferredWork
              WITH Requests <- Threads,
                   active <- InFlight,
                   submitted <- {i \in Items : timestamp[i] # 0},
                   waitsFor <- outstanding

\* Every behaviour of the treadmill is a behaviour of DeferredWork: an item
\* runs only once the requests in flight at its enqueue have finished.
ImplementsDeferredWork == Deferred!Spec

(***************************************************************************)
(* A queued item runs once there is a request whose end can release it,    *)
(* although requests go on to start and overlap for ever, unless           *)
(* checkOldest ends the process before.  The clock of the model stands     *)
(* still in the end, which Clock::now() does not: the items in question    *)
(* are those stamped before that, with nothing in front of them in the     *)
(* list that was not.                                                      *)
(***************************************************************************)
QueuedItemRuns ==
  \A i \in Items :
    /\ InFlight # {}
    /\ \E k \in 1..Len(s_tq) : /\ s_tq[k] = i
                              /\ \A j \in 1..k : timestamp[s_tq[j]] < MaxTime
    ~> (i \in ran \/ aborted # NoThread)
=============================================================================
