------------------------------ MODULE JobQueue ------------------------------
(***************************************************************************)
(* The job queue (hphp/util/job-queue.h): JobQueue, the threads that run   *)
(* JobQueueWorker::start on it, the job reaper, and what the dispatcher    *)
(* does to the queue.                                                      *)
(*                                                                         *)
(* A critical section under the queue's lock is one step, except that a    *)
(* thread between two waits keeps the lock for several steps               *)
(* (mutex = w): what happens without the lock falls between them.          *)
(***************************************************************************)
EXTENDS SynchronizableMulti

CONSTANTS
  Workers,           \* worker threads; a worker's id is its own name
  Reaper,            \* the job reaper thread (its id is the queue's
                     \* m_jobReaperId: QueueCount = ThreadCount)
  HasReaper,         \* is m_maxJobQueuingMs > 0?
  Jobs,              \* jobs, each enqueued at most once
  LateJobs,          \* those that clients enqueue even after the stop
  NumPriorities,     \* m_jobQueues.size()
  NumGroups,         \* number of NUMA nodes
  NumaNode,          \* s_numaNode of every thread
  lifoSwitchThreshold,
  dropCacheTimeout,  \* is m_dropCacheTimeout > 0?
  HugeWorkers,       \* workers with a huge stack (highPri)
  Unlimited,         \* INT_MAX, as m_maxActiveWorkers
  Limits,            \* values the dispatcher sets it to: 0 and Unlimited
  Targets,           \* values releaseQueuedJobs is called with
  EagerNotify,       \* values of enqueue's eagerNotify
  Stoppable,         \* workers that setMaxThreadCount may stop
  Spurious,          \* may a condition variable wake up spuriously?
  NoJob, NoThread, NoTarget, Due

Threads == Workers \cup (IF HasReaper THEN {Reaper} ELSE {})
Priorities == 0..NumPriorities - 1

ASSUME JobQueueAssumption ==
  /\ NumPriorities \in Nat \ {0}
  /\ NumGroups \in Nat \ {0}
  /\ lifoSwitchThreshold \in Nat
  /\ HasReaper \in BOOLEAN /\ dropCacheTimeout \in BOOLEAN
  /\ Spurious \in BOOLEAN
  /\ LateJobs \subseteq Jobs /\ IsFiniteSet(Jobs) /\ IsFiniteSet(Workers)
  /\ NumaNode \in [Threads -> 0..NumGroups - 1]
  /\ HugeWorkers \subseteq Workers /\ Stoppable \subseteq Workers
  /\ Reaper \notin Workers
  /\ Unlimited \in Nat /\ Limits \subseteq {0, Unlimited}
  /\ Cardinality(Threads) < Unlimited
  /\ EagerNotify \subseteq BOOLEAN
  /\ Targets \subseteq Nat /\ NoTarget \notin Targets /\ Due \notin Targets
  /\ Due # NoTarget
  /\ NoJob \notin Jobs /\ NoThread \notin Threads

VARIABLES
  m_jobQueues,         \* a deque of jobs per priority
  m_jobCount,
  m_stopped,
  m_workerCount,
  m_maxActiveWorkers,
  monitor,             \* the SynchronizableMulti base class
  mutex,               \* the thread that keeps the lock between two steps
  expired,             \* jobs that have been queued for too long
  pc,                  \* where each thread is
  job,                 \* the job a thread has in hand
  flushed,             \* has the waiting worker dropped its caches?
  now,                 \* the jobs that were expired when dequeue read the clock
  workerStop,          \* JobQueueWorker::m_stopped
  finished,            \* jobs done
  aborted,             \* jobs given up because they had expired
  releasing,           \* releaseQueuedJobs: due, or its target before it has
                       \* the lock
  shrinking,           \* setMaxThreadCount: the worker being stopped, and how far
  waiter               \* the thread in waitEmpty

vars == <<m_jobQueues, m_jobCount, m_stopped, m_workerCount, m_maxActiveWorkers,
          monitor, mutex, expired, pc, job, flushed, now, workerStop, finished,
          aborted, releasing, shrinking, waiter>>

queueVars == <<m_jobQueues, m_jobCount>>
threadVars == <<pc, job, flushed, now>>
controlVars == <<m_stopped, m_maxActiveWorkers, workerStop, releasing, shrinking>>
outcomeVars == <<finished, aborted>>

Init ==
  /\ m_jobQueues = [p \in Priorities |-> <<>>]
  /\ m_jobCount = 0
  /\ m_stopped = FALSE
  /\ m_workerCount = 0
  /\ m_maxActiveWorkers = Unlimited
  /\ monitor = EmptyMonitor(NumGroups)
  /\ mutex = NoThread
  /\ expired = {}
  /\ pc = [t \in Threads |-> "idle"]
  /\ job = [t \in Threads |-> NoJob]
  /\ flushed = [t \in Threads |-> FALSE]
  /\ now = [t \in Threads |-> {}]
  /\ workerStop = [w \in Workers |-> FALSE]
  /\ finished = {}
  /\ aborted = {}
  /\ releasing = NoTarget
  /\ shrinking = [worker |-> NoThread, step |-> "none"]
  /\ waiter = "none"
-----------------------------------------------------------------------------
Queued == UNION {ToSet(m_jobQueues[p]) : p \in Priorities}
Seen == Queued \cup finished \cup aborted \cup {job[t] : t \in Threads}

\* JobQueueDispatcher::enqueue decides whether to notify by the health level: when
\* it is so bad that the limit is 0, nobody is told.  The level is read in the
\* step that enqueues, but for a good one that has turned bad since.
mayDecide(eagerNotify) == eagerNotify \/ m_maxActiveWorkers = 0


enqueue(j, p, eagerNotify) ==
  /\ mutex = NoThread
  /\ j \notin Seen
  /\ m_stopped => j \in LateJobs
  /\ mayDecide(eagerNotify)
  /\ m_jobQueues' = [m_jobQueues EXCEPT ![p] = Append(@, j)]
  /\ m_jobCount' = m_jobCount + 1
  /\ monitor' = IF eagerNotify THEN notify(monitor) ELSE monitor
  /\ UNCHANGED <<m_workerCount, mutex, expired, threadVars, controlVars,
                 outcomeVars, waiter>>

\* Time passes; in a queue the job in front is the oldest.
expire(j) ==
  /\ HasReaper
  /\ \E p \in Priorities : \E n \in 1..Len(m_jobQueues[p]) :
       /\ m_jobQueues[p][n] = j
       /\ \A k \in 1..n - 1 : m_jobQueues[p][k] \in expired
  /\ j \notin expired
  /\ expired' = expired \cup {j}
  /\ UNCHANGED <<queueVars, m_workerCount, monitor, mutex, threadVars,
                 controlVars, outcomeVars, waiter>>

\* Mutant: only one of the waiting threads is told.
stopOne ==
  /\ mutex = NoThread
  /\ ~m_stopped
  /\ m_stopped' = TRUE
  /\ monitor' = notify(monitor)
  /\ UNCHANGED <<queueVars, m_workerCount, m_maxActiveWorkers, mutex, expired,
                 threadVars, workerStop, releasing, shrinking, outcomeVars,
                 waiter>>

stop ==
  /\ mutex = NoThread
  /\ ~m_stopped
  /\ m_stopped' = TRUE
  /\ monitor' = notifyAll(monitor)
  /\ UNCHANGED <<queueVars, m_workerCount, m_maxActiveWorkers, mutex, expired,
                 threadVars, workerStop, releasing, shrinking, outcomeVars,
                 waiter>>

\* An atomic store, without the lock.
updateMaxActiveWorkers(num) == m_maxActiveWorkers' = num

\* The health monitor's thread tells the dispatcher that the level has become too
\* bad, or good enough again; in that case queued jobs are to be released.
notifyNewStatus(num) ==
  /\ releasing = NoTarget
  /\ m_maxActiveWorkers # num
  /\ updateMaxActiveWorkers(num)
  /\ releasing' = IF num = 0 THEN NoTarget ELSE Due
  /\ UNCHANGED <<queueVars, m_stopped, m_workerCount, monitor, mutex, expired,
                 threadVars, workerStop, shrinking, outcomeVars, waiter>>

\* releaseQueuedJobs looks at the count before it takes the lock ...
releaseQueuedJobs(target) ==
  /\ releasing = Due
  /\ releasing' = IF m_jobCount # 0 THEN target ELSE NoTarget
  /\ UNCHANGED <<queueVars, m_stopped, m_workerCount, m_maxActiveWorkers, monitor,
                 mutex, expired, threadVars, workerStop, shrinking, outcomeVars,
                 waiter>>

\* ... and wakes at least one thread once it has it, jobs or no jobs.
releaseNotifies ==
  /\ releasing \in Targets /\ mutex = NoThread
  /\ LET wanted == Min({releasing - m_workerCount, m_jobCount})
     IN  monitor' = notifyTimes(monitor, Max({1, wanted}))
  /\ releasing' = NoTarget
  /\ UNCHANGED <<queueVars, m_stopped, m_workerCount, m_maxActiveWorkers, mutex,
                 expired, threadVars, workerStop, shrinking, outcomeVars, waiter>>
-----------------------------------------------------------------------------
(***************************************************************************)
(* A worker: JobQueueWorker::start and dequeueMaybeExpired(Impl).          *)
(***************************************************************************)
AbleToDequeue == m_workerCount < m_maxActiveWorkers

TopQueue == m_jobQueues[NumPriorities - 1]

\* The condition of the while loop, its break on the top queue included.
MustWait == (m_jobCount = 0 \/ ~AbleToDequeue) /\ TopQueue = <<>>

\* The loop of start(), and the clock read of dequeueMaybeExpired.
startDequeue(w) ==
  /\ pc[w] = "idle"
  /\ IF workerStop[w]
     THEN /\ pc' = [pc EXCEPT ![w] = "exited"]
          /\ UNCHANGED <<now, flushed>>
     ELSE /\ pc' = [pc EXCEPT ![w] = "running"]
          /\ now' = [now EXCEPT ![w] = expired]
          /\ flushed' = [flushed EXCEPT ![w] = FALSE]
  /\ UNCHANGED <<queueVars, m_workerCount, monitor, mutex, expired, job,
                 controlVars, outcomeVars, waiter>>


\* StopSignal: the worker is asked to stop, or the queue is and there is
\* nothing to take.
stopSignal(w) ==
  /\ pc[w] = "running" /\ mutex \in {w, NoThread}
  /\ workerStop[w] \/ (MustWait /\ m_stopped)
  /\ pc' = [pc EXCEPT ![w] = "exited"]
  /\ workerStop' = [workerStop EXCEPT ![w] = TRUE]
  /\ mutex' = NoThread
  /\ UNCHANGED <<queueVars, m_stopped, m_workerCount, m_maxActiveWorkers,
                 monitor, expired, job, flushed, now, releasing, shrinking,
                 outcomeVars, waiter>>

\* Mutant: the end that is popped does not depend on the job having expired.
TakesFromEither(w, p, n, isExpired) ==
  /\ m_jobQueues[p] # <<>>
  /\ \A q \in Priorities : q > p => m_jobQueues[q] = <<>>
  /\ isExpired = (HasReaper /\ Head(m_jobQueues[p]) \in now[w])
  /\ n = IF m_jobCount - 1 >= lifoSwitchThreshold THEN Len(m_jobQueues[p]) ELSE 1

\* The queue a worker takes from, and the position in it: the highest one
\* that is not empty, its front when that has expired, and otherwise front
\* or back depending on how many jobs are left.
TakesFrom(w, p, n, isExpired) ==
  /\ m_jobQueues[p] # <<>>
  /\ \A q \in Priorities : q > p => m_jobQueues[q] = <<>>
  /\ isExpired = (HasReaper /\ Head(m_jobQueues[p]) \in now[w])
  /\ n = IF ~isExpired /\ m_jobCount - 1 >= lifoSwitchThreshold
         THEN Len(m_jobQueues[p]) ELSE 1

\* Mutant: the back is read and the front is removed.
dequeueWrongEnd(w) ==
  /\ pc[w] = "running" /\ mutex \in {w, NoThread}
  /\ ~MustWait /\ ~workerStop[w]
  /\ m_workerCount' = m_workerCount + 1
  /\ m_jobCount' = m_jobCount - 1
  /\ \E p \in Priorities : \E n \in 1..Len(m_jobQueues[p]) :
       \E isExpired \in BOOLEAN :
         /\ TakesFrom(w, p, n, isExpired)
         /\ job' = [job EXCEPT ![w] = m_jobQueues[p][n]]
         /\ m_jobQueues' = [m_jobQueues EXCEPT ![p] = Tail(@)]
         /\ pc' = [pc EXCEPT ![w] = IF isExpired THEN "aborting" ELSE "working"]
  /\ mutex' = NoThread
  /\ UNCHANGED <<monitor, expired, flushed, now, controlVars, outcomeVars, waiter>>

dequeue(w) ==
  /\ pc[w] = "running" /\ mutex \in {w, NoThread}
  /\ ~MustWait /\ ~workerStop[w]
  /\ m_workerCount' = m_workerCount + 1
  /\ m_jobCount' = m_jobCount - 1
  /\ \E p \in Priorities : \E n \in 1..Len(m_jobQueues[p]) :
       \E isExpired \in BOOLEAN :
         /\ TakesFrom(w, p, n, isExpired)
         /\ job' = [job EXCEPT ![w] = m_jobQueues[p][n]]
         /\ m_jobQueues' = [m_jobQueues EXCEPT ![p] = RemoveAt(@, n)]
         /\ pc' = [pc EXCEPT ![w] = IF isExpired THEN "aborting" ELSE "working"]
  /\ mutex' = NoThread
  /\ UNCHANGED <<monitor, expired, flushed, now, controlVars, outcomeVars, waiter>>

\* Blocked by the limit on active workers, the thread drops its caches at
\* once, with the lock released.
flushAtOnce(w) ==
  /\ pc[w] = "running" /\ mutex \in {w, NoThread}
  /\ MustWait /\ ~m_stopped /\ ~workerStop[w]
  /\ dropCacheTimeout /\ ~flushed[w] /\ ~AbleToDequeue
  /\ flushed' = [flushed EXCEPT ![w] = TRUE]
  /\ mutex' = NoThread
  /\ UNCHANGED <<queueVars, m_workerCount, monitor, expired, pc, job, now,
                 controlVars, outcomeVars, waiter>>

\* The loop has found that the thread has to wait and that nobody stopped it.
\* From here to wait() it keeps the lock.
checkedMustWait(w) ==
  /\ pc[w] = "running" /\ mutex \in {w, NoThread}
  /\ MustWait /\ ~m_stopped /\ ~workerStop[w]
  /\ dropCacheTimeout => flushed[w] \/ AbleToDequeue
  /\ pc' = [pc EXCEPT ![w] = "checked"]
  /\ mutex' = w
  /\ UNCHANGED <<queueVars, m_workerCount, monitor, expired, job, flushed, now,
                 controlVars, outcomeVars, waiter>>

WaitPriority(w) ==
  IF flushed[w] THEN (IF w \in HugeWorkers THEN "High" ELSE "Low")
                ELSE (IF w \in HugeWorkers THEN "Highest" ELSE "Normal")

wait(w) ==
  /\ pc[w] = "checked"
  /\ monitor' = waitBegin(monitor, w, NumaNode[w], WaitPriority(w))
  /\ pc' = [pc EXCEPT ![w] = "waiting"]
  /\ mutex' = NoThread
  /\ UNCHANGED <<queueVars, m_workerCount, expired, job, flushed, now,
                 controlVars, outcomeVars, waiter>>

\* The condition variable lets go of the thread for no reason.
spuriousWakeUp(t) ==
  /\ Spurious
  /\ pc[t] = "waiting" /\ t \in monitor.blocked
  /\ monitor' = signal(monitor, t)
  /\ UNCHANGED <<queueVars, m_workerCount, mutex, expired, threadVars,
                 controlVars, outcomeVars, waiter>>

\* wait() times out.  The thread is off its condition variable but, until it
\* has the lock again, still on its list.
timeout(t) ==
  /\ pc[t] = "waiting" /\ t \in monitor.blocked
  /\ t = Reaper \/ (dropCacheTimeout /\ ~flushed[t])
  /\ pc' = [pc EXCEPT ![t] = "timedOut"]
  /\ monitor' = signal(monitor, t)
  /\ UNCHANGED <<queueVars, m_workerCount, mutex, expired, job, flushed, now,
                 controlVars, outcomeVars, waiter>>

\* The notified worker goes on with its loop.
waitReturns(w) ==
  /\ w \in Workers
  /\ pc[w] = "waiting" /\ w \notin monitor.blocked /\ mutex = NoThread
  /\ monitor' = waitEnd(monitor, w, FALSE)
  /\ pc' = [pc EXCEPT ![w] = "running"]
  /\ mutex' = w
  /\ UNCHANGED <<queueVars, m_workerCount, expired, job, flushed, now, controlVars,
                 outcomeVars, waiter>>

\* So does the one that timed out; with nothing to do it drops its caches,
\* with the lock released.
waitTimedOut(w) ==
  /\ w \in Workers
  /\ pc[w] = "timedOut" /\ mutex = NoThread
  /\ monitor' = waitEnd(monitor, w, TRUE)
  /\ flushed' = [flushed EXCEPT ![w] = m_jobCount = 0]
  /\ pc' = [pc EXCEPT ![w] = "running"]
  /\ mutex' = IF m_jobCount = 0 THEN NoThread ELSE w
  /\ UNCHANGED <<queueVars, m_workerCount, expired, job, now, controlVars,
                 outcomeVars, waiter>>

\* Mutant: the worker that becomes idle last does not tell.
finishJobNoSignal(t) ==
  /\ pc[t] \in {"working", "aborting"}
  /\ finished' = IF pc[t] = "working" THEN finished \cup {job[t]} ELSE finished
  /\ aborted' = IF pc[t] = "aborting" THEN aborted \cup {job[t]} ELSE aborted
  /\ job' = [job EXCEPT ![t] = NoJob]
  /\ m_workerCount' = m_workerCount - 1
  /\ pc' = [pc EXCEPT ![t] = "idle"]
  /\ UNCHANGED <<queueVars, monitor, mutex, expired, flushed, now, controlVars,
                 waiter>>

\* doJob or abortJob, and decActiveWorker without the lock.
finishJob(t) ==
  /\ pc[t] \in {"working", "aborting"}
  /\ finished' = IF pc[t] = "working" THEN finished \cup {job[t]} ELSE finished
  /\ aborted' = IF pc[t] = "aborting" THEN aborted \cup {job[t]} ELSE aborted
  /\ job' = [job EXCEPT ![t] = NoJob]
  /\ m_workerCount' = m_workerCount - 1
  /\ pc' = [pc EXCEPT ![t] = IF m_workerCount = 1 THEN "lastActive" ELSE "idle"]
  /\ UNCHANGED <<queueVars, monitor, mutex, expired, flushed, now, controlVars,
                 waiter>>

\* Under the lock again: the queue may be empty now.
signalEmpty(t) ==
  /\ pc[t] = "lastActive" /\ mutex = NoThread
  /\ waiter' = IF m_workerCount = 0 /\ m_jobCount = 0 /\ waiter = "blocked"
               THEN "signaled" ELSE waiter
  /\ pc' = [pc EXCEPT ![t] = "idle"]
  /\ UNCHANGED <<queueVars, m_workerCount, monitor, mutex, expired, job, flushed,
                 now, controlVars, outcomeVars>>

\* waitEmpty: called once, and again after each wake-up.
waitEmpty ==
  /\ waiter \in {"none", "signaled"} /\ mutex = NoThread
  /\ waiter' = IF m_workerCount # 0 \/ m_jobCount # 0 THEN "blocked" ELSE "returned"
  /\ UNCHANGED <<queueVars, m_workerCount, monitor, mutex, expired, threadVars,
                 controlVars, outcomeVars>>
-----------------------------------------------------------------------------
(***************************************************************************)
(* The job reaper: dequeueOnlyExpiredImpl.                                 *)
(***************************************************************************)
\* The queues whose oldest job has expired.
ExpiredFront(p) == m_jobQueues[p] # <<>> /\ Head(m_jobQueues[p]) \in expired

reaperDequeue ==
  /\ HasReaper
  /\ pc[Reaper] = "idle" /\ mutex \in {Reaper, NoThread}
  /\ ~m_stopped
  /\ \E p \in Priorities :
       /\ ExpiredFront(p)
       /\ \A q \in Priorities : q > p => ~ExpiredFront(q)
       /\ job' = [job EXCEPT ![Reaper] = Head(m_jobQueues[p])]
       /\ m_jobQueues' = [m_jobQueues EXCEPT ![p] = Tail(@)]
  /\ m_workerCount' = m_workerCount + 1
  /\ m_jobCount' = m_jobCount - 1
  /\ pc' = [pc EXCEPT ![Reaper] = "aborting"]
  /\ mutex' = NoThread
  /\ UNCHANGED <<monitor, expired, flushed, now, controlVars, outcomeVars,
                 waiter>>

reaperWait ==
  /\ HasReaper
  /\ pc[Reaper] = "idle" /\ mutex \in {Reaper, NoThread}
  /\ ~m_stopped
  /\ \A p \in Priorities : ~ExpiredFront(p)
  /\ monitor' = waitBegin(monitor, Reaper, NumaNode[Reaper], "Low")
  /\ pc' = [pc EXCEPT ![Reaper] = "waiting"]
  /\ mutex' = NoThread
  /\ UNCHANGED <<queueVars, m_workerCount, expired, job, flushed, now,
                 controlVars, outcomeVars, waiter>>

reaperStops ==
  /\ HasReaper
  /\ pc[Reaper] = "idle" /\ mutex \in {Reaper, NoThread}
  /\ m_stopped
  /\ pc' = [pc EXCEPT ![Reaper] = "exited"]
  /\ mutex' = NoThread
  /\ UNCHANGED <<queueVars, m_workerCount, monitor, expired, job, flushed,
                 now, controlVars, outcomeVars, waiter>>

\* Woken by a notify, which it passes on.
reaperNotified ==
  /\ HasReaper
  /\ pc[Reaper] = "waiting" /\ Reaper \notin monitor.blocked /\ mutex = NoThread
  /\ monitor' = notify(waitEnd(monitor, Reaper, FALSE))
  /\ pc' = [pc EXCEPT ![Reaper] = "idle"]
  /\ mutex' = Reaper
  /\ UNCHANGED <<queueVars, m_workerCount, expired, job, flushed, now,
                 controlVars, outcomeVars, waiter>>

\* The time has passed until the oldest job expires.
reaperTimedOut ==
  /\ HasReaper
  /\ pc[Reaper] = "timedOut" /\ mutex = NoThread
  /\ monitor' = waitEnd(monitor, Reaper, TRUE)
  /\ pc' = [pc EXCEPT ![Reaper] = "idle"]
  /\ mutex' = Reaper
  /\ UNCHANGED <<queueVars, m_workerCount, expired, job, flushed, now,
                 controlVars, outcomeVars, waiter>>
-----------------------------------------------------------------------------
(***************************************************************************)
(* setMaxThreadCount stops a worker in three steps, none of them under the *)
(* queue's lock: the flag, then notifySpecific's signal and unlink.        *)
(***************************************************************************)
stopWorker(w) ==
  /\ shrinking.step = "none"
  /\ ~workerStop[w]
  /\ workerStop' = [workerStop EXCEPT ![w] = TRUE]
  /\ shrinking' = [worker |-> w, step |-> "signal"]
  /\ UNCHANGED <<queueVars, m_stopped, m_workerCount, m_maxActiveWorkers, monitor,
                 mutex, expired, threadVars, releasing, outcomeVars, waiter>>

notifySpecificSignal ==
  /\ shrinking.step = "signal"
  /\ monitor' = signal(monitor, shrinking.worker)
  /\ shrinking' = [shrinking EXCEPT !.step = "unlink"]
  /\ UNCHANGED <<queueVars, m_stopped, m_workerCount, m_maxActiveWorkers, mutex,
                 expired, threadVars, workerStop, releasing, outcomeVars,
                 waiter>>

notifySpecificUnlink ==
  /\ shrinking.step = "unlink"
  /\ monitor' = unlink(monitor, shrinking.worker)
  /\ shrinking' = [worker |-> NoThread, step |-> "none"]
  /\ UNCHANGED <<queueVars, m_stopped, m_workerCount, m_maxActiveWorkers, mutex,
                 expired, threadVars, workerStop, releasing, outcomeVars,
                 waiter>>

Worker(w) ==
  \/ startDequeue(w) \/ stopSignal(w) \/ dequeue(w) \/ flushAtOnce(w)
  \/ checkedMustWait(w) \/ wait(w) \/ waitReturns(w) \/ waitTimedOut(w)

ReaperStep ==
  reaperDequeue \/ reaperWait \/ reaperStops \/ reaperNotified \/ reaperTimedOut

Shrink ==
  \/ \E w \in Stoppable : stopWorker(w)
  \/ notifySpecificSignal
  \/ notifySpecificUnlink

Next ==
  \/ \E j \in Jobs, p \in Priorities, eager \in EagerNotify : enqueue(j, p, eager)
  \/ \E j \in Jobs : expire(j)
  \/ stop
  \/ \E num \in Limits : notifyNewStatus(num)
  \/ \E target \in Targets : releaseQueuedJobs(target)
  \/ releaseNotifies
  \/ \E w \in Workers : Worker(w)
  \/ \E t \in Threads : spuriousWakeUp(t) \/ timeout(t) \/ finishJob(t) \/ signalEmpty(t)
  \/ ReaperStep
  \/ Shrink
  \/ waitEmpty

Spec == Init /\ [][Next]_vars

\* Threads run, jobs end, and time passes for the reaper.  Nobody has to stop the
\* queue, and the health level need not change.
Fairness ==
  /\ \A w \in Workers : WF_vars(Worker(w))
  /\ \A t \in Threads : WF_vars(finishJob(t)) /\ WF_vars(signalEmpty(t))
  /\ WF_vars(ReaperStep)
  /\ WF_vars(notifySpecificSignal) /\ WF_vars(notifySpecificUnlink)
  /\ WF_vars(waitEmpty)
  /\ WF_vars(\E target \in Targets : releaseQueuedJobs(target))
  /\ WF_vars(releaseNotifies)

FairSpec == Spec /\ Fairness
-----------------------------------------------------------------------------
Places == {"idle", "running", "checked", "waiting", "timedOut", "working",
           "aborting", "lastActive", "exited"}

\* Types of the queue's and the threads' state.
TypeOK ==
  /\ m_jobQueues \in [Priorities -> Seq(Jobs)]
  /\ m_jobCount \in Nat
  /\ m_stopped \in BOOLEAN
  /\ m_workerCount \in Nat
  /\ m_maxActiveWorkers \in 0..Unlimited
  /\ monitor.group \in 0..NumGroups - 1
  /\ monitor.high \in [0..NumGroups - 1 -> Seq(Threads)]
  /\ monitor.midLow \in [0..NumGroups - 1 -> Seq(Threads)]
  /\ monitor.blocked \subseteq Threads
  /\ mutex \in Threads \cup {NoThread}
  /\ expired \subseteq Jobs
  /\ pc \in [Threads -> Places]
  /\ job \in [Threads -> Jobs \cup {NoJob}]
  /\ flushed \in [Threads -> BOOLEAN]
  /\ now \in [Threads -> SUBSET Jobs]
  /\ workerStop \in [Workers -> BOOLEAN]
  /\ finished \subseteq Jobs /\ aborted \subseteq Jobs
  /\ releasing \in Targets \cup {NoTarget, Due}
  /\ shrinking \in [worker : Workers \cup {NoThread},
                    step : {"none", "signal", "unlink"}]
  /\ waiter \in {"none", "blocked", "signaled", "returned"}

\* How many threads, places in a queue or outcomes a job has.
TimesHeld(j) ==
  Cardinality({x \in Priorities \X (1..Cardinality(Jobs)) :
                 x[2] <= Len(m_jobQueues[x[1]]) /\ m_jobQueues[x[1]][x[2]] = j})
    + Cardinality({t \in Threads : job[t] = j})
    + Cardinality({j} \cap finished) + Cardinality({j} \cap aborted)

\* Two counters beside the lists, one updated under the lock and one not,
\* agree with what they count; "not_reached()" in dequeue is not reached, and
\* no job is run twice, run and aborted, or lost between queue and worker.
CountsAgree ==
  /\ m_jobCount = Cardinality({j \in Jobs :
       \E p \in Priorities : j \in ToSet(m_jobQueues[p])})
  /\ m_workerCount = Cardinality({t \in Threads : job[t] # NoJob})
  /\ \A j \in Jobs : TimesHeld(j) <= 1

\* Whatever wakes threads up early, every blocked thread that was not told to
\* stop can be found by notify and notifyAll, and no list holds a thread twice:
\* waitImpl pushes a node that may still be linked.
BlockedIsLinked ==
  /\ monitor.blocked \ {w \in Workers : workerStop[w]} \subseteq Linked(monitor)
  /\ \A g \in 0..NumGroups - 1 : IsInjective(Waiting(monitor, g))

\* The workers that will look at the queue before they wait, are not busy,
\* and are not on a list (where a notify could still be spent on them); and the
\* reaper with a notify to pass on.
Takers ==
  {t \in Threads \ Linked(monitor) :
     \/ /\ t \in Workers /\ ~workerStop[t]
        /\ pc[t] \in {"idle", "running", "waiting", "timedOut", "lastActive"}
     \/ t = Reaper /\ pc[t] = "waiting"}

\* No job is left lying while a worker sleeps: while the limit admits workers and
\* the release that follows a raised limit is over, each job has a worker of its
\* own on the way to it, whoever takes it in the end.  (A release with a target
\* below the number of workers wakes fewer.)
EachJobHasATaker ==
  (releasing = NoTarget /\ monitor.blocked \cap Workers # {}) =>
    \/ m_jobCount <= Cardinality(Takers)
    \/ m_maxActiveWorkers - m_workerCount <= Cardinality(Takers)

\* An aborted job had been queued for too long, although the worker that
\* aborts it judges by a clock it read before it waited.
AbortsOnlyExpired ==
  aborted \cup {job[t] : t \in {u \in Threads : pc[u] = "aborting"}}
    \subseteq expired

\* The health level is good in the end, and never too bad once the queue is
\* stopped: the limit of 0 makes workers of a stopped queue leave its jobs behind
\* (StopsAfterAllJobs below).
StaysHealthy ==
  /\ <>[](m_maxActiveWorkers # 0)
  /\ [](m_stopped => m_maxActiveWorkers # 0)


\* Once the queue is stopped all its threads end.
AllThreadsEnd == m_stopped ~> \A t \in Threads : pc[t] = "exited"

\* waitEmpty returns once clients stop enqueueing (there are finitely many jobs).
WaitEmptyReturns ==
  StaysHealthy => (waiter = "blocked" ~> waiter = "returned")
-----------------------------------------------------------------------------
\* Claim of the comment in JobQueue::stop, "so all waiting threads can find
\* out queue is stopped".
StopReachesAll == m_stopped => monitor.blocked = {}

\* Claim of the comment on JobQueueDispatcher::stop, "Stop all workers after all
\* jobs are processed."
StopsAfterAllJobs == (\A w \in Workers : pc[w] = "exited") => Queued = {}
=============================================================================
