------------------------ MODULE ExternalThreadEvents ------------------------
(***************************************************************************)
(* External thread events of the asio extension (hphp/runtime/ext/asio).   *)
(*                                                                         *)
(* A web request thread constructs an event and hands it to a processing   *)
(* thread.  The processing thread ends with markAsFinished, which pushes   *)
(* the event's wait handle on a lock-free stack, AsioExternalThreadEvent-  *)
(* Queue.  The web thread takes the whole stack with one exchange and      *)
(* processes what it received, or parks on a condition variable after it   *)
(* has put K_CONSUMER_WAITING into the empty stack.  A dying web request   *)
(* cancels its pending events or, when it comes too late, waits for them.  *)
(*                                                                         *)
(* An event and its wait handle are one-to-one and share a name here.      *)
(***************************************************************************)
EXTENDS Integers

CONSTANTS
  Events,              \* events the request constructs, each once
  nullptr,             \* the end of a list
  K_CONSUMER_WAITING   \* the stack's value while the web thread is parked

ASSUME EventsAssumption ==
  /\ nullptr \notin Events
  /\ K_CONSUMER_WAITING \notin Events \cup {nullptr}

VARIABLES
  m_state,          \* AsioExternalThreadEvent::m_state
  released,         \* how often release() deleted the event
  waitHandle,       \* state of the wait handle, "GONE" when it was freed
  m_nextToProcess,  \* link of the stack and of the received list
  m_queue,          \* head of the stack
  m_received,       \* head of the received list
  sweepables,       \* wait handles registered to be swept
  io,               \* where each event's processing thread is
  next,             \* send(): its local copy of m_queue
  web,              \* where the web request thread is
  notified,         \* has the condition variable woken the parked web thread?
  current,          \* the event being constructed or swept
  seen              \* abandonAllReceived(): was the swept event among them?

vars == <<m_state, released, waitHandle, m_nextToProcess, m_queue, m_received,
          sweepables, io, next, web, notified, current, seen>>

eventVars == <<m_state, released, waitHandle, sweepables>>
queueVars == <<m_nextToProcess, m_queue, m_received>>
webVars == <<web, notified, current, seen>>

\* The web thread holds m_queueMutex in these places.
MutexHeld == web \in {"flagged", "woken", "timedOut"}

Init ==
  /\ m_state = [e \in Events |-> "None"]
  /\ released = [e \in Events |-> 0]
  /\ waitHandle = [e \in Events |-> "NONE"]
  /\ m_nextToProcess = [e \in Events |-> nullptr]
  /\ m_queue = nullptr
  /\ m_received = nullptr
  /\ sweepables = {}
  /\ io = [e \in Events |-> "idle"]
  /\ next = [e \in Events |-> nullptr]
  /\ web = "php"
  /\ notified = FALSE
  /\ current = nullptr
  /\ seen = FALSE
-----------------------------------------------------------------------------
(***************************************************************************)
(* The processing thread.                                                  *)
(***************************************************************************)
\* The event is deleted.
release(e) == released' = [released EXCEPT ![e] = @ + 1]

\* Mutant: the state is stored without looking whether the web request died.
markAsFinishedUnchecked(e) ==
  /\ io[e] = "working"
  /\ m_state' = [m_state EXCEPT ![e] = "Finished"]
  /\ io' = [io EXCEPT ![e] = "load"]
  /\ UNCHANGED <<released, waitHandle, sweepables, queueVars, next, webVars>>

\* markAsFinished up to the call of send(), or to the end when the web
\* request has canceled the event.
markAsFinished(e) ==
  /\ io[e] = "working"
  /\ \/ /\ m_state[e] = "Waiting"
        /\ m_state' = [m_state EXCEPT ![e] = "Finished"]
        /\ io' = [io EXCEPT ![e] = "load"]
        /\ UNCHANGED released
     \/ /\ m_state[e] # "Waiting"
        /\ release(e)
        /\ io' = [io EXCEPT ![e] = "done"]
        /\ UNCHANGED m_state
  /\ UNCHANGED <<waitHandle, sweepables, queueVars, next, webVars>>

sendLoad(e) ==
  /\ io[e] = "load"
  /\ next' = [next EXCEPT ![e] = m_queue]
  /\ io' = [io EXCEPT ![e] = "push"]
  /\ UNCHANGED <<eventVars, queueVars, webVars>>

\* The exchange succeeds.  The link is written just before it, where nobody
\* else can see it.  On top of a parked consumer a wake-up is owed.
sendPush(e) ==
  /\ io[e] = "push"
  /\ m_queue = next[e]
  /\ m_nextToProcess' = [m_nextToProcess EXCEPT ![e] =
       IF next[e] = K_CONSUMER_WAITING THEN nullptr ELSE next[e]]
  /\ m_queue' = e
  /\ io' = [io EXCEPT ![e] =
       IF next[e] = K_CONSUMER_WAITING THEN "notify" ELSE "done"]
  /\ UNCHANGED <<eventVars, m_received, next, webVars>>

\* The exchange fails because m_queue has changed, and reloads it.  (A weak
\* exchange may also fail for no reason: that changes nothing.)
sendRetry(e) ==
  /\ io[e] = "push"
  /\ m_queue # next[e]
  /\ next' = [next EXCEPT ![e] = m_queue]
  /\ UNCHANGED <<eventVars, queueVars, io, webVars>>

\* Mutant: the condition is notified without m_queueMutex.
sendNotifyUnlocked(e) ==
  /\ io[e] = "notify"
  /\ notified' = (notified \/ web = "parked")
  /\ io' = [io EXCEPT ![e] = "done"]
  /\ UNCHANGED <<eventVars, queueVars, next, web, current, seen>>

\* notify_one under m_queueMutex; it does nothing when nobody is parked.
sendNotify(e) ==
  /\ io[e] = "notify"
  /\ ~MutexHeld
  /\ notified' = (notified \/ web = "parked")
  /\ io' = [io EXCEPT ![e] = "done"]
  /\ UNCHANGED <<eventVars, queueVars, next, web, current, seen>>
-----------------------------------------------------------------------------
(***************************************************************************)
(* The web request thread: life of an event.                               *)
(***************************************************************************)
\* The constructor; the wait handle is registered for sweeping.
construct(e) ==
  /\ web = "php"
  /\ waitHandle[e] = "NONE"
  /\ m_state' = [m_state EXCEPT ![e] = "Waiting"]
  /\ waitHandle' = [waitHandle EXCEPT ![e] = "WAITING"]
  /\ sweepables' = sweepables \cup {e}
  /\ web' = "constructing"
  /\ current' = e
  /\ UNCHANGED <<released, queueVars, io, next, notified, seen>>

\* The profiler's hook throws inside initialize: the wait handle fails, and
\* the half-constructed event is freed by unwinding.
initializeFails(e) ==
  /\ web = "php"
  /\ waitHandle[e] = "NONE"
  /\ waitHandle' = [waitHandle EXCEPT ![e] = "FAILED"]
  /\ UNCHANGED <<m_state, released, sweepables, queueVars, io, next, webVars>>

\* The extension passes the event to its processing thread.
schedule(e) ==
  /\ web = "constructing" /\ current = e
  /\ io' = [io EXCEPT ![e] = "working"]
  /\ web' = "php"
  /\ current' = nullptr
  /\ UNCHANGED <<eventVars, queueVars, next, notified, seen>>

\* AsioExternalThreadEvent::abandon: the extension changed its mind.
abandonEvent(e) ==
  /\ web = "constructing" /\ current = e
  /\ m_state' = [m_state EXCEPT ![e] = "Abandoned"]
  /\ release(e)
  /\ waitHandle' = [waitHandle EXCEPT ![e] = "GONE"]
  /\ sweepables' = sweepables \ {e}
  /\ web' = "php"
  /\ current' = nullptr
  /\ UNCHANGED <<queueVars, io, next, notified, seen>>

\* c_ExternalThreadEventWaitHandle::cancel.  It returns FALSE and changes
\* nothing when the event has finished already.
cancel(e) ==
  /\ web = "php"
  /\ waitHandle[e] = "WAITING"
  /\ m_state[e] = "Waiting"
  /\ m_state' = [m_state EXCEPT ![e] = "Canceled"]
  /\ waitHandle' = [waitHandle EXCEPT ![e] = "FAILED"]
  /\ sweepables' = sweepables \ {e}
  /\ UNCHANGED <<released, queueVars, io, next, webVars>>

\* Mutant: the received list is not advanced.
processReceivedAgain(e) ==
  /\ web = "php"
  /\ m_received = e
  /\ \E s \in {"SUCCEEDED", "FAILED"} :
       waitHandle' = [waitHandle EXCEPT ![e] = s]
  /\ release(e)
  /\ sweepables' = sweepables \ {e}
  /\ UNCHANGED <<m_state, queueVars, io, next, webVars>>

\* One round of processAllReceived: the head is unlinked and processed.  An
\* exception out of process() leaves the rest for the next runUntil.
processReceived(e) ==
  /\ web = "php"
  /\ m_received = e
  /\ m_received' = m_nextToProcess[e]
  /\ \E s \in {"SUCCEEDED", "FAILED"} :
       waitHandle' = [waitHandle EXCEPT ![e] = s]
  /\ release(e)
  /\ sweepables' = sweepables \ {e}
  /\ UNCHANGED <<m_state, m_nextToProcess, m_queue, io, next, webVars>>

tryReceiveSome ==
  /\ web = "php"
  /\ m_received = nullptr
  /\ m_received' = m_queue
  /\ m_queue' = nullptr
  /\ UNCHANGED <<eventVars, m_nextToProcess, io, next, webVars>>
-----------------------------------------------------------------------------
(***************************************************************************)
(* The web request thread: receiveSomeUntil, called by runUntil while      *)
(* there are pending events (web = "php") and by receiveSome inside sweep. *)
(***************************************************************************)
\* Where the call returns to.
Caller == IF current = nullptr THEN "php" ELSE "abandoning"

\* The exchange without the lock.
receiveSomeUntil ==
  /\ m_received = nullptr
  /\ \/ web = "php" /\ \E e \in Events : waitHandle[e] = "WAITING"
     \/ web = "receiving"
  /\ m_received' = m_queue
  /\ m_queue' = nullptr
  /\ web' = IF m_queue # nullptr THEN Caller ELSE "locking"
  /\ UNCHANGED <<eventVars, m_nextToProcess, io, next, notified, current, seen>>

\* Under the lock, with the thread flagged as waiting or events found after
\* all.
receiveFlag ==
  /\ web = "locking"
  /\ \/ /\ m_queue = nullptr
        /\ m_queue' = K_CONSUMER_WAITING
        /\ web' = "flagged"
        /\ UNCHANGED m_received
     \/ /\ m_queue # nullptr
        /\ m_received' = m_queue
        /\ m_queue' = nullptr
        /\ web' = Caller
  /\ UNCHANGED <<eventVars, m_nextToProcess, io, next, notified, current, seen>>

\* wait_until releases the lock and parks the thread.
receivePark ==
  /\ web = "flagged"
  /\ web' = "parked"
  /\ notified' = FALSE
  /\ UNCHANGED <<eventVars, queueVars, io, next, current, seen>>

\* wait_until returns: notified, or spuriously.
receiveWake ==
  /\ web = "parked"
  /\ web' = "woken"
  /\ UNCHANGED <<eventVars, queueVars, io, next, notified, current, seen>>

\* wait_until returns: a sleeper of the session is due, or the request is out
\* of time.  The wait inside sweep has no such end: onSessionExit has taken the
\* request's timeout away before, and getLatestWakeTime is 9000 hours ahead.
receiveTimeout ==
  /\ web = "parked"
  /\ current = nullptr
  /\ web' = "timedOut"
  /\ UNCHANGED <<eventVars, queueVars, io, next, notified, current, seen>>

\* Mutant: the loop around wait_until is missing.
receiveWokenNoLoop ==
  /\ web = "woken"
  /\ m_received' = m_queue
  /\ m_queue' = nullptr
  /\ web' = Caller
  /\ UNCHANGED <<eventVars, m_nextToProcess, io, next, notified, current, seen>>

\* After a wake-up: take what is there, or park again.
receiveWoken ==
  /\ web = "woken"
  /\ \/ /\ m_queue = K_CONSUMER_WAITING
        /\ web' = "flagged"
        /\ UNCHANGED <<m_queue, m_received>>
     \/ /\ m_queue # K_CONSUMER_WAITING
        /\ m_received' = m_queue
        /\ m_queue' = nullptr
        /\ web' = Caller
  /\ UNCHANGED <<eventVars, m_nextToProcess, io, next, notified, current, seen>>

\* Mutant: a send that came in time to replace the flag is dropped.
receiveTimedOutDrops ==
  /\ web = "timedOut"
  /\ m_received' = nullptr
  /\ m_queue' = nullptr
  /\ web' = Caller
  /\ UNCHANGED <<eventVars, m_nextToProcess, io, next, notified, current, seen>>

\* After a timeout: take the flag back, or what a send has put in its place.
receiveTimedOut ==
  /\ web = "timedOut"
  /\ m_received' = IF m_queue = K_CONSUMER_WAITING THEN nullptr ELSE m_queue
  /\ m_queue' = nullptr
  /\ web' = Caller
  /\ UNCHANGED <<eventVars, m_nextToProcess, io, next, notified, current, seen>>
-----------------------------------------------------------------------------
(***************************************************************************)
(* The web request thread: the request dies.                               *)
(***************************************************************************)
die ==
  /\ web = "php"
  /\ web' = "sweeping"
  /\ UNCHANGED <<eventVars, queueVars, io, next, notified, current, seen>>

\* c_ExternalThreadEventWaitHandle::sweep: the event can be canceled.
sweepCancel(e) ==
  /\ web = "sweeping"
  /\ e \in sweepables
  /\ m_state[e] = "Waiting"
  /\ m_state' = [m_state EXCEPT ![e] = "Canceled"]
  /\ sweepables' = sweepables \ {e}
  /\ UNCHANGED <<released, waitHandle, queueVars, io, next, webVars>>

\* It cannot: the event is in the received list, or has to be received.
sweepFinished(e) ==
  /\ web = "sweeping"
  /\ e \in sweepables
  /\ m_state[e] # "Waiting"
  /\ sweepables' = sweepables \ {e}
  /\ current' = e
  /\ seen' = FALSE
  /\ web' = IF m_received # nullptr THEN "abandoning" ELSE "receiving"
  /\ UNCHANGED <<m_state, released, waitHandle, queueVars, io, next, notified>>

\* One round of abandonAllReceived.  The sweep of "current" ends with the
\* round that empties the list, if "current" was in it.
abandonReceived(e) ==
  /\ web = "abandoning"
  /\ m_received = e
  /\ m_received' = m_nextToProcess[e]
  /\ release(e)
  /\ sweepables' = sweepables \ {e}
  /\ LET found == seen \/ e = current
         last == m_nextToProcess[e] = nullptr
     IN  /\ seen' = IF last THEN FALSE ELSE found
         /\ current' = IF last /\ found THEN nullptr ELSE current
         /\ web' = IF ~last THEN web ELSE
                   IF found THEN "sweeping" ELSE "receiving"
  /\ UNCHANGED <<m_state, waitHandle, m_nextToProcess, m_queue, io, next,
                 notified>>

\* Everything is swept; the session is over.
sessionEnds ==
  /\ web = "sweeping"
  /\ sweepables = {}
  /\ web' = "dead"
  /\ UNCHANGED <<eventVars, queueVars, io, next, notified, current, seen>>

Receive == \/ receiveSomeUntil \/ receiveFlag \/ receivePark \/ receiveWake
           \/ receiveTimeout \/ receiveWoken \/ receiveTimedOut

Next ==
  \/ Receive
  \/ tryReceiveSome
  \/ die
  \/ sessionEnds
  \/ \E e \in Events :
       \/ markAsFinished(e) \/ sendLoad(e) \/ sendPush(e) \/ sendRetry(e)
       \/ sendNotify(e)
       \/ construct(e) \/ initializeFails(e) \/ schedule(e) \/ abandonEvent(e)
       \/ cancel(e) \/ processReceived(e)
       \/ sweepCancel(e) \/ sweepFinished(e) \/ abandonReceived(e)

Spec == Init /\ [][Next]_vars

\* markAsFinished is eventually called, as the class demands of its users; no
\* thread stops inside a call; a notified thread wakes up; a request that keeps
\* coming back from its waits ends at last (strong fairness of die).
\* Nothing is assumed of timeouts and of spurious wake-ups.
Fairness ==
  /\ \A e \in Events :
       /\ WF_vars(markAsFinished(e) \/ sendLoad(e) \/ sendPush(e)
                    \/ sendRetry(e))
       /\ WF_vars(sendNotify(e))
       /\ WF_vars(schedule(e) \/ abandonEvent(e))
       /\ WF_vars(processReceived(e) \/ abandonReceived(e))
       /\ WF_vars(sweepCancel(e) \/ sweepFinished(e))
  /\ WF_vars(web = "receiving" /\ receiveSomeUntil)
  /\ WF_vars(receiveFlag \/ receivePark \/ receiveWoken \/ receiveTimedOut)
  /\ WF_vars(notified /\ receiveWake)
  /\ SF_vars(die)

FairSpec == Spec /\ Fairness
-----------------------------------------------------------------------------
Pointers == Events \cup {nullptr}

\* Types of the queue's and the threads' state.
TypeOK ==
  /\ m_state \in [Events -> {"None", "Waiting", "Finished", "Canceled", "Abandoned"}]
  /\ released \in [Events -> Nat]
  /\ waitHandle \in [Events -> {"NONE", "WAITING", "SUCCEEDED", "FAILED", "GONE"}]
  /\ m_nextToProcess \in [Events -> Pointers]
  /\ m_queue \in Pointers \cup {K_CONSUMER_WAITING}
  /\ m_received \in Pointers
  /\ sweepables \subseteq Events
  /\ io \in [Events -> {"idle", "working", "load", "push", "notify", "done"}]
  /\ next \in [Events -> Pointers \cup {K_CONSUMER_WAITING}]
  /\ web \in {"php", "constructing", "locking", "flagged", "parked", "woken",
              "timedOut", "sweeping", "receiving", "abandoning", "dead"}
  /\ notified \in BOOLEAN
  /\ current \in Pointers
  /\ seen \in BOOLEAN

\* An event that was sent and that the web thread has not yet dealt with.
Sent(e) == m_state[e] = "Finished" /\ io[e] \in {"notify", "done"} /\ released[e] = 0

\* The protocol that the comments of state_t describe: an event is deleted
\* once, by its owner, and by nobody while the processing thread works on it
\* or the stack or the received list leads to it; the destructor finds one of
\* the three states it asserts.
DeletedOnceByOwner ==
  \A e \in Events : released[e] # 0 =>
    /\ released[e] = 1
    /\ io[e] \notin {"working", "load", "push"}
    /\ e # m_queue /\ e # m_received
    /\ \A f \in Events : Sent(f) => m_nextToProcess[f] # e
    /\ m_state[e] \in {"Finished", "Canceled", "Abandoned"}

\* What is delivered is still awaited.  process(), abandon() and the accessors
\* of m_nextToProcess assert "getState() == STATE_WAITING", although the wait
\* handle may be canceled while its processing thread finishes.
DeliversOnlyAwaited ==
  \A e \in Events :
    Sent(e) \/ io[e] \in {"load", "push"} => waitHandle[e] = "WAITING"

\* Does every event of S lead to an event of S, or to none?
Closed(link, S) == \A e \in S : link[e] \in Events => link[e] \in S

\* Events in the list that starts at p: those of every closed set with p in it.
ListFrom(link, p) ==
  {e \in Events : \A S \in SUBSET Events :
     (Closed(link, S) /\ (p \in Events => p \in S)) => e \in S}

Listed(p) == ListFrom(m_nextToProcess, p)

\* The pushes of several processing threads, the exchange that takes all and
\* the flag of the parked thread never lose an event or list it twice: the
\* sent events that are not dealt with are those of the two lists.
SentIsListed ==
  /\ {e \in Events : Sent(e)} = Listed(m_queue) \cup Listed(m_received)
  /\ Listed(m_queue) \cap Listed(m_received) = {}

\* No lost wake-up: while the web thread is parked and not woken, either the
\* stack still holds its flag or some thread is about to notify it.
ParkedIsFlaggedOrNotified ==
  (web = "parked" /\ ~notified) =>
    \/ m_queue = K_CONSUMER_WAITING
    \/ \E e \in Events : io[e] = "notify"

\* The flag does not outlive the wait: tryReceiveSome asserts that it never
\* finds it ("assertx(m_received != K_CONSUMER_WAITING)").
FlagOnlyWhileWaiting ==
  m_queue = K_CONSUMER_WAITING =>
    web \in {"flagged", "parked", "woken", "timedOut"}

\* No event leaks, whether its request waits for it, cancels it, forgets it
\* or dies at any point: every event that was constructed is deleted.  So the
\* sweep comes out of receiveSome with an event to abandon, as it asserts.
EveryEventIsDeleted ==
  \A e \in Events : m_state[e] # "None" ~> released[e] = 1
=============================================================================
