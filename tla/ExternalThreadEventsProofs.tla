--------------------- MODULE ExternalThreadEventsProofs ---------------------
(***************************************************************************)
(* Machine-checked proofs about external thread events, for any set of     *)
(* events and with or without request timeouts.                            *)
(***************************************************************************)
EXTENDS ExternalThreadEvents, TLAPS

\* Where an event and its processing thread can be together.
Phases ==
  \A e \in Events :
    /\ m_state[e] = "None" => io[e] = "idle" /\ released[e] = 0
    /\ io[e] = "idle" => \/ m_state[e] = "None"
                         \/ m_state[e] = "Waiting" /\ released[e] = 0
                         \/ m_state[e] = "Abandoned" /\ released[e] = 1
    /\ io[e] = "working" => /\ m_state[e] \in {"Waiting", "Canceled"}
                            /\ released[e] = 0
    /\ io[e] \in {"load", "push"} => m_state[e] = "Finished" /\ released[e] = 0
    /\ io[e] = "notify" => m_state[e] = "Finished"
    /\ io[e] = "done" => \/ m_state[e] = "Finished"
                         \/ m_state[e] = "Canceled" /\ released[e] = 1
    /\ released[e] \in {0, 1}

\* An event that is being constructed is still the web thread's own, and an
\* event not yet handed over is only ever the one under construction.
Constructing ==
  /\ web = "constructing" => current \in Events /\ io[current] = "idle"
                               /\ m_state[current] = "Waiting"
  /\ \A e \in Events : io[e] = "idle" /\ m_state[e] = "Waiting" =>
       web = "constructing" /\ current = e

\* A wait handle is waiting while its event waits or is on its way.
Awaited ==
  \A e \in Events :
    /\ waitHandle[e] = "NONE" => m_state[e] = "None"
    /\ m_state[e] = "Waiting" => waitHandle[e] = "WAITING"
    /\ m_state[e] = "Finished" /\ released[e] = 0 => waitHandle[e] = "WAITING"

\* The two lists hold sent events only, and lead to each at most once.
Links ==
  /\ m_queue \in Events => Sent(m_queue)
  /\ m_received \in Events => Sent(m_received)
  /\ m_queue = m_received => m_queue = nullptr
  /\ \A f \in Events : Sent(f) /\ m_nextToProcess[f] # nullptr =>
       /\ Sent(m_nextToProcess[f])
       /\ m_nextToProcess[f] # m_queue
       /\ m_nextToProcess[f] # m_received
       /\ \A g \in Events : Sent(g) /\ m_nextToProcess[g] = m_nextToProcess[f]
                              => g = f

\* While the web thread is flagged or parked a wake-up is due or not needed.
WakeUpDue ==
  web = "flagged" \/ (web = "parked" /\ ~notified) =>
    \/ m_queue = K_CONSUMER_WAITING
    \/ \E e \in Events : io[e] = "notify"

\* The web thread waits for events only when it has processed all it had.
WaitsEmptyHanded ==
  web \in {"locking", "flagged", "parked", "woken", "timedOut"} =>
    m_received = nullptr

\* The inductive invariant.
IInv ==
  /\ TypeOK
  /\ FlagOnlyWhileWaiting
  /\ Phases
  /\ Constructing
  /\ Awaited
  /\ Links
  /\ WakeUpDue
  /\ WaitsEmptyHanded
  /\ SentIsListed

USE EventsAssumption
-----------------------------------------------------------------------------
\* A list without a first event is empty.
LEMMA EmptyList ==
  ASSUME NEW link, NEW p, p \notin Events
  PROVE  ListFrom(link, p) = {}
<1>1. {} \in SUBSET Events /\ Closed(link, {})
  BY DEF Closed
<1> QED
  BY <1>1 DEF ListFrom

\* A closed set with the first event contains the list.
LEMMA ListIsLeast ==
  ASSUME NEW link, NEW p, NEW S \in SUBSET Events, Closed(link, S),
         p \in Events => p \in S
  PROVE  ListFrom(link, p) \subseteq S
BY DEF ListFrom

\* A list is its first event and the list that this leads to.
LEMMA ListUnfold ==
  ASSUME NEW link, NEW p \in Events
  PROVE  ListFrom(link, p) = {p} \cup ListFrom(link, link[p])
<1>1. p \in ListFrom(link, p)
  BY DEF ListFrom
<1>2. ASSUME NEW e \in ListFrom(link, link[p]) PROVE e \in ListFrom(link, p)
  <2> SUFFICES ASSUME NEW S \in SUBSET Events, Closed(link, S), p \in S
               PROVE  e \in S
    BY <1>2 DEF ListFrom
  <2>1. link[p] \in Events => link[p] \in S
    BY DEF Closed
  <2> QED
    BY <1>2, <2>1 DEF ListFrom
<1>3. ASSUME NEW e \in ListFrom(link, p), e # p
      PROVE  e \in ListFrom(link, link[p])
  <2> SUFFICES ASSUME NEW S \in SUBSET Events, Closed(link, S),
                      link[p] \in Events => link[p] \in S
               PROVE  e \in S
    BY <1>3 DEF ListFrom
  <2>1. S \cup {p} \in SUBSET Events /\ Closed(link, S \cup {p})
    BY DEF Closed
  <2>2. e \in S \cup {p}
    BY <2>1, <1>3, ListIsLeast
  <2> QED
    BY <1>3, <2>2
<1> QED
  BY <1>1, <1>2, <1>3

\* A list depends only on the links inside a closed set around it.
LEMMA ListSame ==
  ASSUME NEW link, NEW link2, NEW p, NEW T \in SUBSET Events,
         Closed(link, T), p \in Events => p \in T,
         \A e \in T : link2[e] = link[e]
  PROVE  ListFrom(link2, p) = ListFrom(link, p)
<1>1. ASSUME NEW e \in ListFrom(link, p) PROVE e \in ListFrom(link2, p)
  <2> SUFFICES ASSUME NEW S \in SUBSET Events, Closed(link2, S),
                      p \in Events => p \in S
               PROVE  e \in S
    BY <1>1 DEF ListFrom
  <2>1. S \cap T \in SUBSET Events /\ Closed(link, S \cap T)
    BY DEF Closed
  <2>2. e \in S \cap T
    BY <1>1, <2>1, ListIsLeast
  <2> QED
    BY <2>2
<1>2. ASSUME NEW e \in ListFrom(link2, p) PROVE e \in ListFrom(link, p)
  <2> SUFFICES ASSUME NEW S \in SUBSET Events, Closed(link, S),
                      p \in Events => p \in S
               PROVE  e \in S
    BY <1>2 DEF ListFrom
  <2>1. S \cap T \in SUBSET Events /\ Closed(link2, S \cap T)
    BY DEF Closed
  <2>2. e \in S \cap T
    BY <1>2, <2>1, ListIsLeast
  <2> QED
    BY <2>2
<1> QED
  BY <1>1, <1>2

\* The initial state satisfies the invariant.
LEMMA InitIInv == Init => IInv
<1> SUFFICES ASSUME Init PROVE IInv
  OBVIOUS
<1>1. TypeOK
  BY DEF Init, TypeOK, Pointers
<1>2. FlagOnlyWhileWaiting /\ WakeUpDue
  BY DEF Init, FlagOnlyWhileWaiting, WakeUpDue
<1>3. Phases /\ Constructing /\ Awaited
  BY DEF Init, Phases, Constructing, Awaited
<1>4. Links
  BY DEF Init, Links, Sent
<1>5. WaitsEmptyHanded
  BY DEF Init, WaitsEmptyHanded
<1>6. SentIsListed
  <2>1. Listed(nullptr) = {}
    BY EmptyList DEF Listed
  <2> QED
    BY <2>1 DEF Init, SentIsListed, Sent
<1> QED
  BY <1>1, <1>2, <1>3, <1>4, <1>5, <1>6 DEF IInv

\* Every step keeps the types.
LEMMA TypeStep ==
  TypeOK /\ FlagOnlyWhileWaiting /\ [Next]_vars => TypeOK'
<1> SUFFICES ASSUME TypeOK, FlagOnlyWhileWaiting, [Next]_vars
             PROVE  TypeOK'
  OBVIOUS
<1> USE DEF TypeOK, FlagOnlyWhileWaiting, Pointers,
            eventVars, queueVars, webVars
<1>1. ASSUME NEW e \in Events, markAsFinished(e)
      PROVE  TypeOK'
  BY <1>1 DEF markAsFinished, release
<1>2. ASSUME NEW e \in Events, sendLoad(e)
      PROVE  TypeOK'
  BY <1>2 DEF sendLoad
<1>3. ASSUME NEW e \in Events, sendPush(e)
      PROVE  TypeOK'
  BY <1>3 DEF sendPush
<1>4. ASSUME NEW e \in Events, sendRetry(e)
      PROVE  TypeOK'
  BY <1>4 DEF sendRetry
<1>5. ASSUME NEW e \in Events, sendNotify(e)
      PROVE  TypeOK'
  BY <1>5 DEF sendNotify, MutexHeld
<1>6. ASSUME NEW e \in Events, construct(e)
      PROVE  TypeOK'
  BY <1>6 DEF construct
<1>7. ASSUME NEW e \in Events, initializeFails(e)
      PROVE  TypeOK'
  BY <1>7 DEF initializeFails
<1>8. ASSUME NEW e \in Events, schedule(e)
      PROVE  TypeOK'
  BY <1>8 DEF schedule
<1>9. ASSUME NEW e \in Events, abandonEvent(e)
      PROVE  TypeOK'
  BY <1>9 DEF abandonEvent, release
<1>10. ASSUME NEW e \in Events, cancel(e)
      PROVE  TypeOK'
  BY <1>10 DEF cancel
<1>11. ASSUME NEW e \in Events, processReceived(e)
      PROVE  TypeOK'
  BY <1>11 DEF processReceived, release
<1>12. ASSUME NEW e \in Events, sweepCancel(e)
      PROVE  TypeOK'
  BY <1>12 DEF sweepCancel
<1>13. ASSUME NEW e \in Events, sweepFinished(e)
      PROVE  TypeOK'
  BY <1>13 DEF sweepFinished
<1>14. ASSUME NEW e \in Events, abandonReceived(e)
      PROVE  TypeOK'
  <2>1. /\ web' \in {"abandoning", "sweeping", "receiving"}
        /\ current' \in Pointers /\ seen' \in BOOLEAN
    BY <1>14, Zenon DEF abandonReceived
  <2>2. released' \in [Events -> Nat] /\ m_received' \in Pointers
    BY <1>14 DEF abandonReceived, release
  <2>3. /\ sweepables' \subseteq Events
        /\ UNCHANGED <<m_state, waitHandle, m_nextToProcess, m_queue, io, next,
                       notified>>
    BY <1>14 DEF abandonReceived
  <2> QED
    BY <2>1, <2>2, <2>3
<1>15. CASE tryReceiveSome
  BY <1>15 DEF tryReceiveSome
<1>16. CASE receiveSomeUntil
  BY <1>16 DEF receiveSomeUntil, Caller
<1>17. CASE receiveFlag
  BY <1>17 DEF receiveFlag, Caller
<1>18. CASE receivePark
  BY <1>18 DEF receivePark
<1>19. CASE receiveWake
  BY <1>19 DEF receiveWake
<1>20. CASE receiveTimeout
  BY <1>20 DEF receiveTimeout
<1>21. CASE receiveWoken
  BY <1>21 DEF receiveWoken, Caller
<1>22. CASE receiveTimedOut
  BY <1>22 DEF receiveTimedOut, Caller
<1>23. CASE die
  BY <1>23 DEF die
<1>25. CASE sessionEnds
  BY <1>25 DEF sessionEnds
<1>26. CASE UNCHANGED vars
  BY <1>26 DEF vars
<1> QED
  BY <1>1, <1>2, <1>3, <1>4, <1>5, <1>6, <1>7, <1>8, <1>9, <1>10, <1>11,
     <1>12, <1>13, <1>14, <1>15, <1>16, <1>17, <1>18, <1>19, <1>20, <1>21,
     <1>22, <1>23, <1>25, <1>26
     DEF Next, Receive

\* Every step keeps the flag where the web thread waits.
LEMMA FlagStep ==
  TypeOK /\ FlagOnlyWhileWaiting /\ [Next]_vars => FlagOnlyWhileWaiting'
<1> SUFFICES ASSUME TypeOK, FlagOnlyWhileWaiting, [Next]_vars
             PROVE  FlagOnlyWhileWaiting'
  OBVIOUS
<1> USE DEF TypeOK, FlagOnlyWhileWaiting, Pointers,
            eventVars, queueVars, webVars
<1>1. ASSUME NEW e \in Events, markAsFinished(e)
      PROVE  FlagOnlyWhileWaiting'
  BY <1>1 DEF markAsFinished, release
<1>2. ASSUME NEW e \in Events, sendLoad(e)
      PROVE  FlagOnlyWhileWaiting'
  BY <1>2 DEF sendLoad
<1>3. ASSUME NEW e \in Events, sendPush(e)
      PROVE  FlagOnlyWhileWaiting'
  BY <1>3 DEF sendPush
<1>4. ASSUME NEW e \in Events, sendRetry(e)
      PROVE  FlagOnlyWhileWaiting'
  BY <1>4 DEF sendRetry
<1>5. ASSUME NEW e \in Events, sendNotify(e)
      PROVE  FlagOnlyWhileWaiting'
  BY <1>5 DEF sendNotify, MutexHeld
<1>6. ASSUME NEW e \in Events, construct(e)
      PROVE  FlagOnlyWhileWaiting'
  BY <1>6 DEF construct
<1>7. ASSUME NEW e \in Events, initializeFails(e)
      PROVE  FlagOnlyWhileWaiting'
  BY <1>7 DEF initializeFails
<1>8. ASSUME NEW e \in Events, schedule(e)
      PROVE  FlagOnlyWhileWaiting'
  BY <1>8 DEF schedule
<1>9. ASSUME NEW e \in Events, abandonEvent(e)
      PROVE  FlagOnlyWhileWaiting'
  BY <1>9 DEF abandonEvent, release
<1>10. ASSUME NEW e \in Events, cancel(e)
      PROVE  FlagOnlyWhileWaiting'
  BY <1>10 DEF cancel
<1>11. ASSUME NEW e \in Events, processReceived(e)
      PROVE  FlagOnlyWhileWaiting'
  BY <1>11 DEF processReceived, release
<1>12. ASSUME NEW e \in Events, sweepCancel(e)
      PROVE  FlagOnlyWhileWaiting'
  BY <1>12 DEF sweepCancel
<1>13. ASSUME NEW e \in Events, sweepFinished(e)
      PROVE  FlagOnlyWhileWaiting'
  BY <1>13 DEF sweepFinished
<1>14. ASSUME NEW e \in Events, abandonReceived(e)
      PROVE  FlagOnlyWhileWaiting'
  BY <1>14 DEF abandonReceived, release
<1>15. CASE tryReceiveSome
  BY <1>15 DEF tryReceiveSome
<1>16. CASE receiveSomeUntil
  BY <1>16 DEF receiveSomeUntil, Caller
<1>17. CASE receiveFlag
  BY <1>17 DEF receiveFlag, Caller
<1>18. CASE receivePark
  BY <1>18 DEF receivePark
<1>19. CASE receiveWake
  BY <1>19 DEF receiveWake
<1>20. CASE receiveTimeout
  BY <1>20 DEF receiveTimeout
<1>21. CASE receiveWoken
  BY <1>21 DEF receiveWoken, Caller
<1>22. CASE receiveTimedOut
  BY <1>22 DEF receiveTimedOut, Caller
<1>23. CASE die
  BY <1>23 DEF die
<1>25. CASE sessionEnds
  BY <1>25 DEF sessionEnds
<1>26. CASE UNCHANGED vars
  BY <1>26 DEF vars
<1> QED
  BY <1>1, <1>2, <1>3, <1>4, <1>5, <1>6, <1>7, <1>8, <1>9, <1>10, <1>11,
     <1>12, <1>13, <1>14, <1>15, <1>16, <1>17, <1>18, <1>19, <1>20, <1>21,
     <1>22, <1>23, <1>25, <1>26
     DEF Next, Receive

\* Every step keeps the phases of events and processing threads.
LEMMA PhasesStep ==
  TypeOK /\ Constructing /\ Awaited /\ Links /\ Phases
    /\ [Next]_vars => Phases'
<1> SUFFICES ASSUME TypeOK, Constructing, Awaited, Links, Phases, [Next]_vars
             PROVE  Phases'
  OBVIOUS
<1> USE DEF TypeOK, Phases, Pointers, eventVars, queueVars, webVars
<1>1. ASSUME NEW e \in Events, markAsFinished(e)
      PROVE  Phases'
  BY <1>1 DEF markAsFinished, release
<1>2. ASSUME NEW e \in Events, sendLoad(e)
      PROVE  Phases'
  BY <1>2 DEF sendLoad
<1>3. ASSUME NEW e \in Events, sendPush(e)
      PROVE  Phases'
  BY <1>3 DEF sendPush
<1>4. ASSUME NEW e \in Events, sendRetry(e)
      PROVE  Phases'
  BY <1>4 DEF sendRetry
<1>5. ASSUME NEW e \in Events, sendNotify(e)
      PROVE  Phases'
  BY <1>5 DEF sendNotify, MutexHeld
<1>6. ASSUME NEW e \in Events, construct(e)
      PROVE  Phases'
  BY <1>6 DEF construct, Awaited
<1>7. ASSUME NEW e \in Events, initializeFails(e)
      PROVE  Phases'
  BY <1>7 DEF initializeFails
<1>8. ASSUME NEW e \in Events, schedule(e)
      PROVE  Phases'
  BY <1>8 DEF schedule, Constructing
<1>9. ASSUME NEW e \in Events, abandonEvent(e)
      PROVE  Phases'
  BY <1>9 DEF abandonEvent, release, Constructing
<1>10. ASSUME NEW e \in Events, cancel(e)
      PROVE  Phases'
  BY <1>10 DEF cancel, Constructing
<1>11. ASSUME NEW e \in Events, processReceived(e)
      PROVE  Phases'
  <2>1. Sent(e)
    BY <1>11 DEF processReceived, Links
  <2> QED
    BY <1>11, <2>1 DEF processReceived, release, Sent
<1>12. ASSUME NEW e \in Events, sweepCancel(e)
      PROVE  Phases'
  BY <1>12 DEF sweepCancel, Constructing
<1>13. ASSUME NEW e \in Events, sweepFinished(e)
      PROVE  Phases'
  BY <1>13 DEF sweepFinished
<1>14. ASSUME NEW e \in Events, abandonReceived(e)
      PROVE  Phases'
  <2>1. Sent(e)
    BY <1>14 DEF abandonReceived, Links
  <2> QED
    BY <1>14, <2>1 DEF abandonReceived, release, Sent
<1>15. CASE tryReceiveSome
  BY <1>15 DEF tryReceiveSome
<1>16. CASE receiveSomeUntil
  BY <1>16 DEF receiveSomeUntil, Caller
<1>17. CASE receiveFlag
  BY <1>17 DEF receiveFlag, Caller
<1>18. CASE receivePark
  BY <1>18 DEF receivePark
<1>19. CASE receiveWake
  BY <1>19 DEF receiveWake
<1>20. CASE receiveTimeout
  BY <1>20 DEF receiveTimeout
<1>21. CASE receiveWoken
  BY <1>21 DEF receiveWoken, Caller
<1>22. CASE receiveTimedOut
  BY <1>22 DEF receiveTimedOut, Caller
<1>23. CASE die
  BY <1>23 DEF die
<1>25. CASE sessionEnds
  BY <1>25 DEF sessionEnds
<1>26. CASE UNCHANGED vars
  BY <1>26 DEF vars
<1> QED
  BY <1>1, <1>2, <1>3, <1>4, <1>5, <1>6, <1>7, <1>8, <1>9, <1>10, <1>11,
     <1>12, <1>13, <1>14, <1>15, <1>16, <1>17, <1>18, <1>19, <1>20, <1>21,
     <1>22, <1>23, <1>25, <1>26
     DEF Next, Receive

\* Every step keeps an event under construction with the web thread.
LEMMA ConstructingStep ==
  TypeOK /\ Phases /\ Awaited /\ Links /\ Constructing
    /\ [Next]_vars => Constructing'
<1> SUFFICES ASSUME TypeOK, Phases, Awaited, Links, Constructing, [Next]_vars
             PROVE  Constructing'
  OBVIOUS
<1> USE DEF TypeOK, Constructing, Phases, Awaited, Pointers,
            eventVars, queueVars, webVars
<1>1. ASSUME NEW e \in Events, markAsFinished(e)
      PROVE  Constructing'
  BY <1>1 DEF markAsFinished, release
<1>2. ASSUME NEW e \in Events, sendLoad(e)
      PROVE  Constructing'
  BY <1>2 DEF sendLoad
<1>3. ASSUME NEW e \in Events, sendPush(e)
      PROVE  Constructing'
  BY <1>3 DEF sendPush
<1>4. ASSUME NEW e \in Events, sendRetry(e)
      PROVE  Constructing'
  BY <1>4 DEF sendRetry
<1>5. ASSUME NEW e \in Events, sendNotify(e)
      PROVE  Constructing'
  BY <1>5 DEF sendNotify, MutexHeld
<1>6. ASSUME NEW e \in Events, construct(e)
      PROVE  Constructing'
  BY <1>6 DEF construct
<1>7. ASSUME NEW e \in Events, initializeFails(e)
      PROVE  Constructing'
  BY <1>7 DEF initializeFails
<1>8. ASSUME NEW e \in Events, schedule(e)
      PROVE  Constructing'
  BY <1>8 DEF schedule
<1>9. ASSUME NEW e \in Events, abandonEvent(e)
      PROVE  Constructing'
  BY <1>9 DEF abandonEvent, release
<1>10. ASSUME NEW e \in Events, cancel(e)
      PROVE  Constructing'
  BY <1>10 DEF cancel
<1>11. ASSUME NEW e \in Events, processReceived(e)
      PROVE  Constructing'
  <2>1. Sent(e)
    BY <1>11 DEF processReceived, Links
  <2> QED
    BY <1>11, <2>1 DEF processReceived, release, Sent
<1>12. ASSUME NEW e \in Events, sweepCancel(e)
      PROVE  Constructing'
  BY <1>12 DEF sweepCancel
<1>13. ASSUME NEW e \in Events, sweepFinished(e)
      PROVE  Constructing'
  BY <1>13 DEF sweepFinished
<1>14. ASSUME NEW e \in Events, abandonReceived(e)
      PROVE  Constructing'
  BY <1>14 DEF abandonReceived, release
<1>15. CASE tryReceiveSome
  BY <1>15 DEF tryReceiveSome
<1>16. CASE receiveSomeUntil
  BY <1>16 DEF receiveSomeUntil, Caller
<1>17. CASE receiveFlag
  BY <1>17 DEF receiveFlag, Caller
<1>18. CASE receivePark
  BY <1>18 DEF receivePark
<1>19. CASE receiveWake
  BY <1>19 DEF receiveWake
<1>20. CASE receiveTimeout
  BY <1>20 DEF receiveTimeout
<1>21. CASE receiveWoken
  BY <1>21 DEF receiveWoken, Caller
<1>22. CASE receiveTimedOut
  BY <1>22 DEF receiveTimedOut, Caller
<1>23. CASE die
  BY <1>23 DEF die
<1>25. CASE sessionEnds
  BY <1>25 DEF sessionEnds
<1>26. CASE UNCHANGED vars
  BY <1>26 DEF vars
<1> QED
  BY <1>1, <1>2, <1>3, <1>4, <1>5, <1>6, <1>7, <1>8, <1>9, <1>10, <1>11,
     <1>12, <1>13, <1>14, <1>15, <1>16, <1>17, <1>18, <1>19, <1>20, <1>21,
     <1>22, <1>23, <1>25, <1>26
     DEF Next, Receive

\* Every step keeps the wait handles of pending events waiting.
LEMMA AwaitedStep ==
  TypeOK /\ Phases /\ Constructing /\ Links /\ Awaited
    /\ [Next]_vars => Awaited'
<1> SUFFICES ASSUME TypeOK, Phases, Constructing, Links, Awaited, [Next]_vars
             PROVE  Awaited'
  OBVIOUS
<1> USE DEF TypeOK, Awaited, Phases, Constructing, Pointers,
            eventVars, queueVars, webVars
<1>1. ASSUME NEW e \in Events, markAsFinished(e)
      PROVE  Awaited'
  BY <1>1 DEF markAsFinished, release
<1>2. ASSUME NEW e \in Events, sendLoad(e)
      PROVE  Awaited'
  BY <1>2 DEF sendLoad
<1>3. ASSUME NEW e \in Events, sendPush(e)
      PROVE  Awaited'
  BY <1>3 DEF sendPush
<1>4. ASSUME NEW e \in Events, sendRetry(e)
      PROVE  Awaited'
  BY <1>4 DEF sendRetry
<1>5. ASSUME NEW e \in Events, sendNotify(e)
      PROVE  Awaited'
  BY <1>5 DEF sendNotify, MutexHeld
<1>6. ASSUME NEW e \in Events, construct(e)
      PROVE  Awaited'
  BY <1>6 DEF construct
<1>7. ASSUME NEW e \in Events, initializeFails(e)
      PROVE  Awaited'
  BY <1>7 DEF initializeFails
<1>8. ASSUME NEW e \in Events, schedule(e)
      PROVE  Awaited'
  BY <1>8 DEF schedule
<1>9. ASSUME NEW e \in Events, abandonEvent(e)
      PROVE  Awaited'
  BY <1>9 DEF abandonEvent, release
<1>10. ASSUME NEW e \in Events, cancel(e)
      PROVE  Awaited'
  BY <1>10 DEF cancel
<1>11. ASSUME NEW e \in Events, processReceived(e)
      PROVE  Awaited'
  <2>1. Sent(e)
    BY <1>11 DEF processReceived, Links
  <2> QED
    BY <1>11, <2>1 DEF processReceived, release, Sent
<1>12. ASSUME NEW e \in Events, sweepCancel(e)
      PROVE  Awaited'
  BY <1>12 DEF sweepCancel
<1>13. ASSUME NEW e \in Events, sweepFinished(e)
      PROVE  Awaited'
  BY <1>13 DEF sweepFinished
<1>14. ASSUME NEW e \in Events, abandonReceived(e)
      PROVE  Awaited'
  <2>1. Sent(e)
    BY <1>14 DEF abandonReceived, Links
  <2> QED
    BY <1>14, <2>1 DEF abandonReceived, release, Sent
<1>15. CASE tryReceiveSome
  BY <1>15 DEF tryReceiveSome
<1>16. CASE receiveSomeUntil
  BY <1>16 DEF receiveSomeUntil, Caller
<1>17. CASE receiveFlag
  BY <1>17 DEF receiveFlag, Caller
<1>18. CASE receivePark
  BY <1>18 DEF receivePark
<1>19. CASE receiveWake
  BY <1>19 DEF receiveWake
<1>20. CASE receiveTimeout
  BY <1>20 DEF receiveTimeout
<1>21. CASE receiveWoken
  BY <1>21 DEF receiveWoken, Caller
<1>22. CASE receiveTimedOut
  BY <1>22 DEF receiveTimedOut, Caller
<1>23. CASE die
  BY <1>23 DEF die
<1>25. CASE sessionEnds
  BY <1>25 DEF sessionEnds
<1>26. CASE UNCHANGED vars
  BY <1>26 DEF vars
<1> QED
  BY <1>1, <1>2, <1>3, <1>4, <1>5, <1>6, <1>7, <1>8, <1>9, <1>10, <1>11,
     <1>12, <1>13, <1>14, <1>15, <1>16, <1>17, <1>18, <1>19, <1>20, <1>21,
     <1>22, <1>23, <1>25, <1>26
     DEF Next, Receive

\* Every step keeps the wake-up of a parked thread due.
LEMMA WakeUpStep ==
  TypeOK /\ FlagOnlyWhileWaiting /\ WakeUpDue /\ [Next]_vars => WakeUpDue'
<1> SUFFICES ASSUME TypeOK, FlagOnlyWhileWaiting, WakeUpDue, [Next]_vars
             PROVE  WakeUpDue'
  OBVIOUS
<1> USE DEF TypeOK, FlagOnlyWhileWaiting, WakeUpDue, Pointers,
            eventVars, queueVars, webVars
<1>1. ASSUME NEW e \in Events, markAsFinished(e)
      PROVE  WakeUpDue'
  BY <1>1 DEF markAsFinished, release
<1>2. ASSUME NEW e \in Events, sendLoad(e)
      PROVE  WakeUpDue'
  BY <1>2 DEF sendLoad
<1>3. ASSUME NEW e \in Events, sendPush(e)
      PROVE  WakeUpDue'
  BY <1>3 DEF sendPush
<1>4. ASSUME NEW e \in Events, sendRetry(e)
      PROVE  WakeUpDue'
  BY <1>4 DEF sendRetry
<1>5. ASSUME NEW e \in Events, sendNotify(e)
      PROVE  WakeUpDue'
  BY <1>5 DEF sendNotify, MutexHeld
<1>6. ASSUME NEW e \in Events, construct(e)
      PROVE  WakeUpDue'
  BY <1>6 DEF construct
<1>7. ASSUME NEW e \in Events, initializeFails(e)
      PROVE  WakeUpDue'
  BY <1>7 DEF initializeFails
<1>8. ASSUME NEW e \in Events, schedule(e)
      PROVE  WakeUpDue'
  BY <1>8 DEF schedule
<1>9. ASSUME NEW e \in Events, abandonEvent(e)
      PROVE  WakeUpDue'
  BY <1>9 DEF abandonEvent, release
<1>10. ASSUME NEW e \in Events, cancel(e)
      PROVE  WakeUpDue'
  BY <1>10 DEF cancel
<1>11. ASSUME NEW e \in Events, processReceived(e)
      PROVE  WakeUpDue'
  BY <1>11 DEF processReceived, release
<1>12. ASSUME NEW e \in Events, sweepCancel(e)
      PROVE  WakeUpDue'
  BY <1>12 DEF sweepCancel
<1>13. ASSUME NEW e \in Events, sweepFinished(e)
      PROVE  WakeUpDue'
  BY <1>13 DEF sweepFinished
<1>14. ASSUME NEW e \in Events, abandonReceived(e)
      PROVE  WakeUpDue'
  BY <1>14 DEF abandonReceived, release
<1>15. CASE tryReceiveSome
  BY <1>15 DEF tryReceiveSome
<1>16. CASE receiveSomeUntil
  BY <1>16 DEF receiveSomeUntil, Caller
<1>17. CASE receiveFlag
  BY <1>17 DEF receiveFlag, Caller
<1>18. CASE receivePark
  BY <1>18 DEF receivePark
<1>19. CASE receiveWake
  BY <1>19 DEF receiveWake
<1>20. CASE receiveTimeout
  BY <1>20 DEF receiveTimeout
<1>21. CASE receiveWoken
  BY <1>21 DEF receiveWoken, Caller
<1>22. CASE receiveTimedOut
  BY <1>22 DEF receiveTimedOut, Caller
<1>23. CASE die
  BY <1>23 DEF die
<1>25. CASE sessionEnds
  BY <1>25 DEF sessionEnds
<1>26. CASE UNCHANGED vars
  BY <1>26 DEF vars
<1> QED
  BY <1>1, <1>2, <1>3, <1>4, <1>5, <1>6, <1>7, <1>8, <1>9, <1>10, <1>11,
     <1>12, <1>13, <1>14, <1>15, <1>16, <1>17, <1>18, <1>19, <1>20, <1>21,
     <1>22, <1>23, <1>25, <1>26
     DEF Next, Receive

\* Every step keeps the two lists apart and their events sent.
LEMMA LinksStep ==
  TypeOK /\ FlagOnlyWhileWaiting /\ Phases /\ Constructing /\ Awaited /\ Links
    /\ [Next]_vars => Links'
<1> SUFFICES ASSUME TypeOK, FlagOnlyWhileWaiting, Phases, Constructing,
                    Awaited, Links, [Next]_vars
             PROVE  Links'
  OBVIOUS
<1> USE DEF TypeOK, Phases, Constructing, Links, Sent, Pointers,
            eventVars, queueVars, webVars
<1>1. ASSUME NEW e \in Events, markAsFinished(e)
      PROVE  Links'
  BY <1>1 DEF markAsFinished, release
<1>2. ASSUME NEW e \in Events, sendLoad(e)
      PROVE  Links'
  BY <1>2 DEF sendLoad
<1>3. ASSUME NEW e \in Events, sendPush(e)
      PROVE  Links'
  BY <1>3 DEF sendPush
<1>4. ASSUME NEW e \in Events, sendRetry(e)
      PROVE  Links'
  BY <1>4 DEF sendRetry
<1>5. ASSUME NEW e \in Events, sendNotify(e)
      PROVE  Links'
  BY <1>5 DEF sendNotify, MutexHeld
<1>6. ASSUME NEW e \in Events, construct(e)
      PROVE  Links'
  BY <1>6 DEF construct, Awaited
<1>7. ASSUME NEW e \in Events, initializeFails(e)
      PROVE  Links'
  BY <1>7 DEF initializeFails
<1>8. ASSUME NEW e \in Events, schedule(e)
      PROVE  Links'
  BY <1>8 DEF schedule
<1>9. ASSUME NEW e \in Events, abandonEvent(e)
      PROVE  Links'
  BY <1>9 DEF abandonEvent, release
<1>10. ASSUME NEW e \in Events, cancel(e)
      PROVE  Links'
  BY <1>10 DEF cancel
<1>11. ASSUME NEW e \in Events, processReceived(e)
      PROVE  Links'
  BY <1>11 DEF processReceived, release
<1>12. ASSUME NEW e \in Events, sweepCancel(e)
      PROVE  Links'
  BY <1>12 DEF sweepCancel
<1>13. ASSUME NEW e \in Events, sweepFinished(e)
      PROVE  Links'
  BY <1>13 DEF sweepFinished
<1>14. ASSUME NEW e \in Events, abandonReceived(e)
      PROVE  Links'
  BY <1>14 DEF abandonReceived, release
<1>15. CASE tryReceiveSome
  BY <1>15 DEF tryReceiveSome
<1>16. CASE receiveSomeUntil
  BY <1>16 DEF receiveSomeUntil, Caller
<1>17. CASE receiveFlag
  BY <1>17 DEF receiveFlag, Caller
<1>18. CASE receivePark
  BY <1>18 DEF receivePark
<1>19. CASE receiveWake
  BY <1>19 DEF receiveWake
<1>20. CASE receiveTimeout
  BY <1>20 DEF receiveTimeout
<1>21. CASE receiveWoken
  BY <1>21 DEF receiveWoken, Caller
<1>22. CASE receiveTimedOut
  BY <1>22 DEF receiveTimedOut, Caller
<1>23. CASE die
  BY <1>23 DEF die
<1>25. CASE sessionEnds
  BY <1>25 DEF sessionEnds
<1>26. CASE UNCHANGED vars
  BY <1>26 DEF vars
<1> QED
  BY <1>1, <1>2, <1>3, <1>4, <1>5, <1>6, <1>7, <1>8, <1>9, <1>10, <1>11,
     <1>12, <1>13, <1>14, <1>15, <1>16, <1>17, <1>18, <1>19, <1>20, <1>21,
     <1>22, <1>23, <1>25, <1>26
     DEF Next, Receive

\* What pushing an event does to the two lists.
LEMMA PushLists ==
  ASSUME TypeOK, Phases, Links, SentIsListed, NEW e \in Events, sendPush(e)
  PROVE  SentIsListed'
<1> DEFINE S == {f \in Events : Sent(f)}  link == m_nextToProcess
           link2 == m_nextToProcess'  q == m_queue  r == m_received
<1>1. /\ ~Sent(e) /\ Sent(e)'
      /\ \A f \in Events \ {e} : Sent(f)' = Sent(f)
      /\ m_queue' = e /\ m_received' = r
      /\ link2[e] = (IF q = K_CONSUMER_WAITING THEN nullptr ELSE q)
      /\ \A f \in Events \ {e} : link2[f] = link[f]
  BY DEF TypeOK, Phases, sendPush, Sent, eventVars
<1>2. /\ S \in SUBSET Events /\ Closed(link, S)
      /\ q \in Events => q \in S
      /\ r \in Events => r \in S
      /\ \A f \in S : link2[f] = link[f]
  BY <1>1 DEF Links, Closed
<1>3. ListFrom(link2, r) = ListFrom(link, r)
  BY <1>2, ListSame
<1>4. ListFrom(link2, link2[e]) = ListFrom(link, q)
  <2>1. CASE q \in Events
    <3>1. link2[e] = q
      BY <1>1, <2>1
    <3> QED
      BY <1>2, <3>1, ListSame
  <2>2. CASE q \notin Events
    <3>1. link2[e] \notin Events
      BY <1>1, <2>2
    <3> QED
      BY <2>2, <3>1, EmptyList
  <2> QED
    BY <2>1, <2>2
<1>5. ListFrom(link2, e) = {e} \cup ListFrom(link, q)
  BY <1>4, ListUnfold
<1>6. /\ S = ListFrom(link, q) \cup ListFrom(link, r)
      /\ ListFrom(link, q) \cap ListFrom(link, r) = {}
  BY DEF SentIsListed, Listed
<1>7. {f \in Events : Sent(f)'} = S \cup {e} /\ e \notin S
  BY <1>1
<1>8. /\ {f \in Events : Sent(f)'} = ListFrom(link2, e) \cup ListFrom(link2, r)
      /\ ListFrom(link2, e) \cap ListFrom(link2, r) = {}
  <2> HIDE DEF S, link, link2, q, r
  <2> QED
    BY <1>3, <1>5, <1>6, <1>7
<1> QED
  BY <1>1, <1>8 DEF SentIsListed, Listed

\* What taking the first event of the received list does to them.
LEMMA TakeLists ==
  ASSUME TypeOK, Links, SentIsListed, NEW e \in Events, m_received = e,
         m_received' = m_nextToProcess[e],
         released' = [released EXCEPT ![e] = @ + 1],
         UNCHANGED <<m_state, io, m_nextToProcess, m_queue>>
  PROVE  SentIsListed'
<1> DEFINE S == {f \in Events : Sent(f)}  link == m_nextToProcess  q == m_queue
<1>1. /\ Sent(e) /\ ~Sent(e)'
      /\ \A f \in Events \ {e} : Sent(f)' = Sent(f)
  BY DEF TypeOK, Links, Sent
<1>2. /\ S = ListFrom(link, q) \cup ListFrom(link, e)
      /\ ListFrom(link, q) \cap ListFrom(link, e) = {}
  BY DEF SentIsListed, Listed
<1>3. ListFrom(link, e) = {e} \cup ListFrom(link, link[e])
  BY ListUnfold
<1>4. e \notin ListFrom(link, link[e])
  <2>1. S \ {e} \in SUBSET Events /\ Closed(link, S \ {e})
    BY DEF Links, Closed
  <2>2. link[e] \in Events => link[e] \in S \ {e}
    BY <1>1 DEF Links
  <2>3. ListFrom(link, link[e]) \subseteq S \ {e}
    BY <2>1, <2>2, ListIsLeast
  <2> QED
    BY <2>3
<1>5. {f \in Events : Sent(f)'} = S \ {e}
  BY <1>1
<1>6. /\ {f \in Events : Sent(f)'} = ListFrom(link, q) \cup ListFrom(link, link[e])
      /\ ListFrom(link, q) \cap ListFrom(link, link[e]) = {}
  <2> HIDE DEF S, link, q
  <2> QED
    BY <1>2, <1>3, <1>4, <1>5
<1> QED
  BY <1>6 DEF SentIsListed, Listed

\* What taking the whole stack does to them, when nothing is left to process.
LEMMA ExchangeLists ==
  ASSUME TypeOK, SentIsListed, m_received = nullptr,
         m_received' = (IF m_queue = K_CONSUMER_WAITING THEN nullptr ELSE m_queue),
         m_queue' \in {nullptr, K_CONSUMER_WAITING},
         UNCHANGED <<m_state, io, released, m_nextToProcess>>
  PROVE  SentIsListed'
<1> DEFINE link == m_nextToProcess
<1>1. {f \in Events : Sent(f)'} = {f \in Events : Sent(f)}
  BY DEF Sent
<1>2. /\ ListFrom(link, m_received) = {}
      /\ ListFrom(link, m_queue') = {}
  BY EmptyList
<1>3. ListFrom(link, m_received') = ListFrom(link, m_queue)
  <2>1. CASE m_queue = K_CONSUMER_WAITING
    <3>1. ListFrom(link, nullptr) = {} /\ ListFrom(link, K_CONSUMER_WAITING) = {}
      BY EmptyList
    <3> QED
      BY <2>1, <3>1
  <2> QED
    BY <2>1
<1> QED
  BY <1>1, <1>2, <1>3 DEF SentIsListed, Listed

\* The web thread waits with nothing left to process.
LEMMA WaitsStep ==
  TypeOK /\ WaitsEmptyHanded /\ [Next]_vars => WaitsEmptyHanded'
<1> SUFFICES ASSUME TypeOK, WaitsEmptyHanded, [Next]_vars
             PROVE  WaitsEmptyHanded'
  OBVIOUS
<1> USE DEF WaitsEmptyHanded, eventVars, queueVars, webVars
<1>1. CASE UNCHANGED <<web, m_received>>
  BY <1>1
<1>2. CASE Receive
  BY <1>2 DEF Receive, receiveSomeUntil, receiveFlag, receivePark, receiveWake,
    receiveTimeout, receiveWoken, receiveTimedOut, Caller
<1>3. CASE tryReceiveSome \/ die \/ sessionEnds
  BY <1>3 DEF tryReceiveSome, die, sessionEnds
<1>4. ASSUME NEW e \in Events,
             \/ construct(e) \/ schedule(e) \/ abandonEvent(e)
             \/ processReceived(e) \/ sweepFinished(e)
      PROVE  WaitsEmptyHanded'
  BY <1>4 DEF construct, schedule, abandonEvent, processReceived, sweepFinished
<1>5. ASSUME NEW e \in Events, abandonReceived(e) PROVE WaitsEmptyHanded'
  <2>1. web' \in {"abandoning", "sweeping", "receiving"}
    BY <1>5, Zenon DEF abandonReceived
  <2> QED
    BY <2>1
<1> QED
  BY <1>1, <1>2, <1>3, <1>4, <1>5
     DEF Next, vars, markAsFinished, sendLoad, sendPush, sendRetry, sendNotify,
         initializeFails, cancel, sweepCancel

\* Every step keeps exactly the sent events in the two lists.
LEMMA ListedStep ==
  TypeOK /\ FlagOnlyWhileWaiting /\ Phases /\ Constructing /\ Awaited /\ Links
    /\ WaitsEmptyHanded /\ SentIsListed /\ [Next]_vars => SentIsListed'
<1> SUFFICES ASSUME TypeOK, FlagOnlyWhileWaiting, Phases, Constructing, Awaited,
                    Links, WaitsEmptyHanded, SentIsListed, [Next]_vars
             PROVE  SentIsListed'
  OBVIOUS
<1> USE DEF eventVars, queueVars, webVars
<1>1. CASE /\ UNCHANGED queueVars
           /\ \A f \in Events : Sent(f)' = Sent(f)
  <2>1. {f \in Events : Sent(f)'} = {f \in Events : Sent(f)}
    BY <1>1
  <2> QED
    BY <1>1, <2>1 DEF SentIsListed, Listed
<1>2. ASSUME NEW e \in Events, markAsFinished(e) PROVE SentIsListed'
  <2>1. \A f \in Events : Sent(f)' = Sent(f)
    BY <1>2 DEF markAsFinished, release, TypeOK, Phases, Sent
  <2> QED
    BY <1>1, <1>2, <2>1 DEF markAsFinished
<1>3. ASSUME NEW e \in Events, sendLoad(e) \/ sendRetry(e) \/ sendNotify(e)
      PROVE  SentIsListed'
  <2>1. \A f \in Events : Sent(f)' = Sent(f)
    BY <1>3 DEF sendLoad, sendRetry, sendNotify, TypeOK, Sent
  <2> QED
    BY <1>1, <1>3, <2>1 DEF sendLoad, sendRetry, sendNotify
<1>4. ASSUME NEW e \in Events, construct(e) \/ schedule(e) \/ abandonEvent(e)
      PROVE  SentIsListed'
  <2>1. \A f \in Events : Sent(f)' = Sent(f)
    BY <1>4 DEF construct, schedule, abandonEvent, release, TypeOK, Phases,
      Constructing, Awaited, Sent
  <2> QED
    BY <1>1, <1>4, <2>1 DEF construct, schedule, abandonEvent
<1>5. ASSUME NEW e \in Events, initializeFails(e) \/ cancel(e) \/ sweepCancel(e)
                                 \/ sweepFinished(e)
      PROVE  SentIsListed'
  <2>1. \A f \in Events : Sent(f)' = Sent(f)
    BY <1>5 DEF initializeFails, cancel, sweepCancel, sweepFinished, TypeOK, Sent
  <2> QED
    BY <1>1, <1>5, <2>1 DEF initializeFails, cancel, sweepCancel, sweepFinished
<1>6. ASSUME NEW e \in Events, sendPush(e) PROVE SentIsListed'
  BY <1>6, PushLists
<1>7. ASSUME NEW e \in Events, processReceived(e) \/ abandonReceived(e)
      PROVE  SentIsListed'
  BY <1>7, TakeLists DEF processReceived, abandonReceived, release
<1>8. CASE tryReceiveSome \/ receiveSomeUntil
  <2>1. m_queue # K_CONSUMER_WAITING
    BY <1>8 DEF tryReceiveSome, receiveSomeUntil, FlagOnlyWhileWaiting
  <2> QED
    BY <1>8, <2>1, ExchangeLists DEF tryReceiveSome, receiveSomeUntil
<1>9. CASE receiveFlag
  <2>1. m_queue # K_CONSUMER_WAITING /\ m_received = nullptr
    BY <1>9 DEF receiveFlag, FlagOnlyWhileWaiting, WaitsEmptyHanded
  <2>2. m_received' = m_queue /\ m_queue' \in {nullptr, K_CONSUMER_WAITING}
    BY <1>9, <2>1 DEF receiveFlag
  <2> QED
    BY <1>9, <2>1, <2>2, ExchangeLists DEF receiveFlag
<1>10. CASE receiveWoken \/ receiveTimedOut
  <2>1. m_received = nullptr
    BY <1>10 DEF receiveWoken, receiveTimedOut, WaitsEmptyHanded
  <2>2. /\ m_received' = (IF m_queue = K_CONSUMER_WAITING THEN nullptr ELSE m_queue)
        /\ m_queue' \in {nullptr, K_CONSUMER_WAITING}
    BY <1>10, <2>1 DEF receiveWoken, receiveTimedOut
  <2> QED
    BY <1>10, <2>1, <2>2, ExchangeLists DEF receiveWoken, receiveTimedOut
<1>11. CASE UNCHANGED <<eventVars, queueVars, io>>
  BY <1>1, <1>11 DEF Sent
<1> QED
  BY <1>2, <1>3, <1>4, <1>5, <1>6, <1>7, <1>8, <1>9, <1>10, <1>11
     DEF Next, Receive, vars, receivePark, receiveWake, receiveTimeout, die,
         sessionEnds
-----------------------------------------------------------------------------
\* The invariant is inductive, so it holds in every reachable state.
THEOREM Invariance == Spec => []IInv
<1>1. IInv /\ [Next]_vars => IInv'
  BY TypeStep, FlagStep, PhasesStep, ConstructingStep, AwaitedStep, LinksStep,
     WakeUpStep, WaitsStep, ListedStep DEF IInv
<1> QED
  BY InitIInv, <1>1, PTL DEF Spec

\* The types are right: no list ever leads to K_CONSUMER_WAITING.
THEOREM TypeCorrect == Spec => []TypeOK
<1>1. IInv => TypeOK
  BY DEF IInv
<1> QED
  BY Invariance, <1>1, PTL

\* Whatever the number of processing threads and the order of their pushes,
\* cancellations and sweeps, an event is deleted at most once, by its owner,
\* and no list leads to a deleted event.
THEOREM OwnershipProtocol == Spec => []DeletedOnceByOwner
<1>1. IInv => DeletedOnceByOwner
  <2> SUFFICES ASSUME IInv, NEW e \in Events, released[e] # 0
               PROVE  /\ released[e] = 1
                      /\ io[e] \notin {"working", "load", "push"}
                      /\ e # m_queue /\ e # m_received
                      /\ \A f \in Events : Sent(f) => m_nextToProcess[f] # e
                      /\ m_state[e] \in {"Finished", "Canceled", "Abandoned"}
    BY DEF DeletedOnceByOwner
  <2>1. /\ released[e] = 1
        /\ io[e] \notin {"working", "load", "push"}
        /\ m_state[e] \in {"Finished", "Canceled", "Abandoned"}
    BY DEF IInv, Phases, TypeOK
  <2>2. ~Sent(e)
    BY DEF Sent
  <2>3. e # nullptr
    OBVIOUS
  <2> QED
    BY <2>1, <2>2, <2>3 DEF IInv, Links
<1> QED
  BY Invariance, <1>1, PTL

\* However many processing threads push while the web thread exchanges, flags
\* or times out, exactly the sent events that are not dealt with are in the
\* stack or in the received list, and none is in both.
THEOREM NothingSentIsLost == Spec => []SentIsListed
<1>1. IInv => SentIsListed
  BY DEF IInv
<1> QED
  BY Invariance, <1>1, PTL

\* An event reaches the web thread only while its wait handle is awaited.
THEOREM DeliveryCorrect == Spec => []DeliversOnlyAwaited
<1>1. IInv => DeliversOnlyAwaited
  BY DEF IInv, Phases, Awaited, Sent, DeliversOnlyAwaited
<1> QED
  BY Invariance, <1>1, PTL

\* The parked web thread cannot miss the notification of a push.
THEOREM NoLostWakeUp == Spec => []ParkedIsFlaggedOrNotified
<1>1. IInv => ParkedIsFlaggedOrNotified
  BY DEF IInv, WakeUpDue, ParkedIsFlaggedOrNotified
<1> QED
  BY Invariance, <1>1, PTL

\* The stack holds the flag only while the web thread waits.
THEOREM FlagCorrect == Spec => []FlagOnlyWhileWaiting
<1>1. IInv => FlagOnlyWhileWaiting
  BY DEF IInv
<1> QED
  BY Invariance, <1>1, PTL
=============================================================================
