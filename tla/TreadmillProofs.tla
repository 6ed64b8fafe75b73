--------------------------- MODULE TreadmillProofs ---------------------------
(***************************************************************************)
(* Machine-checked proofs about the treadmill, for any number of threads,  *)
(* work items and clock values.                                            *)
(***************************************************************************)
EXTENDS Treadmill, SequenceTheorems, TLAPS

\* No request started in the future, and the items that have been handed to
\* the queue, to a finishing thread or to the past carry a timestamp.
ClockBounds ==
  /\ \A t \in Threads : StartTime(t) <= clock
  /\ \A t \in Threads : enqueuing[t] # NoItem => timestamp[enqueuing[t]] # 0
  /\ \A k \in 1..Len(s_tq) : timestamp[s_tq[k]] # 0
  /\ \A t \in Threads : \A k \in 1..Len(toFire[t]) :
       timestamp[toFire[t][k]] # 0
  /\ \A i \in ran : timestamp[i] # 0

\* A request an item still has to outlive is in flight, and started no later
\* than the instant the item was stamped.
OutstandingStartedBefore ==
  \A i \in Items : \A u \in outstanding[i] :
    u \in InFlight /\ StartTime(u) <= timestamp[i]

\* No item is in two places: not twice among the items being enqueued, in the
\* queue or in what the finishing threads have still to run,
Once ==
  /\ \A t, u \in Threads :
       (enqueuing[t] # NoItem /\ enqueuing[u] = enqueuing[t]) => u = t
  /\ \A k, m \in 1..Len(s_tq) : s_tq[m] = s_tq[k] => m = k
  /\ \A t, u \in Threads : \A k \in 1..Len(toFire[t]), m \in 1..Len(toFire[u]) :
       toFire[u][m] = toFire[t][k] => (u = t /\ m = k)

\* nor in two of these at a time,
Apart ==
  /\ \A t \in Threads : \A k \in 1..Len(s_tq) : s_tq[k] # enqueuing[t]
  /\ \A t, u \in Threads : \A k \in 1..Len(toFire[u]) : toFire[u][k] # enqueuing[t]
  /\ \A u \in Threads : \A k \in 1..Len(s_tq), m \in 1..Len(toFire[u]) :
       toFire[u][m] # s_tq[k]

\* nor in one of them after it has run.
NotYetRun ==
  /\ \A t \in Threads : enqueuing[t] \notin ran
  /\ \A k \in 1..Len(s_tq) : s_tq[k] \notin ran
  /\ \A t \in Threads : \A k \in 1..Len(toFire[t]) : toFire[t][k] \notin ran

\* A stamped item is somewhere until the list is destroyed.
Somewhere ==
  ~s_destroyed => \A i \in Items : timestamp[i] # 0 =>
    \/ \E t \in Threads : enqueuing[t] = i
    \/ \E k \in 1..Len(s_tq) : s_tq[k] = i
    \/ \E t \in Threads : \E k \in 1..Len(toFire[t]) : toFire[t][k] = i
    \/ i \in ran

\* So the items are conserved.
Conserved == Once /\ Apart /\ NotYetRun /\ Somewhere

\* The thread in the status loop has left the requests in flight and has a
\* status to change, and a second round finds it pending at the first exchange.
StatusLoop ==
  /\ s_stateLock = NoThread => gcRound = 0 /\ ~gcSecond
  /\ s_stateLock # NoThread =>
       /\ s_stateLock \in WithRequestInfo
       /\ s_stateLock \notin InFlight
       /\ gcRound = 1 => /\ ~gcSecond
                         /\ gcStatus[s_stateLock] = "OnRequestWithPendingExecution"

\* The inductive invariant.
IInv ==
  /\ TypeOK
  /\ ClockBounds
  /\ OldestIsMinimum
  /\ OutstandingStartedBefore
  /\ FiresOnlyUnreachable
  /\ GCStatusFollowsRequest
  /\ StatusLoop
  /\ Conserved

USE TreadmillAssumption DEF kNoStartTime, kInvalidRequestIdx
-----------------------------------------------------------------------------
\* Cutting a queue in two: the two parts are queues, and they hold the items
\* of the whole in order.
LEMMA CutQueue ==
  ASSUME NEW s \in Seq(Items), NEW n \in 0..Len(s)
  PROVE  /\ SubSeq(s, 1, n) \in Seq(Items)
         /\ Len(SubSeq(s, 1, n)) = n
         /\ \A k \in 1..n : SubSeq(s, 1, n)[k] = s[k]
         /\ SubSeq(s, n + 1, Len(s)) \in Seq(Items)
         /\ Len(SubSeq(s, n + 1, Len(s))) = Len(s) - n
         /\ \A k \in 1..Len(s) - n : SubSeq(s, n + 1, Len(s))[k] = s[n + k]
<1>1. Len(s) \in Nat /\ n \in Int /\ 0 <= n /\ n <= Len(s)
  BY LenProperties
<1>2. \A i \in 1..Len(s) : s[i] \in Items
  BY ElementOfSeq
<1>3. \A i \in 1..n : s[i] \in Items
  BY <1>1, <1>2
<1>4. \A i \in (n + 1)..Len(s) : s[i] \in Items
  BY <1>1, <1>2
<1>5. /\ SubSeq(s, 1, n) \in Seq(Items)
      /\ Len(SubSeq(s, 1, n)) = (IF 1 <= n THEN n - 1 + 1 ELSE 0)
      /\ \A i \in 1..(n - 1 + 1) : SubSeq(s, 1, n)[i] = s[1 + i - 1]
  BY <1>1, <1>3, SubSeqProperties
<1>6. /\ SubSeq(s, n + 1, Len(s)) \in Seq(Items)
      /\ Len(SubSeq(s, n + 1, Len(s))) =
           (IF n + 1 <= Len(s) THEN Len(s) - (n + 1) + 1 ELSE 0)
      /\ \A i \in 1..(Len(s) - (n + 1) + 1) :
           SubSeq(s, n + 1, Len(s))[i] = s[n + 1 + i - 1]
  <2>1. n + 1 \in Int /\ Len(s) \in Int
    BY <1>1
  <2> QED
    BY <2>1, <1>4, SubSeqProperties
<1> QED
  BY <1>1, <1>5, <1>6

\* The initial state satisfies the invariant.
LEMMA InitIInv == Init => IInv
<1> SUFFICES ASSUME Init PROVE IInv
  OBVIOUS
<1>1. TypeOK
  <2>1. toFire \in [Threads -> Seq(Items)] /\ s_tq \in Seq(Items)
    BY EmptySeq DEF Init
  <2>2. s_inflightRequests \in
          [Threads -> [startTime : Nat, timeout : Nat,
                       sessionKind : Kinds \cup {"None"}]]
    BY DEF Init
  <2>3. /\ rl_thisRequestIdx \in [Threads -> Nat \cup {kInvalidRequestIdx}]
        /\ timestamp \in [Items -> Nat]
        /\ enqueuing \in [Threads -> Items \cup {NoItem}]
        /\ outstanding \in [Items -> SUBSET Threads]
    BY DEF Init
  <2>4. /\ gcStatus \in [Threads -> GCStatus]
        /\ gcRound \in Nat /\ gcSecond \in BOOLEAN
        /\ s_stateLock \in Threads \cup {NoThread}
    BY DEF Init, GCStatus
  <2>5. /\ clock \in Nat \ {0} /\ g_nextThreadIdx \in Nat
        /\ s_oldestRequestInFlight \in 0..clock
    BY DEF Init
  <2>6. /\ s_destroyed \in BOOLEAN /\ ran \in SUBSET Items
        /\ aborted \in Threads \cup {NoThread}
    BY DEF Init
  <2> QED
    BY <2>1, <2>2, <2>3, <2>4, <2>5, <2>6 DEF TypeOK
<1>2. InFlight = {}
  BY DEF Init, InFlight, StartTime
<1>3. ClockBounds
  BY DEF Init, ClockBounds, StartTime
<1>4. OldestIsMinimum
  BY <1>2 DEF Init, OldestIsMinimum
<1>5. OutstandingStartedBefore /\ FiresOnlyUnreachable
  BY DEF Init, OutstandingStartedBefore, FiresOnlyUnreachable
<1>6. GCStatusFollowsRequest /\ StatusLoop
  BY <1>2 DEF Init, GCStatusFollowsRequest, StatusLoop
<1>7. Conserved
  BY DEF Init, Conserved, Once, Apart, NotYetRun, Somewhere
<1> QED
  BY <1>1, <1>3, <1>4, <1>5, <1>6, <1>7 DEF IInv

\* Every step keeps the state well typed.
LEMMA TypeStep == TypeOK /\ ClockBounds /\ [Next]_vars => TypeOK'
<1> SUFFICES ASSUME TypeOK, ClockBounds, [Next]_vars PROVE TypeOK'
  OBVIOUS
<1> USE DEF TypeOK, idxVars, requestVars, loopVars, itemVars
<1>1. CASE Tick
  BY <1>1 DEF Tick
<1>2. CASE Destroy
  BY <1>2 DEF Destroy
<1>3. ASSUME NEW t \in Threads, requestIdx(t) PROVE TypeOK'
  BY <1>3 DEF requestIdx
<1>4. ASSUME NEW t \in Threads, NEW k \in Kinds, NEW to \in Timeouts,
             startRequest(t, k, to)
      PROVE TypeOK'
  BY <1>4 DEF startRequest, GCStatus
<1>5. ASSUME NEW t \in Threads, startRequestAborts(t) \/ checkForStuckTreadmill(t)
      PROVE TypeOK'
  BY <1>5 DEF startRequestAborts, checkForStuckTreadmill, AbortServer, OverLimit,
     InFlight
<1>6. ASSUME NEW t \in Threads, NEW i \in Items, enqueueStamp(t, i)
      PROVE TypeOK'
  BY <1>6 DEF enqueueStamp, InFlight
<1>7. ASSUME NEW t \in Threads, enqueueAppend(t) PROVE TypeOK'
  BY <1>7 DEF enqueueAppend
<1>8. ASSUME NEW t \in Threads, finishRequest(t) PROVE TypeOK'
  <2>1. s_oldestRequestInFlight' \in 0..clock'
    BY <1>8 DEF finishRequest, UpdateOldest, StartTime, InFlight, ClockBounds
  <2>2. s_tq' \in Seq(Items) /\ toFire' \in [Threads -> Seq(Items)]
    <3>1. CASE s_oldestRequestInFlight # StartTime(t)
      BY <1>8, <3>1 DEF finishRequest
    <3>2. CASE CollectTriggers(t, InFlight \ {t})
      <4>1. PICK n \in 0..Len(s_tq) :
              /\ toFire' = [toFire EXCEPT ![t] = SubSeq(s_tq, 1, n)]
              /\ s_tq' = SubSeq(s_tq, n + 1, Len(s_tq))
        BY <3>2 DEF CollectTriggers
      <4>2. /\ SubSeq(s_tq, 1, n) \in Seq(Items)
            /\ SubSeq(s_tq, n + 1, Len(s_tq)) \in Seq(Items)
        BY CutQueue
      <4> QED
        BY <4>1, <4>2, Zenon
    <3> QED
      BY <1>8, <3>1, <3>2 DEF finishRequest
  <2> QED
    BY <1>8, <2>1, <2>2 DEF finishRequest
<1>9. ASSUME NEW t \in Threads, run(t) PROVE TypeOK'
  BY <1>9 DEF run
<1>10. ASSUME NEW t \in Threads, SetPendingGC(t) PROVE TypeOK'
  BY <1>10 DEF SetPendingGC, GCStatus
<1>11. ASSUME NEW t \in Threads, exchangePending(t) \/ exchangeNoPending(t)
       PROVE TypeOK'
  <2>1. /\ gcStatus' = gcStatus \/ gcStatus' = [gcStatus EXCEPT ![t] = "Idle"]
        /\ s_stateLock' \in Threads \cup {NoThread}
        /\ gcRound' \in Nat /\ gcSecond' \in BOOLEAN
    <3>0. gcRound \in Nat
      OBVIOUS
    <3> HIDE DEF TypeOK
    <3>1. CASE SetIdle(t) /\ LeaveStatusLoop
      BY <3>1 DEF SetIdle, LeaveStatusLoop
    <3>2. CASE gcSecond' = TRUE /\ UNCHANGED <<gcStatus, s_stateLock, gcRound>>
      BY <3>2 DEF TypeOK
    <3>3. CASE /\ gcRound' = IF gcRound + 1 < gcLimit THEN gcRound + 1 ELSE 0
               /\ gcSecond' = FALSE
               /\ s_stateLock' = IF gcRound + 1 < gcLimit THEN t ELSE NoThread
               /\ UNCHANGED gcStatus
      <4>1. CASE gcRound + 1 < gcLimit
        <5>1. gcRound' = gcRound + 1 /\ s_stateLock' = t /\ gcSecond' = FALSE
          BY <3>3, <4>1, Zenon
        <5>2. gcRound' \in Nat
          BY <3>0, <5>1
        <5> QED
          BY <3>3, <5>1, <5>2, Zenon
      <4>2. CASE ~(gcRound + 1 < gcLimit)
        <5>1. gcRound' = 0 /\ s_stateLock' = NoThread /\ gcSecond' = FALSE
          BY <3>3, <4>2, Zenon
        <5>2. gcRound' \in Nat
          BY <5>1
        <5> QED
          BY <3>3, <5>1, <5>2, Zenon
      <4> QED
        BY <4>1, <4>2
    <3> QED
      BY <1>11, <3>1, <3>2, <3>3, Zenon DEF exchangePending, exchangeNoPending
  <2>2. gcStatus' \in [Threads -> GCStatus]
    BY <2>1 DEF GCStatus
  <2>3. UNCHANGED <<clock, idxVars, s_inflightRequests, s_oldestRequestInFlight,
                    itemVars, aborted>>
    BY <1>11 DEF exchangePending, exchangeNoPending
  <2> QED
    BY <2>1, <2>2, <2>3
<1>12. CASE UNCHANGED vars
  BY <1>12 DEF vars
<1> QED
  BY <1>1, <1>2, <1>3, <1>4, <1>5, <1>6, <1>7, <1>8, <1>9, <1>10, <1>11, <1>12
     DEF Next

\* Every step keeps the clock bounds.
LEMMA ClockStep == TypeOK /\ ClockBounds /\ [Next]_vars => ClockBounds'
<1> SUFFICES ASSUME TypeOK, ClockBounds, [Next]_vars PROVE ClockBounds'
  OBVIOUS
<1> USE DEF TypeOK, ClockBounds, idxVars, requestVars, itemVars, StartTime
<1>1. CASE Tick
  <2>1. /\ clock \in Nat /\ clock' = clock + 1
        /\ \A t \in Threads : StartTime(t) \in Nat
    BY <1>1 DEF Tick
  <2>2. UNCHANGED <<s_inflightRequests, enqueuing, timestamp, s_tq, toFire, ran>>
    BY <1>1 DEF Tick
  <2>3. \A t \in Threads : StartTime(t)' <= clock'
    BY <2>1, <2>2
  <2> QED
    BY <2>2, <2>3
<1>2. CASE Destroy
  BY <1>2 DEF Destroy
<1>3. ASSUME NEW t \in Threads, requestIdx(t) PROVE ClockBounds'
  BY <1>3 DEF requestIdx
<1>4. ASSUME NEW t \in Threads, NEW k \in Kinds, NEW to \in Timeouts,
             startRequest(t, k, to)
      PROVE ClockBounds'
  BY <1>4 DEF startRequest
<1>5. ASSUME NEW t \in Threads, startRequestAborts(t) \/ checkForStuckTreadmill(t)
      PROVE ClockBounds'
  <2>1. UNCHANGED <<clock, idxVars, requestVars, itemVars>>
    BY <1>5 DEF startRequestAborts, checkForStuckTreadmill, AbortServer
  <2> QED
    BY <2>1
<1>6. ASSUME NEW t \in Threads, NEW i \in Items, enqueueStamp(t, i)
      PROVE ClockBounds'
  BY <1>6 DEF enqueueStamp
<1>7. ASSUME NEW t \in Threads, enqueueAppend(t) PROVE ClockBounds'
  <2>1. enqueuing[t] \in Items /\ timestamp[enqueuing[t]] # 0
    BY <1>7 DEF enqueueAppend
  <2>2. /\ Len(s_tq) \in Nat
        /\ s_tq' = Append(s_tq, enqueuing[t])
        /\ Len(s_tq') = Len(s_tq) + 1
        /\ \A k \in 1..Len(s_tq) : s_tq'[k] = s_tq[k]
        /\ s_tq'[Len(s_tq) + 1] = enqueuing[t]
    BY <1>7, <2>1, AppendProperties, LenProperties DEF enqueueAppend
  <2>3. \A k \in 1..Len(s_tq') : timestamp[s_tq'[k]] # 0
    <3> SUFFICES ASSUME NEW k \in 1..Len(s_tq') PROVE timestamp[s_tq'[k]] # 0
      OBVIOUS
    <3>0. Len(s_tq) \in Nat /\ k \in 1..(Len(s_tq) + 1)
      BY <2>2, Zenon
    <3> HIDE DEF TypeOK, ClockBounds
    <3>1. k \in 1..Len(s_tq) \/ k = Len(s_tq) + 1
      BY <3>0
    <3>2. CASE k \in 1..Len(s_tq)
      BY <2>2, <3>2 DEF ClockBounds
    <3>3. CASE k = Len(s_tq) + 1
      BY <2>1, <2>2, <3>3
    <3> QED
      BY <3>1, <3>2, <3>3
  <2> QED
    BY <1>7, <2>3 DEF enqueueAppend
<1>8. ASSUME NEW t \in Threads, finishRequest(t) PROVE ClockBounds'
  <2>1. /\ \A u \in Threads : s_inflightRequests'[u].startTime <= clock'
        /\ UNCHANGED <<enqueuing, timestamp, ran>>
    BY <1>8 DEF finishRequest
  <2>2. /\ \A k \in 1..Len(s_tq') : timestamp[s_tq'[k]] # 0
        /\ \A u \in Threads : \A k \in 1..Len(toFire'[u]) :
             timestamp[toFire'[u][k]] # 0
    <3>1. CASE s_oldestRequestInFlight # StartTime(t)
      BY <1>8, <3>1 DEF finishRequest
    <3>2. CASE CollectTriggers(t, InFlight \ {t})
      <4>1. PICK n \in 0..Len(s_tq) :
              /\ toFire' = [toFire EXCEPT ![t] = SubSeq(s_tq, 1, n)]
              /\ s_tq' = SubSeq(s_tq, n + 1, Len(s_tq))
        BY <3>2 DEF CollectTriggers
      <4>2. \A k \in 1..Len(s_tq') : timestamp[s_tq'[k]] # 0
        BY <4>1, CutQueue
      <4>3. \A k \in 1..Len(toFire'[t]) : timestamp[toFire'[t][k]] # 0
        BY <4>1, CutQueue
      <4>4. \A u \in Threads \ {t} : toFire'[u] = toFire[u]
        BY <4>1
      <4>5. \A u \in Threads : \A k \in 1..Len(toFire'[u]) :
              timestamp[toFire'[u][k]] # 0
        <5> TAKE u \in Threads
        <5>1. CASE u = t
          BY <5>1, <4>3
        <5>2. CASE u # t
          BY <5>2, <4>4
        <5> QED
          BY <5>1, <5>2
      <4> QED
        BY <4>2, <4>5
    <3> QED
      BY <1>8, <3>1, <3>2 DEF finishRequest
  <2> QED
    BY <2>1, <2>2
<1>9. ASSUME NEW t \in Threads, run(t) PROVE ClockBounds'
  <2>1. toFire[t] \in Seq(Items) /\ toFire[t] # <<>>
    BY <1>9 DEF run
  <2>2. /\ Len(toFire[t]) \in Nat /\ Len(toFire[t]) >= 1
        /\ Head(toFire[t]) = toFire[t][1]
        /\ Len(Tail(toFire[t])) = Len(toFire[t]) - 1
        /\ \A k \in 1..Len(Tail(toFire[t])) :
             Tail(toFire[t])[k] = toFire[t][k + 1]
    BY <2>1, HeadTailProperties
  <2>0. /\ toFire'[t] = Tail(toFire[t])
        /\ UNCHANGED <<timestamp, s_inflightRequests, clock, enqueuing, s_tq>>
    BY <1>9 DEF run
  <2>3. \A k \in 1..Len(toFire'[t]) : timestamp[toFire'[t][k]] # 0
    BY <2>0, <2>2
  <2>4. \A u \in Threads \ {t} : toFire'[u] = toFire[u]
    BY <1>9 DEF run
  <2>5. \A u \in Threads : \A k \in 1..Len(toFire'[u]) :
          timestamp[toFire'[u][k]] # 0
    <3> TAKE u \in Threads
    <3>1. CASE u = t
      BY <3>1, <2>3
    <3>2. CASE u # t
      BY <3>2, <2>4
    <3> QED
      BY <3>1, <3>2
  <2>6. \A i \in ran' : timestamp[i] # 0
    <3>1. ran' = ran \cup {toFire[t][1]}
      BY <1>9, <2>2 DEF run
    <3>2. timestamp[toFire[t][1]] # 0
      BY <2>2
    <3> QED
      BY <3>1, <3>2
  <2> QED
    BY <2>0, <2>5, <2>6
<1>10. ASSUME NEW t \in Threads, SetPendingGC(t) PROVE ClockBounds'
  BY <1>10 DEF SetPendingGC
<1>11. ASSUME NEW t \in Threads, exchangePending(t) \/ exchangeNoPending(t)
       PROVE ClockBounds'
  BY <1>11 DEF exchangePending, exchangeNoPending
<1>12. CASE UNCHANGED vars
  BY <1>12 DEF vars
<1> QED
  BY <1>1, <1>2, <1>3, <1>4, <1>5, <1>6, <1>7, <1>8, <1>9, <1>10, <1>11, <1>12
     DEF Next

-----------------------------------------------------------------------------
\* What finishRequest does to the set of requests in flight and to their
\* start times.
LEMMA FinishFlight ==
  ASSUME TypeOK, NEW t \in Threads, finishRequest(t)
  PROVE  /\ t \in InFlight
         /\ InFlight' = InFlight \ {t}
         /\ \A u \in Threads \ {t} : StartTime(u)' = StartTime(u)
         /\ UNCHANGED <<timestamp, ran, clock>>
BY DEF TypeOK, finishRequest, InFlight, StartTime

\* What startRequest does to them.
LEMMA StartFlight ==
  ASSUME TypeOK, NEW t \in Threads, NEW k \in Kinds, NEW to \in Timeouts,
         startRequest(t, k, to)
  PROVE  /\ t \notin InFlight
         /\ InFlight' = InFlight \cup {t}
         /\ StartTime(t)' = clock
         /\ \A u \in Threads \ {t} : StartTime(u)' = StartTime(u)
         /\ UNCHANGED itemVars
BY DEF TypeOK, startRequest, InFlight, StartTime

\* No other action touches them.
LEMMA SameFlight ==
  ASSUME UNCHANGED s_inflightRequests
  PROVE  InFlight' = InFlight /\ \A u \in Threads : StartTime(u)' = StartTime(u)
BY DEF InFlight, StartTime

\* The steps that leave the requests alone.
LEMMA OtherSteps ==
  ASSUME [Next]_vars
  PROVE  \/ UNCHANGED <<s_inflightRequests, s_oldestRequestInFlight>>
         \/ \E t \in Threads : finishRequest(t)
         \/ \E t \in Threads, k \in Kinds, to \in Timeouts : startRequest(t, k, to)
BY DEF Next, vars, requestVars, Tick, Destroy, requestIdx, startRequestAborts,
  checkForStuckTreadmill, AbortServer, enqueueStamp, enqueueAppend, run,
  SetPendingGC, exchangePending, exchangeNoPending

\* Every step keeps s_oldestRequestInFlight the minimum.
LEMMA OldestStep ==
  TypeOK /\ ClockBounds /\ OldestIsMinimum /\ [Next]_vars => OldestIsMinimum'
<1> SUFFICES ASSUME TypeOK, ClockBounds, OldestIsMinimum, [Next]_vars
             PROVE  OldestIsMinimum'
  OBVIOUS
<1>1. CASE UNCHANGED <<s_inflightRequests, s_oldestRequestInFlight>>
  BY <1>1 DEF OldestIsMinimum, InFlight, StartTime
<1>2. ASSUME NEW t \in Threads, NEW k \in Kinds, NEW to \in Timeouts,
             startRequest(t, k, to)
      PROVE  OldestIsMinimum'
  <2>1. /\ t \notin InFlight /\ InFlight' = InFlight \cup {t}
        /\ StartTime(t)' = clock
        /\ \A u \in Threads \ {t} : StartTime(u)' = StartTime(u)
    BY <1>2, StartFlight
  <2>2. s_oldestRequestInFlight' =
          IF s_oldestRequestInFlight = kNoStartTime
          THEN clock ELSE s_oldestRequestInFlight
    BY <1>2 DEF startRequest
  <2>3. /\ InFlight \subseteq Threads
        /\ clock \in Nat
        /\ \A u \in Threads : StartTime(u) \in Nat /\ StartTime(u) <= clock
        /\ \A u \in InFlight : StartTime(u) # kNoStartTime
    BY DEF InFlight, ClockBounds, TypeOK, StartTime
  <2>4. CASE InFlight = {}
    <3>1. InFlight' = {t} /\ s_oldestRequestInFlight' = StartTime(t)'
      BY <2>1, <2>2, <2>4 DEF OldestIsMinimum
    <3> QED
      BY <3>1, <2>1, <2>3 DEF OldestIsMinimum
  <2>5. CASE InFlight # {}
    <3>1. PICK u \in InFlight :
            /\ s_oldestRequestInFlight = StartTime(u)
            /\ \A v \in InFlight : StartTime(u) <= StartTime(v)
      BY <2>5 DEF OldestIsMinimum
    <3>2. u \in InFlight' /\ s_oldestRequestInFlight' = StartTime(u)'
      BY <3>1, <2>1, <2>2, <2>3
    <3>3. \A v \in InFlight' : StartTime(u)' <= StartTime(v)'
      BY <3>1, <2>1, <2>3
    <3> QED
      BY <3>2, <3>3 DEF OldestIsMinimum
  <2> QED
    BY <2>4, <2>5
<1>3. ASSUME NEW t \in Threads, finishRequest(t) PROVE OldestIsMinimum'
  <2>1. /\ t \in InFlight /\ InFlight' = InFlight \ {t}
        /\ \A u \in Threads \ {t} : StartTime(u)' = StartTime(u)
        /\ InFlight \subseteq Threads
    BY <1>3, FinishFlight DEF InFlight
  <2>2. CASE UpdateOldest(InFlight \ {t})
    <3>1. CASE InFlight \ {t} = {} /\ s_oldestRequestInFlight' = kNoStartTime
      BY <3>1, <2>1 DEF OldestIsMinimum
    <3>2. ASSUME NEW u \in InFlight \ {t},
                 \A v \in InFlight \ {t} : StartTime(u) <= StartTime(v),
                 s_oldestRequestInFlight' = StartTime(u)
          PROVE  OldestIsMinimum'
      <4>1. u \in InFlight' /\ s_oldestRequestInFlight' = StartTime(u)'
        BY <3>2, <2>1
      <4>2. \A v \in InFlight' : StartTime(u)' <= StartTime(v)'
        BY <3>2, <2>1
      <4> QED
        BY <4>1, <4>2 DEF OldestIsMinimum
    <3> QED
      BY <2>2, <3>1, <3>2 DEF UpdateOldest
  <2>3. CASE /\ s_oldestRequestInFlight # StartTime(t)
             /\ s_oldestRequestInFlight' = s_oldestRequestInFlight
    <3>1. PICK u \in InFlight :
            /\ s_oldestRequestInFlight = StartTime(u)
            /\ \A v \in InFlight : StartTime(u) <= StartTime(v)
      BY <2>1 DEF OldestIsMinimum
    <3>2. u \in InFlight' /\ s_oldestRequestInFlight' = StartTime(u)'
      BY <3>1, <2>1, <2>3
    <3>3. \A v \in InFlight' : StartTime(u)' <= StartTime(v)'
      BY <3>1, <3>2, <2>1
    <3> QED
      BY <3>2, <3>3 DEF OldestIsMinimum
  <2> QED
    BY <1>3, <2>2, <2>3 DEF finishRequest
<1> QED
  BY <1>1, <1>2, <1>3, OtherSteps

\* Every step keeps the relation between an item and the requests it has to
\* outlive.
LEMMA OutstandingStep ==
  TypeOK /\ ClockBounds /\ OutstandingStartedBefore /\ [Next]_vars
    => OutstandingStartedBefore'
<1> SUFFICES ASSUME TypeOK, ClockBounds, OutstandingStartedBefore, [Next]_vars
             PROVE  OutstandingStartedBefore'
  OBVIOUS
<1>1. CASE UNCHANGED <<s_inflightRequests, timestamp, outstanding>>
  BY <1>1 DEF OutstandingStartedBefore, InFlight, StartTime
<1>2. ASSUME NEW t \in Threads, NEW i \in Items, enqueueStamp(t, i)
      PROVE  OutstandingStartedBefore'
  <2>1. /\ InFlight' = InFlight
        /\ \A u \in Threads : StartTime(u)' = StartTime(u)
        /\ timestamp' = [timestamp EXCEPT ![i] = clock]
        /\ outstanding' = [outstanding EXCEPT ![i] = InFlight]
    BY <1>2, SameFlight DEF enqueueStamp, requestVars
  <2>2. \A u \in InFlight : u \in Threads /\ StartTime(u) <= clock
    BY DEF InFlight, ClockBounds
  <2> SUFFICES ASSUME NEW j \in Items, NEW u \in outstanding'[j]
               PROVE  u \in InFlight' /\ StartTime(u)' <= timestamp'[j]
    BY DEF OutstandingStartedBefore
  <2>3. CASE j = i
    BY <2>1, <2>2, <2>3 DEF TypeOK
  <2>4. CASE j # i
    BY <2>1, <2>2, <2>4 DEF TypeOK, OutstandingStartedBefore
  <2> QED
    BY <2>3, <2>4
<1>3. ASSUME NEW t \in Threads, NEW k \in Kinds, NEW to \in Timeouts,
             startRequest(t, k, to)
      PROVE  OutstandingStartedBefore'
  <2>1. /\ t \notin InFlight /\ InFlight' = InFlight \cup {t}
        /\ \A u \in Threads \ {t} : StartTime(u)' = StartTime(u)
        /\ UNCHANGED itemVars
        /\ InFlight \subseteq Threads
    BY <1>3, StartFlight DEF InFlight
  <2> QED
    BY <2>1 DEF OutstandingStartedBefore, itemVars
<1>4. ASSUME NEW t \in Threads, finishRequest(t)
      PROVE  OutstandingStartedBefore'
  <2>1. /\ InFlight' = InFlight \ {t}
        /\ \A u \in Threads \ {t} : StartTime(u)' = StartTime(u)
        /\ timestamp' = timestamp
        /\ InFlight \subseteq Threads
    BY <1>4, FinishFlight DEF InFlight
  <2>2. outstanding' = [i \in Items |-> outstanding[i] \ {t}]
    BY <1>4 DEF finishRequest
  <2> QED
    BY <2>1, <2>2 DEF OutstandingStartedBefore
<1> QED
  BY <1>1, <1>2, <1>3, <1>4
     DEF Next, vars, idxVars, requestVars, itemVars, Tick, Destroy, requestIdx,
         startRequestAborts, checkForStuckTreadmill, AbortServer, enqueueAppend,
         run, SetPendingGC, exchangePending, exchangeNoPending

\* The items finishRequest collects have outlived their requests: what is
\* still outstanding for an item started no later than the item's stamp, and
\* what remains in flight started after it.
LEMMA CollectedAreUnreachable ==
  ASSUME TypeOK, OutstandingStartedBefore, NEW t \in Threads, NEW i \in Items,
         Unreachable(i, InFlight \ {t})
  PROVE  outstanding[i] \ {t} = {}
<1> SUFFICES ASSUME NEW u \in outstanding[i] \ {t} PROVE FALSE
  OBVIOUS
<1>1. u \in InFlight \ {t} /\ StartTime(u) <= timestamp[i]
  BY DEF OutstandingStartedBefore
<1>2. timestamp[i] < StartTime(u)
  BY <1>1 DEF Unreachable
<1>3. timestamp[i] \in Nat /\ StartTime(u) \in Nat
  BY <1>1 DEF TypeOK, StartTime, InFlight
<1> QED
  BY <1>1, <1>2, <1>3

\* Every step fires only what no outstanding request can reach.
LEMMA FiresStep ==
  TypeOK /\ ClockBounds /\ OutstandingStartedBefore /\ FiresOnlyUnreachable
    /\ [Next]_vars => FiresOnlyUnreachable'
<1> SUFFICES ASSUME TypeOK, ClockBounds, OutstandingStartedBefore,
                    FiresOnlyUnreachable, [Next]_vars
             PROVE  FiresOnlyUnreachable'
  OBVIOUS
<1>0. \A u \in Threads : \A k \in 1..Len(toFire[u]) : toFire[u][k] \in Items
  BY ElementOfSeq DEF TypeOK
<1>1. CASE UNCHANGED <<toFire, ran, outstanding>>
  BY <1>1 DEF FiresOnlyUnreachable
<1>2. ASSUME NEW t \in Threads, NEW i \in Items, enqueueStamp(t, i)
      PROVE  FiresOnlyUnreachable'
  <2>1. /\ UNCHANGED <<toFire, ran>>
        /\ timestamp[i] = 0
        /\ \A j \in Items : j # i => outstanding'[j] = outstanding[j]
    BY <1>2 DEF enqueueStamp, TypeOK
  <2>2. i \notin ran /\ \A u \in Threads : \A k \in 1..Len(toFire[u]) :
                          toFire[u][k] # i
    BY <2>1 DEF ClockBounds
  <2>3. \A j \in ran' : outstanding'[j] = {}
    BY <2>1, <2>2 DEF FiresOnlyUnreachable, TypeOK
  <2>4. ASSUME NEW u \in Threads, NEW k \in 1..Len(toFire'[u])
        PROVE  outstanding'[toFire'[u][k]] = {}
    <3>1. toFire'[u][k] = toFire[u][k] /\ k \in 1..Len(toFire[u])
      BY <2>1
    <3>2. toFire[u][k] \in Items /\ toFire[u][k] # i
      BY <1>0, <2>2, <3>1
    <3>3. outstanding[toFire[u][k]] = {}
      BY <3>1 DEF FiresOnlyUnreachable
    <3> QED
      BY <2>1, <3>1, <3>2, <3>3
  <2> QED
    BY <2>3, <2>4 DEF FiresOnlyUnreachable
<1>3. ASSUME NEW t \in Threads, finishRequest(t)
      PROVE  FiresOnlyUnreachable'
  <2>1. /\ outstanding' = [i \in Items |-> outstanding[i] \ {t}]
        /\ ran' = ran
    BY <1>3 DEF finishRequest
  <2>2. \A i \in ran' : outstanding'[i] = {}
    BY <2>1 DEF FiresOnlyUnreachable, TypeOK
  <2>3. CASE toFire' = toFire
    BY <1>0, <2>1, <2>2, <2>3 DEF FiresOnlyUnreachable
  <2>4. CASE CollectTriggers(t, InFlight \ {t})
    <3>1. PICK n \in 0..Len(s_tq) :
            /\ \A k \in 1..n : Unreachable(s_tq[k], InFlight \ {t})
            /\ toFire' = [toFire EXCEPT ![t] = SubSeq(s_tq, 1, n)]
      BY <2>4 DEF CollectTriggers
    <3>2. s_tq \in Seq(Items) /\ \A k \in 1..Len(s_tq) : s_tq[k] \in Items
      BY ElementOfSeq DEF TypeOK
    <3>3. /\ Len(SubSeq(s_tq, 1, n)) = n
          /\ \A k \in 1..n : SubSeq(s_tq, 1, n)[k] = s_tq[k]
          /\ n \in Int /\ n <= Len(s_tq) /\ Len(s_tq) \in Nat
      BY <3>2, CutQueue, LenProperties
    <3>4. ASSUME NEW k \in 1..n PROVE outstanding'[s_tq[k]] = {}
      <4>0. k \in 1..Len(s_tq)
        BY <3>3
      <4>1. s_tq[k] \in Items /\ Unreachable(s_tq[k], InFlight \ {t})
        BY <3>1, <3>2, <4>0, Zenon
      <4>2. outstanding[s_tq[k]] \ {t} = {}
        BY <4>1, CollectedAreUnreachable
      <4> QED
        BY <2>1, <4>1, <4>2
    <3>5. /\ toFire'[t] = SubSeq(s_tq, 1, n)
          /\ \A u \in Threads \ {t} : toFire'[u] = toFire[u]
      BY <3>1 DEF TypeOK
    <3>6. \A u \in Threads : \A k \in 1..Len(toFire'[u]) :
            outstanding'[toFire'[u][k]] = {}
      <4> TAKE u \in Threads
      <4>1. CASE u = t
        BY <4>1, <3>3, <3>4, <3>5
      <4>2. CASE u # t
        <5> SUFFICES ASSUME NEW k \in 1..Len(toFire[u])
                     PROVE  outstanding'[toFire[u][k]] = {}
          BY <4>2, <3>5
        <5>1. toFire[u][k] \in Items /\ outstanding[toFire[u][k]] = {}
          BY <1>0 DEF FiresOnlyUnreachable
        <5> QED
          BY <2>1, <5>1
      <4> QED
        BY <4>1, <4>2
    <3> QED
      BY <2>2, <3>6 DEF FiresOnlyUnreachable
  <2> QED
    BY <1>3, <2>3, <2>4 DEF finishRequest
<1>4. ASSUME NEW t \in Threads, run(t) PROVE FiresOnlyUnreachable'
  <2>1. /\ toFire[t] \in Seq(Items) /\ toFire[t] # <<>>
        /\ toFire'[t] = Tail(toFire[t])
        /\ \A u \in Threads \ {t} : toFire'[u] = toFire[u]
        /\ ran' = ran \cup {Head(toFire[t])}
        /\ outstanding' = outstanding
    BY <1>4 DEF run, TypeOK
  <2>2. /\ Len(toFire[t]) \in Nat /\ Len(toFire[t]) >= 1
        /\ Head(toFire[t]) = toFire[t][1]
        /\ Len(Tail(toFire[t])) = Len(toFire[t]) - 1
        /\ \A k \in 1..Len(Tail(toFire[t])) :
             Tail(toFire[t])[k] = toFire[t][k + 1]
    BY <2>1, HeadTailProperties
  <2>3. \A i \in ran' : outstanding'[i] = {}
    <3>1. outstanding[toFire[t][1]] = {}
      <4>1. 1 \in 1..Len(toFire[t])
        BY <2>2
      <4> QED
        BY <4>1 DEF FiresOnlyUnreachable
    <3> QED
      BY <3>1, <2>1, <2>2 DEF FiresOnlyUnreachable
  <2>4. \A u \in Threads : \A k \in 1..Len(toFire'[u]) :
          outstanding'[toFire'[u][k]] = {}
    <3> TAKE u \in Threads
    <3>1. CASE u = t
      <4> SUFFICES ASSUME NEW k \in 1..Len(Tail(toFire[t]))
                   PROVE  outstanding[Tail(toFire[t])[k]] = {}
        BY <3>1, <2>1
      <4>1. /\ k + 1 \in 1..Len(toFire[t])
            /\ Tail(toFire[t])[k] = toFire[t][k + 1]
        BY <2>2
      <4> QED
        BY <4>1 DEF FiresOnlyUnreachable
    <3>2. CASE u # t
      <4> SUFFICES ASSUME NEW k \in 1..Len(toFire[u])
                   PROVE  outstanding[toFire[u][k]] = {}
        BY <3>2, <2>1
      <4> QED
        BY DEF FiresOnlyUnreachable
    <3> QED
      BY <3>1, <3>2
  <2> QED
    BY <2>3, <2>4 DEF FiresOnlyUnreachable
<1> QED
  BY <1>1, <1>2, <1>3, <1>4
     DEF Next, vars, idxVars, requestVars, itemVars, Tick, Destroy, requestIdx,
         startRequest, startRequestAborts, checkForStuckTreadmill, AbortServer,
         enqueueAppend, SetPendingGC, exchangePending, exchangeNoPending

\* Every step keeps the GC status in line with the requests in flight, and the
\* status loop on its way: a first exchange fails on "no pending", then a
\* second one fails only if the status has become pending meanwhile, and
\* pending it stays until the first exchange of the next round.
LEMMA GCStep ==
  TypeOK /\ GCStatusFollowsRequest /\ StatusLoop /\ [Next]_vars
    => GCStatusFollowsRequest' /\ StatusLoop'
<1> SUFFICES ASSUME TypeOK, GCStatusFollowsRequest, StatusLoop, [Next]_vars
             PROVE  GCStatusFollowsRequest' /\ StatusLoop'
  OBVIOUS
<1> USE DEF GCStatusFollowsRequest, StatusLoop
<1>0. /\ gcStatus \in [Threads -> GCStatus]
      /\ gcRound \in Nat
      /\ WithRequestInfo \subseteq Threads
      /\ NoThread \notin Threads
  BY DEF TypeOK
<1>1. CASE UNCHANGED <<s_inflightRequests, gcStatus, loopVars>>
  BY <1>1, SameFlight DEF loopVars
<1>2. ASSUME NEW t \in Threads, SetPendingGC(t)
      PROVE  GCStatusFollowsRequest' /\ StatusLoop'
  <2>1. InFlight' = InFlight /\ UNCHANGED loopVars
    BY <1>2, SameFlight DEF SetPendingGC
  <2>2. /\ gcStatus[t] # "Idle" /\ gcStatus'[t] = "OnRequestWithPendingExecution"
        /\ \A u \in Threads \ {t} : gcStatus'[u] = gcStatus[u]
    BY <1>0, <1>2 DEF SetPendingGC
  <2> QED
    BY <1>0, <2>1, <2>2 DEF loopVars
<1>3. ASSUME NEW t \in Threads, NEW k \in Kinds, NEW to \in Timeouts,
             startRequest(t, k, to)
      PROVE  GCStatusFollowsRequest' /\ StatusLoop'
  <2>1. /\ InFlight' = InFlight \cup {t} /\ UNCHANGED loopVars
        /\ s_stateLock = NoThread
    BY <1>3, StartFlight DEF startRequest, Unlocked
  <2>2. /\ t \in WithRequestInfo => gcStatus'[t] # "Idle"
        /\ \A u \in Threads \ {t} : gcStatus'[u] = gcStatus[u]
    BY <1>0, <1>3 DEF startRequest
  <2> QED
    BY <1>0, <2>1, <2>2 DEF loopVars
<1>4. ASSUME NEW t \in Threads, finishRequest(t)
      PROVE  GCStatusFollowsRequest' /\ StatusLoop'
  <2>1. t \in InFlight /\ InFlight' = InFlight \ {t}
    BY <1>4, FinishFlight
  <2>2. /\ s_stateLock = NoThread
        /\ s_stateLock' = IF t \in WithRequestInfo THEN t ELSE NoThread
        /\ UNCHANGED <<gcStatus, gcRound, gcSecond>>
    BY <1>4 DEF finishRequest, Unlocked
  <2> QED
    BY <1>0, <2>1, <2>2
<1>5. ASSUME NEW t \in Threads, exchangePending(t)
      PROVE  GCStatusFollowsRequest' /\ StatusLoop'
  <2>1. InFlight' = InFlight /\ s_stateLock = t /\ ~gcSecond /\ t # NoThread
    BY <1>0, <1>5, SameFlight DEF exchangePending
  <2>2. CASE SetIdle(t) /\ LeaveStatusLoop
    BY <1>0, <2>1, <2>2 DEF SetIdle, LeaveStatusLoop
  <2>3. CASE /\ gcStatus[t] # "OnRequestWithPendingExecution"
             /\ gcSecond' = TRUE
             /\ UNCHANGED <<gcStatus, s_stateLock, gcRound>>
    BY <1>0, <2>1, <2>3
  <2> QED
    BY <1>5, <2>2, <2>3 DEF exchangePending
<1>6. ASSUME NEW t \in Threads, exchangeNoPending(t)
      PROVE  GCStatusFollowsRequest' /\ StatusLoop'
  <2>1. InFlight' = InFlight /\ s_stateLock = t /\ gcSecond /\ t # NoThread
    BY <1>0, <1>6, SameFlight DEF exchangeNoPending
  <2>2. CASE SetIdle(t) /\ LeaveStatusLoop
    BY <1>0, <2>1, <2>2 DEF SetIdle, LeaveStatusLoop
  <2>3. CASE /\ gcStatus[t] # "OnRequestWithNoPendingExecution"
             /\ gcRound' = IF gcRound + 1 < gcLimit THEN gcRound + 1 ELSE 0
             /\ gcSecond' = FALSE
             /\ s_stateLock' = IF gcRound + 1 < gcLimit THEN t ELSE NoThread
             /\ UNCHANGED gcStatus
    <3>1. gcStatus[t] = "OnRequestWithPendingExecution"
      BY <1>0, <2>1, <2>3 DEF GCStatus
    <3>2. gcRound' = 1 /\ s_stateLock' = t
      BY <1>0, <2>1, <2>3 DEF gcLimit
    <3> QED
      BY <1>0, <2>1, <2>3, <3>1, <3>2
  <2> QED
    BY <1>6, <2>2, <2>3 DEF exchangeNoPending
<1> QED
  BY <1>1, <1>2, <1>3, <1>4, <1>5, <1>6
     DEF Next, vars, idxVars, requestVars, loopVars, itemVars, Tick, Destroy,
         requestIdx, startRequestAborts, checkForStuckTreadmill, AbortServer,
         enqueueStamp, enqueueAppend, run
-----------------------------------------------------------------------------
\* Stamping an item, which is nowhere yet, puts it into one place.
LEMMA StampConserves ==
  ASSUME TypeOK, ClockBounds, Conserved, NEW t \in Threads, NEW i \in Items,
         enqueueStamp(t, i)
  PROVE  Conserved'
<1>1. /\ enqueuing[t] = NoItem /\ timestamp[i] = 0 /\ ~s_destroyed
      /\ \A u \in Threads : enqueuing'[u] = IF u = t THEN i ELSE enqueuing[u]
      /\ \A j \in Items : timestamp'[j] # 0 => (j = i \/ timestamp[j] # 0)
      /\ UNCHANGED <<s_tq, s_destroyed, toFire, ran>>
  BY DEF enqueueStamp, TypeOK
<1>2. /\ \A u \in Threads : enqueuing[u] # i
      /\ \A k \in 1..Len(s_tq) : s_tq[k] # i
      /\ \A u \in Threads : \A k \in 1..Len(toFire[u]) : toFire[u][k] # i
      /\ i \notin ran
  BY <1>1 DEF ClockBounds
<1>3. Once'
  BY <1>1, <1>2 DEF Conserved, Once
<1>4. Apart'
  BY <1>1, <1>2 DEF Conserved, Apart
<1>5. NotYetRun'
  BY <1>1, <1>2 DEF Conserved, NotYetRun
<1>6. Somewhere'
  <2> SUFFICES ASSUME NEW j \in Items, timestamp'[j] # 0, j # i
               PROVE  \/ \E u \in Threads : enqueuing'[u] = j
                      \/ \E k \in 1..Len(s_tq) : s_tq[k] = j
                      \/ \E u \in Threads : \E k \in 1..Len(toFire[u]) : toFire[u][k] = j
                      \/ j \in ran
    BY <1>1 DEF Somewhere
  <2>1. \A u \in Threads : enqueuing[u] = j => enqueuing'[u] = j
    BY <1>1
  <2> QED
    BY <1>1, <2>1 DEF Conserved, Somewhere
<1> QED
  BY <1>3, <1>4, <1>5, <1>6 DEF Conserved

\* Appending moves the item from its thread to the queue.
LEMMA AppendConserves ==
  ASSUME TypeOK, Conserved, NEW t \in Threads, enqueueAppend(t)
  PROVE  Conserved'
<1> DEFINE x == enqueuing[t]  L == Len(s_tq)
<1>1. /\ x \in Items /\ s_tq \in Seq(Items) /\ L \in Nat
      /\ s_tq' = Append(s_tq, x)
      /\ \A u \in Threads : enqueuing'[u] = IF u = t THEN NoItem ELSE enqueuing[u]
      /\ UNCHANGED <<s_destroyed, timestamp, toFire, ran>>
  BY LenProperties DEF enqueueAppend, TypeOK
<1>2. /\ Len(s_tq') = L + 1
      /\ \A k \in 1..L : s_tq'[k] = s_tq[k]
      /\ s_tq'[L + 1] = x
  BY <1>1, AppendProperties
<1>3. \A k \in 1..Len(s_tq') : k \in 1..L \/ k = L + 1
  BY <1>1, <1>2
<1>4. \A k \in 1..L : k \in 1..Len(s_tq')
  BY <1>1, <1>2
<1>5. L + 1 \in 1..Len(s_tq')
  BY <1>1, <1>2
<1>6. /\ \A k \in 1..L : s_tq[k] # x /\ s_tq[k] \in Items
      /\ \A u \in Threads : \A k \in 1..Len(toFire[u]) :
           toFire[u][k] # x /\ toFire[u][k] \in Items
      /\ x \notin ran /\ NoItem \notin ran /\ x # NoItem
      /\ \A u \in Threads \ {t} : enqueuing[u] # x
  BY <1>1, ElementOfSeq DEF Conserved, Once, Apart, NotYetRun, TypeOK
<1> HIDE DEF x, L
<1>7. Once'
  <2>1. \A u, v \in Threads :
          (enqueuing'[u] # NoItem /\ enqueuing'[v] = enqueuing'[u]) => v = u
    BY <1>1, <1>6 DEF Conserved, Once
  <2>2. \A k, m \in 1..Len(s_tq') : s_tq'[m] = s_tq'[k] => m = k
    BY <1>2, <1>3, <1>6 DEF Conserved, Once, L
  <2> QED
    BY <1>1, <2>1, <2>2 DEF Conserved, Once
<1>8. Apart'
  <2>1. \A u \in Threads : \A k \in 1..Len(s_tq') : s_tq'[k] # enqueuing'[u]
    BY <1>1, <1>2, <1>3, <1>6 DEF Conserved, Apart, L
  <2>2. \A v, u \in Threads : \A k \in 1..Len(toFire[u]) : toFire[u][k] # enqueuing'[v]
    BY <1>1, <1>6 DEF Conserved, Apart
  <2>3. \A u \in Threads : \A k \in 1..Len(s_tq'), m \in 1..Len(toFire[u]) :
          toFire[u][m] # s_tq'[k]
    BY <1>2, <1>3, <1>6 DEF Conserved, Apart, L
  <2> QED
    BY <1>1, <2>1, <2>2, <2>3 DEF Apart
<1>9. NotYetRun'
  BY <1>1, <1>2, <1>3, <1>6 DEF Conserved, NotYetRun, L
<1>10. Somewhere'
  <2> SUFFICES ASSUME ~s_destroyed, NEW j \in Items, timestamp[j] # 0
               PROVE  \/ \E u \in Threads : enqueuing'[u] = j
                      \/ \E k \in 1..Len(s_tq') : s_tq'[k] = j
                      \/ \E u \in Threads : \E k \in 1..Len(toFire[u]) : toFire[u][k] = j
                      \/ j \in ran
    BY <1>1 DEF Somewhere
  <2>1. \A u \in Threads : enqueuing[u] = j => (enqueuing'[u] = j \/ s_tq'[L + 1] = j)
    BY <1>1, <1>2 DEF x
  <2>2. \A k \in 1..L : s_tq[k] = j => s_tq'[k] = j
    BY <1>2
  <2> QED
    BY <1>4, <1>5, <2>1, <2>2 DEF Conserved, Somewhere, L
<1> QED
  BY <1>7, <1>8, <1>9, <1>10 DEF Conserved

\* finishRequest moves the leading part of the queue to its thread, which has
\* nothing left to run from before.
LEMMA CollectConserves ==
  ASSUME TypeOK, Conserved, NEW t \in Threads, toFire[t] = <<>>,
         CollectTriggers(t, InFlight \ {t}),
         UNCHANGED <<s_destroyed, timestamp, enqueuing, ran>>
  PROVE  Conserved'
<1>1. PICK n \in 0..Len(s_tq) :
        /\ toFire' = [toFire EXCEPT ![t] = SubSeq(s_tq, 1, n)]
        /\ s_tq' = SubSeq(s_tq, n + 1, Len(s_tq))
  BY DEF CollectTriggers
<1> DEFINE L == Len(s_tq)
<1>2. /\ s_tq \in Seq(Items) /\ L \in Nat /\ n \in Nat /\ n <= L
      /\ toFire'[t] = SubSeq(s_tq, 1, n)
      /\ \A u \in Threads \ {t} : toFire'[u] = toFire[u]
  BY <1>1, LenProperties DEF TypeOK
<1>3. /\ Len(toFire'[t]) = n
      /\ \A k \in 1..n : toFire'[t][k] = s_tq[k]
      /\ Len(s_tq') = L - n
      /\ \A k \in 1..(L - n) : s_tq'[k] = s_tq[n + k]
  BY <1>1, <1>2, CutQueue
<1>4. /\ \A k \in 1..n : k \in 1..L
      /\ \A k \in 1..(L - n) : n + k \in 1..L
      /\ \A k \in 1..L : k \in 1..n \/ (k - n \in 1..(L - n) /\ n + (k - n) = k)
      /\ \A k \in 1..n, m \in 1..(L - n) : k # n + m
      /\ \A k, m \in 1..(L - n) : n + k = n + m => m = k
  BY <1>2
<1>5. Len(toFire[t]) = 0
  BY EmptySeq
<1> HIDE DEF L
<1>6. Once'
  <2>1. ASSUME NEW k \in 1..Len(s_tq'), NEW m \in 1..Len(s_tq'), s_tq'[m] = s_tq'[k]
        PROVE  m = k
    <3>1. /\ n + k \in 1..L /\ s_tq'[k] = s_tq[n + k]
          /\ n + m \in 1..L /\ s_tq'[m] = s_tq[n + m]
      BY <1>3, <1>4
    <3>2. n + m = n + k
      BY <2>1, <3>1 DEF Conserved, Once, L
    <3> QED
      BY <1>3, <1>4, <3>2
  <2>2. ASSUME NEW u \in Threads, NEW v \in Threads,
               NEW k \in 1..Len(toFire'[u]), NEW m \in 1..Len(toFire'[v]),
               toFire'[v][m] = toFire'[u][k]
        PROVE  v = u /\ m = k
    <3>1. CASE u = t /\ v = t
      BY <1>3, <1>4, <2>2, <3>1 DEF Conserved, Once, L
    <3>2. CASE u = t /\ v # t
      BY <1>2, <1>3, <1>4, <2>2, <3>2 DEF Conserved, Apart, L
    <3>3. CASE u # t /\ v = t
      BY <1>2, <1>3, <1>4, <2>2, <3>3 DEF Conserved, Apart, L
    <3>4. CASE u # t /\ v # t
      BY <1>2, <2>2, <3>4 DEF Conserved, Once
    <3> QED
      BY <3>1, <3>2, <3>3, <3>4
  <2> QED
    BY <2>1, <2>2 DEF Conserved, Once
<1>7. Apart'
  <2>1. \A u \in Threads : \A k \in 1..Len(s_tq') : s_tq'[k] # enqueuing[u]
    BY <1>3, <1>4 DEF Conserved, Apart, L
  <2>2. ASSUME NEW v \in Threads, NEW u \in Threads, NEW k \in 1..Len(toFire'[u])
        PROVE  toFire'[u][k] # enqueuing[v]
    <3>1. CASE u = t
      BY <1>3, <1>4, <3>1 DEF Conserved, Apart, L
    <3>2. CASE u # t
      BY <1>2, <3>2 DEF Conserved, Apart
    <3> QED
      BY <3>1, <3>2
  <2>3. ASSUME NEW u \in Threads, NEW k \in 1..Len(s_tq'), NEW m \in 1..Len(toFire'[u])
        PROVE  toFire'[u][m] # s_tq'[k]
    <3>1. CASE u = t
      BY <1>3, <1>4, <3>1 DEF Conserved, Once, L
    <3>2. CASE u # t
      BY <1>2, <1>3, <1>4, <3>2 DEF Conserved, Apart, L
    <3> QED
      BY <3>1, <3>2
  <2> QED
    BY <2>1, <2>2, <2>3 DEF Apart
<1>8. NotYetRun'
  <2>1. \A k \in 1..Len(s_tq') : s_tq'[k] \notin ran
    BY <1>3, <1>4 DEF Conserved, NotYetRun, L
  <2>2. ASSUME NEW u \in Threads, NEW k \in 1..Len(toFire'[u])
        PROVE  toFire'[u][k] \notin ran
    <3>1. CASE u = t
      BY <1>3, <1>4, <3>1 DEF Conserved, NotYetRun, L
    <3>2. CASE u # t
      BY <1>2, <3>2 DEF Conserved, NotYetRun
    <3> QED
      BY <3>1, <3>2
  <2> QED
    BY <2>1, <2>2 DEF Conserved, NotYetRun
<1>9. Somewhere'
  <2> SUFFICES ASSUME ~s_destroyed, NEW j \in Items, timestamp[j] # 0
               PROVE  \/ \E u \in Threads : enqueuing[u] = j
                      \/ \E k \in 1..Len(s_tq') : s_tq'[k] = j
                      \/ \E u \in Threads : \E k \in 1..Len(toFire'[u]) : toFire'[u][k] = j
                      \/ j \in ran
    BY DEF Somewhere
  <2>1. ASSUME NEW k \in 1..L, s_tq[k] = j
        PROVE  \/ \E m \in 1..Len(s_tq') : s_tq'[m] = j
               \/ \E m \in 1..Len(toFire'[t]) : toFire'[t][m] = j
    <3>1. CASE k \in 1..n
      BY <1>3, <2>1, <3>1
    <3>2. CASE k - n \in 1..(L - n) /\ n + (k - n) = k
      <4>1. s_tq'[k - n] = j
        BY <1>3, <2>1, <3>2
      <4> QED
        BY <1>3, <3>2, <4>1
    <3> QED
      BY <1>4, <3>1, <3>2
  <2>2. ASSUME NEW u \in Threads, NEW k \in 1..Len(toFire[u])
        PROVE  toFire'[u] = toFire[u]
    BY <1>2, <1>5, <2>2
  <2> QED
    BY <2>1, <2>2 DEF Conserved, Somewhere, L
<1> QED
  BY <1>6, <1>7, <1>8, <1>9 DEF Conserved

\* Running an item takes it off the thread's list.
LEMMA RunConserves ==
  ASSUME TypeOK, Conserved, NEW t \in Threads, run(t)
  PROVE  Conserved'
<1> DEFINE s == toFire[t]
<1>1. /\ s \in Seq(Items) /\ s # <<>>
      /\ toFire'[t] = Tail(s)
      /\ \A u \in Threads \ {t} : toFire'[u] = toFire[u]
      /\ ran' = ran \cup {Head(s)}
      /\ UNCHANGED <<s_tq, s_destroyed, timestamp, enqueuing>>
  BY DEF run, TypeOK
<1>2. /\ Len(s) \in Nat /\ Len(s) >= 1
      /\ Head(s) = s[1]
      /\ Len(toFire'[t]) = Len(s) - 1
      /\ \A k \in 1..Len(toFire'[t]) : toFire'[t][k] = s[k + 1]
  BY <1>1, HeadTailProperties
<1>3. /\ 1 \in 1..Len(s)
      /\ \A k \in 1..Len(toFire'[t]) : k + 1 \in 1..Len(s) /\ k + 1 # 1
      /\ \A k \in 1..Len(s) : k = 1 \/ (k - 1 \in 1..Len(toFire'[t]) /\ (k - 1) + 1 = k)
      /\ \A k, m \in 1..Len(toFire'[t]) : k + 1 = m + 1 => m = k
  BY <1>2
<1>4. ran' = ran \cup {s[1]}
  BY <1>1, <1>2
<1> HIDE DEF s
<1>5. Once'
  <2>1. ASSUME NEW u \in Threads, NEW v \in Threads,
               NEW k \in 1..Len(toFire'[u]), NEW m \in 1..Len(toFire'[v]),
               toFire'[v][m] = toFire'[u][k]
        PROVE  v = u /\ m = k
    <3>a. u = t => k + 1 \in 1..Len(s) /\ toFire'[u][k] = s[k + 1]
      BY <1>2, <1>3
    <3>b. v = t => m + 1 \in 1..Len(s) /\ toFire'[v][m] = s[m + 1]
      BY <1>2, <1>3
    <3>1. CASE u = t /\ v = t
      <4>1. m + 1 = k + 1
        BY <2>1, <3>1, <3>a, <3>b DEF Conserved, Once, s
      <4> QED
        BY <1>3, <3>1, <4>1
    <3>2. CASE u = t /\ v # t
      BY <1>1, <2>1, <3>2, <3>a DEF Conserved, Once, s
    <3>3. CASE u # t /\ v = t
      BY <1>1, <2>1, <3>3, <3>b DEF Conserved, Once, s
    <3>4. CASE u # t /\ v # t
      BY <1>1, <2>1, <3>4 DEF Conserved, Once
    <3> QED
      BY <3>1, <3>2, <3>3, <3>4
  <2> QED
    BY <1>1, <2>1 DEF Conserved, Once
<1>6. Apart'
  <2>1. ASSUME NEW v \in Threads, NEW u \in Threads, NEW k \in 1..Len(toFire'[u])
        PROVE  toFire'[u][k] # enqueuing[v]
    <3>1. CASE u = t
      <4>1. k + 1 \in 1..Len(s) /\ toFire'[u][k] = s[k + 1]
        BY <1>2, <1>3, <3>1
      <4> QED
        BY <4>1 DEF Conserved, Apart, s
    <3>2. CASE u # t
      BY <1>1, <3>2 DEF Conserved, Apart
    <3> QED
      BY <3>1, <3>2
  <2>2. ASSUME NEW u \in Threads, NEW k \in 1..Len(s_tq), NEW m \in 1..Len(toFire'[u])
        PROVE  toFire'[u][m] # s_tq[k]
    <3>1. CASE u = t
      BY <1>2, <1>3, <3>1 DEF Conserved, Apart, s
    <3>2. CASE u # t
      BY <1>1, <3>2 DEF Conserved, Apart
    <3> QED
      BY <3>1, <3>2
  <2> QED
    BY <1>1, <2>1, <2>2 DEF Conserved, Apart
<1>7. NotYetRun'
  <2>1. /\ \A u \in Threads : enqueuing[u] \notin ran'
        /\ \A k \in 1..Len(s_tq) : s_tq[k] \notin ran'
    BY <1>3, <1>4 DEF Conserved, NotYetRun, Apart, s
  <2>2. ASSUME NEW u \in Threads, NEW k \in 1..Len(toFire'[u])
        PROVE  toFire'[u][k] \notin ran'
    <3>1. CASE u = t
      <4>1. k + 1 \in 1..Len(s) /\ k + 1 # 1 /\ toFire'[u][k] = s[k + 1]
        BY <1>2, <1>3, <3>1
      <4> QED
        BY <1>3, <1>4, <4>1 DEF Conserved, NotYetRun, Once, s
    <3>2. CASE u # t
      BY <1>1, <1>3, <1>4, <3>2 DEF Conserved, NotYetRun, Once, s
    <3> QED
      BY <3>1, <3>2
  <2> QED
    BY <1>1, <2>1, <2>2 DEF NotYetRun
<1>8. Somewhere'
  <2> SUFFICES ASSUME ~s_destroyed, NEW j \in Items, timestamp[j] # 0
               PROVE  \/ \E u \in Threads : enqueuing[u] = j
                      \/ \E k \in 1..Len(s_tq) : s_tq[k] = j
                      \/ \E u \in Threads : \E k \in 1..Len(toFire'[u]) : toFire'[u][k] = j
                      \/ j \in ran'
    BY <1>1 DEF Somewhere
  <2>1. ASSUME NEW k \in 1..Len(s), s[k] = j
        PROVE  j \in ran' \/ \E m \in 1..Len(toFire'[t]) : toFire'[t][m] = j
    <3>1. CASE k = 1
      BY <1>4, <2>1, <3>1
    <3>2. CASE k - 1 \in 1..Len(toFire'[t]) /\ (k - 1) + 1 = k
      BY <1>2, <2>1, <3>2
    <3> QED
      BY <1>3, <3>1, <3>2
  <2>2. ASSUME NEW u \in Threads, u # t, NEW k \in 1..Len(toFire[u]), toFire[u][k] = j
        PROVE  \E m \in 1..Len(toFire'[u]) : toFire'[u][m] = j
    BY <1>1, <2>2
  <2>3. \/ \E u \in Threads : enqueuing[u] = j
        \/ \E k \in 1..Len(s_tq) : s_tq[k] = j
        \/ \E u \in Threads : \E k \in 1..Len(toFire[u]) : toFire[u][k] = j
        \/ j \in ran
    BY DEF Conserved, Somewhere
  <2> QED
    BY <1>4, <2>1, <2>2, <2>3 DEF s
<1> QED
  BY <1>5, <1>6, <1>7, <1>8 DEF Conserved

\* Every step conserves the items.
LEMMA ConservedStep ==
  TypeOK /\ ClockBounds /\ Conserved /\ [Next]_vars => Conserved'
<1> SUFFICES ASSUME TypeOK, ClockBounds, Conserved, [Next]_vars
             PROVE  Conserved'
  OBVIOUS
<1>1. CASE UNCHANGED itemVars
  BY <1>1 DEF itemVars, Conserved, Once, Apart, NotYetRun, Somewhere
<1>2. CASE Destroy
  <2>1. /\ s_destroyed' /\ s_tq' = <<>> /\ Len(s_tq') = 0
        /\ UNCHANGED <<enqueuing, toFire, ran>>
    BY <1>2, EmptySeq DEF Destroy
  <2> QED
    BY <2>1 DEF Conserved, Once, Apart, NotYetRun, Somewhere
<1>3. ASSUME NEW t \in Threads, finishRequest(t) PROVE Conserved'
  <2>1. /\ toFire[t] = <<>>
        /\ UNCHANGED <<s_destroyed, timestamp, enqueuing, ran>>
        /\ UNCHANGED <<s_tq, toFire>> \/ CollectTriggers(t, InFlight \ {t})
    BY <1>3 DEF finishRequest, Free
  <2>2. CASE UNCHANGED <<s_tq, toFire>>
    BY <2>1, <2>2 DEF Conserved, Once, Apart, NotYetRun, Somewhere
  <2> QED
    BY <2>1, <2>2, CollectConserves
<1> QED
  BY <1>1, <1>2, <1>3, StampConserves, AppendConserves, RunConserves
     DEF Next, vars, itemVars, Tick, requestIdx, startRequest, startRequestAborts,
         checkForStuckTreadmill, AbortServer, SetPendingGC, exchangePending,
         exchangeNoPending
-----------------------------------------------------------------------------
\* The invariant is inductive, so it holds in every reachable state.
THEOREM Invariance == Spec => []IInv
<1>1. IInv /\ [Next]_vars => IInv'
  BY TypeStep, ClockStep, OldestStep, OutstandingStep, FiresStep, GCStep,
     ConservedStep DEF IInv
<1> QED
  BY InitIInv, <1>1, PTL DEF Spec

\* The types are right whatever the number of threads, items and ticks.
THEOREM TypeCorrect == Spec => []TypeOK
<1>1. IInv => TypeOK
  BY DEF IInv
<1> QED
  BY Invariance, <1>1, PTL

\* An item is taken and run only when every request that was in flight while
\* enqueueInternal read the clock has called finishRequest.
THEOREM DeferredUntilOutstandingFinish == Spec => []FiresOnlyUnreachable
<1>1. IInv => FiresOnlyUnreachable
  BY DEF IInv
<1> QED
  BY Invariance, <1>1, PTL

\* Whatever the interleaving of enqueueInternal, finishRequest and the runs
\* after it, a stamped item is in exactly one place, so it is neither lost nor
\* run twice, until the pending list is destroyed at exit.
THEOREM NothingLostOrDuplicated == Spec => []ItemsConserved
<1>1. ASSUME IInv, NEW i \in Items, timestamp[i] # 0
      PROVE  \/ s_destroyed /\ Places(i) = {}
             \/ \E p \in Places(i) : Places(i) = {p}
  <2> DEFINE E == Enqueuing(i)  Q == Queued(i)  F == Firing(i)  R == Ran(i)
  <2>1. Places(i) = E \cup Q \cup F \cup R
    BY DEF Places
  <2>2. Conserved /\ i # NoItem
    BY <1>1 DEF IInv
  \* Each of the four parts has at most one element,
  <2>3. \A p, q \in E : p = q
    BY <2>2 DEF Conserved, Once, Enqueuing
  <2>4. \A p, q \in Q : p = q
    BY <2>2 DEF Conserved, Once, Queued
  <2>5. \A p, q \in F : p = q
    BY <2>2 DEF Conserved, Once, Firing
  <2>6. \A p, q \in R : p = q
    BY DEF Ran
  \* and if one of them has one the others are empty.
  <2>7. E # {} => Q = {} /\ F = {} /\ R = {}
    BY <2>2 DEF Conserved, Apart, NotYetRun, Enqueuing, Queued, Firing, Ran
  <2>8. Q # {} => F = {} /\ R = {}
    BY <2>2 DEF Conserved, Apart, NotYetRun, Enqueuing, Queued, Firing, Ran
  <2>9. F # {} => R = {}
    BY <2>2 DEF Conserved, NotYetRun, Firing, Ran
  <2>10. ~s_destroyed => E \cup Q \cup F \cup R # {}
    <3> SUFFICES ASSUME ~s_destroyed PROVE E # {} \/ Q # {} \/ F # {} \/ R # {}
      OBVIOUS
    <3>1. \/ \E t \in Threads : enqueuing[t] = i
          \/ \E k \in 1..Len(s_tq) : s_tq[k] = i
          \/ \E t \in Threads : \E k \in 1..Len(toFire[t]) : toFire[t][k] = i
          \/ i \in ran
      BY <1>1, <2>2 DEF Conserved, Somewhere
    <3>2. (\E t \in Threads : enqueuing[t] = i) => E # {}
      BY DEF Enqueuing
    <3>3. (\E k \in 1..Len(s_tq) : s_tq[k] = i) => Q # {}
      BY DEF Queued
    <3>4. ASSUME NEW t \in Threads, NEW k \in 1..Len(toFire[t]), toFire[t][k] = i
          PROVE  <<t, k>> \in F
      BY <3>4 DEF Firing
    <3>5. i \in ran => R # {}
      BY DEF Ran
    <3> QED
      BY <3>1, <3>2, <3>3, <3>4, <3>5
  <2> HIDE DEF E, Q, F, R
  <2>11. \A p, q \in Places(i) : p = q
    BY <2>1, <2>3, <2>4, <2>5, <2>6, <2>7, <2>8, <2>9, Zenon
  <2>12. CASE Places(i) = {}
    BY <2>1, <2>10, <2>12
  <2>13. CASE Places(i) # {}
    BY <2>11, <2>13
  <2> QED
    BY <2>12, <2>13
<1>2. IInv => ItemsConserved
  BY <1>1 DEF ItemsConserved
<1> QED
  BY Invariance, <1>2, PTL

\* The incremental updates keep s_oldestRequestInFlight the minimum.
THEOREM OldestCorrect == Spec => []OldestIsMinimum
<1>1. IInv => OldestIsMinimum
  BY DEF IInv
<1> QED
  BY Invariance, <1>1, PTL

\* However SetPendingGCForAllOnRequest falls between the exchanges, the status
\* loop of finishRequest ends within two rounds, far from its limit, and leaves
\* the status Idle.
THEOREM GCStatusCorrect == Spec => []GCStatusFollowsRequest
<1>1. IInv => GCStatusFollowsRequest
  BY DEF IInv
<1> QED
  BY Invariance, <1>1, PTL

\* The end of the last request in flight empties the queue: that request is
\* the oldest, and with none remaining every item is unreachable.
THEOREM LastFinishDrains == Spec => DrainsWhenQuiet
<1>1. ASSUME IInv, [Next]_vars, InFlight # {}, InFlight' = {}
      PROVE  s_tq' = <<>>
  <2>1. ~UNCHANGED s_inflightRequests
    BY <1>1, SameFlight
  <2>2. \A t \in Threads, k \in Kinds, to \in Timeouts : ~startRequest(t, k, to)
    BY <1>1, StartFlight DEF IInv
  <2>3. PICK t \in Threads : finishRequest(t)
    BY <1>1, <2>1, <2>2, OtherSteps
  <2>4. InFlight = {t} /\ InFlight \ {t} = {}
    BY <1>1, <2>3, FinishFlight DEF IInv
  <2>5. s_oldestRequestInFlight = StartTime(t)
    BY <1>1, <2>4 DEF IInv, OldestIsMinimum
  <2>6. CollectTriggers(t, {})
    BY <2>3, <2>4, <2>5 DEF finishRequest
  <2>7. PICK n \in 0..Len(s_tq) :
          /\ n < Len(s_tq) => ~Unreachable(s_tq[n + 1], {})
          /\ s_tq' = SubSeq(s_tq, n + 1, Len(s_tq))
    BY <2>6 DEF CollectTriggers
  <2>8. s_tq \in Seq(Items) /\ Len(s_tq) \in Nat
    BY <1>1, LenProperties DEF IInv, TypeOK
  <2>9. n = Len(s_tq)
    BY <2>7, <2>8 DEF Unreachable
  <2>10. s_tq' \in Seq(Items) /\ Len(s_tq') = 0
    BY <2>7, <2>8, <2>9, CutQueue
  <2> QED
    BY <2>10, EmptySeq
<1>2. IInv /\ [Next]_vars =>
        [InFlight # {} /\ InFlight' = {} => s_tq' = <<>>]_vars
  BY <1>1
<1> QED
  BY Invariance, <1>2, PTL DEF Spec, DrainsWhenQuiet
-----------------------------------------------------------------------------
\* Every step of the treadmill is a step of DeferredWork or leaves its
\* variables alone.
LEMMA RefinesStep == IInv /\ [Next]_vars => [Deferred!Next]_(Deferred!vars)
<1> SUFFICES ASSUME IInv, [Next]_vars PROVE [Deferred!Next]_(Deferred!vars)
  OBVIOUS
<1> DEFINE submitted == {i \in Items : timestamp[i] # 0}
<1>1. CASE UNCHANGED <<s_inflightRequests, timestamp, outstanding, ran>>
  BY <1>1, SameFlight DEF Deferred!vars
<1>2. ASSUME NEW t \in Threads, NEW k \in Kinds, NEW to \in Timeouts,
             startRequest(t, k, to)
      PROVE  Deferred!Start(t)
  BY <1>2, StartFlight DEF IInv, itemVars, Deferred!Start
<1>3. ASSUME NEW t \in Threads, finishRequest(t) PROVE Deferred!Finish(t)
  <2>1. outstanding' = [i \in Items |-> outstanding[i] \ {t}]
    BY <1>3 DEF finishRequest
  <2> QED
    BY <1>3, <2>1, FinishFlight DEF IInv, Deferred!Finish
<1>4. ASSUME NEW t \in Threads, NEW i \in Items, enqueueStamp(t, i)
      PROVE  Deferred!Submit(i)
  <2>1. /\ timestamp[i] = 0
        /\ timestamp' = [timestamp EXCEPT ![i] = clock]
        /\ outstanding' = [outstanding EXCEPT ![i] = InFlight]
        /\ UNCHANGED <<s_inflightRequests, ran>>
    BY <1>4 DEF enqueueStamp, requestVars
  <2>2. submitted' = submitted \cup {i}
    BY <2>1 DEF IInv, TypeOK
  <2> QED
    BY <2>1, <2>2, SameFlight DEF Deferred!Submit
<1>5. ASSUME NEW t \in Threads, run(t)
      PROVE  [Deferred!Next]_(Deferred!vars)
  <2> DEFINE i == Head(toFire[t])
  <2>1. /\ ran' = ran \cup {i}
        /\ UNCHANGED <<s_inflightRequests, timestamp, outstanding>>
        /\ toFire[t] \in Seq(Items) /\ toFire[t] # <<>>
    BY <1>5 DEF run, requestVars, IInv, TypeOK
  <2>2. i \in Items /\ i = toFire[t][1] /\ 1 \in 1..Len(toFire[t])
    BY <2>1, HeadTailProperties, ElementOfSeq, LenProperties
  <2>3. outstanding[i] = {} /\ i \in submitted
    BY <2>2 DEF IInv, FiresOnlyUnreachable, ClockBounds
  <2>4. CASE i \in ran
    <3>1. ran' = ran
      BY <2>1, <2>4
    <3> QED
      BY <2>1, <3>1, SameFlight DEF Deferred!vars
  <2>5. CASE i \notin ran
    <3>1. Deferred!Run(i)
      BY <2>1, <2>3, <2>5, SameFlight DEF Deferred!Run
    <3> QED
      BY <2>2, <3>1 DEF Deferred!Next
  <2> QED
    BY <2>4, <2>5
<1> QED
  BY <1>1, <1>2, <1>3, <1>4, <1>5
     DEF Deferred!Next, Next, vars, idxVars, requestVars, itemVars, Tick,
         Destroy, requestIdx, startRequestAborts, checkForStuckTreadmill,
         AbortServer, enqueueAppend, SetPendingGC, exchangePending,
         exchangeNoPending

\* The treadmill implements the deferred work its header promises.
THEOREM Refinement == Spec => ImplementsDeferredWork
<1>1. Init => Deferred!Init
  BY DEF Init, Deferred!Init, InFlight, StartTime
<1> QED
  BY <1>1, Invariance, RefinesStep, PTL
     DEF Spec, ImplementsDeferredWork, Deferred!Spec
=============================================================================
