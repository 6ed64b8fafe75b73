------------------------- MODULE SynchronizableMulti -------------------------
(***************************************************************************)
(* hphp/util/synchronizable-multi.{h,cpp}: a monitor with one condition    *)
(* variable per thread.  Waiting threads hang in lists, one pair of lists  *)
(* per group (NUMA node), and notify() chooses whom to wake.               *)
(*                                                                         *)
(* A monitor is a record:                                                  *)
(*   group    m_group, where the next notify() starts looking              *)
(*   high     m_highPriList of every group                                 *)
(*   midLow   m_midLowPriList of every group                               *)
(*   blocked  the threads blocked in their condition variable              *)
(* The operators are the class's methods; each returns the new monitor.    *)
(***************************************************************************)
EXTENDS Integers, Sequences, FiniteSets, SequencesExt

\* Groups are numbered from 0.
EmptyMonitor(numGroups) ==
  [group   |-> 0,
   high    |-> [g \in 0..numGroups - 1 |-> <<>>],
   midLow  |-> [g \in 0..numGroups - 1 |-> <<>>],
   blocked |-> {}]

\* The order in which notify() would wake the threads of a group.
Waiting(m, g) == m.high[g] \o m.midLow[g]

Linked(m) == UNION {ToSet(Waiting(m, g)) : g \in DOMAIN m.high}

\* A list without a node, which it has at most once.
Without(list, id) ==
  IF id \in ToSet(list)
  THEN RemoveAt(list, CHOOSE n \in DOMAIN list : list[n] = id) ELSE list

unlink(m, id) ==
  [m EXCEPT !.high = [g \in DOMAIN @ |-> Without(@[g], id)],
            !.midLow = [g \in DOMAIN @ |-> Without(@[g], id)]]

\* push_front or push_back.
Pushed(list, id, atFront) == IF atFront THEN <<id>> \o list ELSE list \o <<id>>

\* The node in its place among the four priorities.
PushedByPriority(m, id, g, pri) ==
  IF pri \in {"Highest", "High"}
  THEN [m EXCEPT !.high = [@ EXCEPT ![g] = Pushed(m.high[g], id, pri = "Highest")]]
  ELSE [m EXCEPT !.midLow = [@ EXCEPT ![g] = Pushed(m.midLow[g], id, pri = "Normal")]]

\* Mutant: the node is not taken off the list it may still be on.
pushLinked(m, id, g, pri) == PushedByPriority(m, id, g, pri)

push(m, id, g, pri) == PushedByPriority(unlink(m, id), id, g, pri)

\* pthread_cond_signal on a thread's own condition.
signal(m, id) == [m EXCEPT !.blocked = @ \ {id}]

\* waitImpl up to the point where the thread blocks and the lock is free.
waitBegin(m, id, g, pri) ==
  [push(m, id, g, pri) EXCEPT !.blocked = @ \cup {id}]

\* waitImpl once it holds the lock again.  A thread that timed out takes
\* itself off its list; one that was notified has been taken off.
waitEnd(m, id, timedOut) == IF timedOut THEN unlink(m, id) ELSE m

pop_front(m, g) ==
  IF m.high[g] # <<>>
  THEN [m EXCEPT !.high = [@ EXCEPT ![g] = Tail(m.high[g])]]
  ELSE [m EXCEPT !.midLow = [@ EXCEPT ![g] = Tail(m.midLow[g])]]

\* Mutant: m_group is not set back to 0 after the last group.
notifyNoWrap(m) ==
  LET n == Cardinality(DOMAIN m.high)
      At(i) == (m.group + i) % n
      NonEmpty == {i \in 0..n - 1 : Waiting(m, At(i)) # <<>>}
  IN  IF NonEmpty = {} THEN m ELSE
      LET i == CHOOSE i \in NonEmpty : \A j \in NonEmpty : i <= j
          front == Head(Waiting(m, At(i)))
      IN  [signal(pop_front(m, At(i)), front) EXCEPT !.group = At(i) + 1]

\* The first group with a waiting thread, looking from m.group on, loses its
\* front thread.
notify(m) ==
  LET n == Cardinality(DOMAIN m.high)
      At(i) == (m.group + i) % n
      NonEmpty == {i \in 0..n - 1 : Waiting(m, At(i)) # <<>>}
  IN  IF NonEmpty = {} THEN m ELSE
      LET i == CHOOSE i \in NonEmpty : \A j \in NonEmpty : i <= j
          front == Head(Waiting(m, At(i)))
      IN  [signal(pop_front(m, At(i)), front) EXCEPT !.group = At(i + 1)]

notifyTimes(m, times) ==
  LET After[k \in 0..times] == IF k = 0 THEN m ELSE notify(After[k - 1])
  IN  After[times]

\* It signals the threads that are on a list, and only those.
notifyAll(m) ==
  [EmptyMonitor(Cardinality(DOMAIN m.high)) EXCEPT
     !.group = m.group,
     !.blocked = m.blocked \ Linked(m)]
=============================================================================
