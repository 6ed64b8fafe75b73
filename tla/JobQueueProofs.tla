--------------------------- MODULE JobQueueProofs ---------------------------
(***************************************************************************)
(* Machine-checked proofs about the job queue and its monitor, for any     *)
(* numbers of workers, jobs, priorities and groups.                        *)
(***************************************************************************)
EXTENDS JobQueue, FiniteSetTheorems, TLAPS

Groups == 0..NumGroups - 1

\* Monitors whose lists hold threads.
Monitors == [group : Groups, high : [Groups -> Seq(Threads)],
             midLow : [Groups -> Seq(Threads)], blocked : SUBSET Threads]

\* A thread is on one list only, and once.
Apart(m) ==
  \A g, h \in Groups :
    /\ IsInjective(m.high[g]) /\ IsInjective(m.midLow[g])
    /\ ToSet(m.high[g]) \cap ToSet(m.midLow[h]) = {}
    /\ g # h => /\ ToSet(m.high[g]) \cap ToSet(m.high[h]) = {}
                /\ ToSet(m.midLow[g]) \cap ToSet(m.midLow[h]) = {}

\* A blocked thread waits, and can be found unless it was told to stop; and the
\* worker that setMaxThreadCount is about to unlink was told so.
Found ==
  /\ \A t \in monitor.blocked : pc[t] = "waiting"
  /\ monitor.blocked \ {w \in Workers : workerStop[w]} \subseteq Linked(monitor)
  /\ shrinking.step # "none" =>
       shrinking.worker \in Workers /\ workerStop[shrinking.worker]

\* A job is in one queue only, and once.
Separate(q) ==
  \A p, r \in Priorities :
    /\ IsInjective(q[p])
    /\ p # r => ToSet(q[p]) \cap ToSet(q[r]) = {}

\* A job is at one place: at one position, or with one thread, or done, or given
\* up; and a thread has a job exactly while it works or aborts.
OnePlace ==
  /\ Separate(m_jobQueues)
  /\ \A t \in Threads : job[t] # NoJob =>
       /\ job[t] \notin Queued \cup finished \cup aborted
       /\ \A u \in Threads : job[u] = job[t] => u = t
  /\ Queued \cap finished = {} /\ Queued \cap aborted = {}
  /\ finished \cap aborted = {}
  /\ \A t \in Threads : job[t] # NoJob <=> pc[t] \in {"working", "aborting"}

\* The two counters.
Counted ==
  /\ m_jobCount = Cardinality(Queued)
  /\ m_workerCount = Cardinality({t \in Threads : job[t] # NoJob})

\* The clock that a worker has read is not ahead, and what is aborted was late.
Late ==
  /\ \A t \in Threads : now[t] \subseteq expired
  /\ \A t \in Threads : pc[t] = "aborting" => job[t] \in expired
  /\ aborted \subseteq expired

\* The inductive invariant.
IInv == /\ TypeOK /\ monitor \in Monitors /\ Apart(monitor)
        /\ Found /\ OnePlace /\ Counted /\ Late

-----------------------------------------------------------------------------
\* Lists.

\* A list without its element n.
LEMMA RemoveAtEffect ==
  ASSUME NEW S, NEW s \in Seq(S), NEW n \in 1..Len(s)
  PROVE  /\ RemoveAt(s, n) \in Seq(S)
         /\ Len(RemoveAt(s, n)) = Len(s) - 1
         /\ \A k \in 1..Len(s) - 1 :
              RemoveAt(s, n)[k] = s[IF k < n THEN k ELSE k + 1]
<1> DEFINE a == SubSeq(s, 1, n - 1)  b == SubSeq(s, n + 1, Len(s))
<1>1. /\ a \in Seq(S) /\ Len(a) = n - 1
      /\ \A k \in 1..n - 1 : a[k] = s[k]
  OBVIOUS
<1>2. /\ b \in Seq(S) /\ Len(b) = Len(s) - n
      /\ \A k \in 1..Len(s) - n : b[k] = s[n + k]
  OBVIOUS
<1>3. RemoveAt(s, n) = a \o b
  BY DEF RemoveAt
<1> HIDE DEF a, b
<1>4. a \o b \in Seq(S) /\ Len(a \o b) = Len(s) - 1
  <2>1. a \in Seq(S) /\ b \in Seq(S)
    BY <1>1, <1>2
  <2>2. a \o b \in Seq(S)
    BY <2>1
  <2>3. Len(a \o b) = Len(a) + Len(b)
    BY <2>1
  <2>4. Len(a) + Len(b) = Len(s) - 1
    BY <1>1, <1>2
  <2> QED
    BY <2>2, <2>3, <2>4
<1>5. \A k \in 1..Len(s) - 1 : (a \o b)[k] = IF k < n THEN a[k] ELSE b[k - (n - 1)]
  BY <1>1, <1>2
<1>6. ASSUME NEW k \in 1..Len(s) - 1
      PROVE  (a \o b)[k] = s[IF k < n THEN k ELSE k + 1]
  <2>1. CASE k < n
    BY <1>1, <1>5, <2>1
  <2>2. CASE ~(k < n)
    <3>1. k - (n - 1) \in 1..Len(s) - n /\ n + (k - (n - 1)) = k + 1
      BY <2>2
    <3> QED
      BY <1>2, <1>5, <2>2, <3>1
  <2> QED
    BY <2>1, <2>2
<1> QED
  BY <1>3, <1>4, <1>6

\* A list without duplicates, without its element n.
LEMMA TakeOutEffect ==
  ASSUME NEW S, NEW s \in Seq(S), IsInjective(s), NEW n \in 1..Len(s)
  PROVE  /\ RemoveAt(s, n) \in Seq(S)
         /\ IsInjective(RemoveAt(s, n))
         /\ ToSet(RemoveAt(s, n)) = ToSet(s) \ {s[n]}
<1> DEFINE r == RemoveAt(s, n)
<1>1. /\ r \in Seq(S) /\ Len(r) = Len(s) - 1
      /\ \A k \in 1..Len(s) - 1 : r[k] = s[IF k < n THEN k ELSE k + 1]
  BY RemoveAtEffect
<1> HIDE DEF r
<1>2. IsInjective(r)
  <2> SUFFICES ASSUME NEW i \in DOMAIN r, NEW k \in DOMAIN r, r[i] = r[k] PROVE i = k
    BY DEF IsInjective
  <2>1. i \in 1..Len(s) - 1 /\ k \in 1..Len(s) - 1
    BY <1>1
  <2> DEFINE ii == IF i < n THEN i ELSE i + 1
             kk == IF k < n THEN k ELSE k + 1
  <2>2. ii \in DOMAIN s /\ kk \in DOMAIN s
    BY <2>1
  <2>3. s[ii] = s[kk]
    BY <1>1, <2>1
  <2>4. ii = kk
    <3> HIDE DEF ii, kk
    <3> QED
      BY <2>2, <2>3 DEF IsInjective
  <2> QED
    BY <2>1, <2>4
<1>3. ToSet(r) = ToSet(s) \ {s[n]}
  <2>1. ASSUME NEW x \in ToSet(r) PROVE x \in ToSet(s) \ {s[n]}
    <3>1. PICK k \in 1..Len(s) - 1 : x = r[k]
      BY <1>1, <2>1 DEF ToSet
    <3>2. PICK kk \in DOMAIN s : x = s[kk] /\ kk # n
      <4>1. CASE k < n
        <5>1. k \in DOMAIN s /\ k # n
          BY <4>1
        <5>2. x = s[k]
          BY <1>1, <3>1, <4>1
        <5> QED
          BY <5>1, <5>2
      <4>2. CASE ~(k < n)
        <5>1. k + 1 \in DOMAIN s /\ k + 1 # n
          BY <3>1, <4>2
        <5>2. x = s[k + 1]
          BY <1>1, <3>1, <4>2
        <5> QED
          BY <5>1, <5>2
      <4> QED
        BY <4>1, <4>2
    <3> QED
      BY <3>2 DEF IsInjective, ToSet
  <2>2. ASSUME NEW x \in ToSet(s) \ {s[n]} PROVE x \in ToSet(r)
    <3>1. PICK k \in 1..Len(s) : x = s[k] /\ k # n
      BY <2>2 DEF ToSet
    <3>2. CASE k < n
      <4>1. k \in 1..Len(s) - 1
        BY <3>2
      <4> QED
        BY <1>1, <3>1, <3>2, <4>1 DEF ToSet
    <3>3. CASE ~(k < n)
      <4>1. k - 1 \in 1..Len(s) - 1 /\ ~(k - 1 < n) /\ (k - 1) + 1 = k
        BY <3>1, <3>3
      <4>2. r[k - 1] = x
        BY <1>1, <3>1, <4>1
      <4> QED
        BY <1>1, <4>1, <4>2 DEF ToSet
    <3> QED
      BY <3>2, <3>3
  <2> QED
    BY <2>1, <2>2
<1> QED
  BY <1>1, <1>2, <1>3 DEF r

\* A list without a node.
LEMMA WithoutEffect ==
  ASSUME NEW S, NEW s \in Seq(S), IsInjective(s), NEW id
  PROVE  /\ Without(s, id) \in Seq(S)
         /\ IsInjective(Without(s, id))
         /\ ToSet(Without(s, id)) = ToSet(s) \ {id}
<1>1. CASE id \notin ToSet(s)
  BY <1>1 DEF Without
<1>2. CASE id \in ToSet(s)
  <2> DEFINE n == CHOOSE n \in DOMAIN s : s[n] = id
  <2>1. n \in 1..Len(s) /\ s[n] = id
    <3>1. \E k \in DOMAIN s : s[k] = id
      BY <1>2 DEF ToSet
    <3>2. n \in DOMAIN s /\ s[n] = id
      BY <3>1
    <3> QED
      BY <3>2
  <2>2. Without(s, id) = RemoveAt(s, n)
    BY <1>2 DEF Without
  <2> HIDE DEF n
  <2> QED
    BY <2>1, <2>2, TakeOutEffect
<1> QED
  BY <1>1, <1>2

\* A list with a new node at its front,
LEMMA PushFrontEffect ==
  ASSUME NEW S, NEW s \in Seq(S), IsInjective(s), NEW id \in S, id \notin ToSet(s)
  PROVE  /\ <<id>> \o s \in Seq(S)
         /\ IsInjective(<<id>> \o s)
         /\ ToSet(<<id>> \o s) = ToSet(s) \cup {id}
<1> DEFINE r == <<id>> \o s
<1>1. /\ r \in Seq(S) /\ Len(r) = Len(s) + 1 /\ r[1] = id
      /\ \A k \in 1..Len(s) : r[k + 1] = s[k]
  OBVIOUS
<1> HIDE DEF r
<1>3. \A k \in DOMAIN r : \/ k = 1
                          \/ k - 1 \in DOMAIN s /\ r[k] = s[k - 1]
  <2> SUFFICES ASSUME NEW k \in 1..Len(s) + 1, k # 1
               PROVE  k - 1 \in DOMAIN s /\ r[k] = s[k - 1]
    BY <1>1
  <2>1. k - 1 \in 1..Len(s) /\ (k - 1) + 1 = k
    OBVIOUS
  <2> QED
    BY <1>1, <2>1
<1>4. IsInjective(r)
  <2> SUFFICES ASSUME NEW i \in DOMAIN r, NEW k \in DOMAIN r, r[i] = r[k] PROVE i = k
    BY DEF IsInjective
  <2>0. i \in Int /\ k \in Int
    BY <1>1
  <2>1. CASE i = 1 \/ k = 1
    BY <1>1, <1>3, <2>1 DEF ToSet
  <2>2. CASE i # 1 /\ k # 1
    <3>1. i - 1 = k - 1
      BY <1>3, <2>2 DEF IsInjective
    <3> QED
      BY <2>0, <3>1
  <2> QED
    BY <2>1, <2>2
<1>5. ToSet(r) = ToSet(s) \cup {id}
  <2>1. ASSUME NEW x \in ToSet(r) PROVE x \in ToSet(s) \cup {id}
    <3>1. PICK k \in DOMAIN r : x = r[k]
      BY <2>1 DEF ToSet
    <3> QED
      BY <1>1, <1>3, <3>1 DEF ToSet
  <2>2. ASSUME NEW x \in ToSet(s) PROVE x \in ToSet(r)
    <3>1. PICK k \in 1..Len(s) : x = s[k]
      BY <2>2 DEF ToSet
    <3>2. k + 1 \in DOMAIN r
      BY <1>1
    <3> QED
      BY <1>1, <3>1, <3>2 DEF ToSet
  <2>3. id \in ToSet(r)
    BY <1>1 DEF ToSet
  <2> QED
    BY <2>1, <2>2, <2>3
<1> QED
  BY <1>1, <1>4, <1>5 DEF r

\* or at its back,
LEMMA PushBackEffect ==
  ASSUME NEW S, NEW s \in Seq(S), IsInjective(s), NEW id \in S, id \notin ToSet(s)
  PROVE  /\ s \o <<id>> \in Seq(S)
         /\ IsInjective(s \o <<id>>)
         /\ ToSet(s \o <<id>>) = ToSet(s) \cup {id}
<1> DEFINE r == s \o <<id>>
<1>1. /\ r \in Seq(S) /\ Len(r) = Len(s) + 1 /\ r[Len(s) + 1] = id
      /\ \A k \in 1..Len(s) : r[k] = s[k]
  OBVIOUS
<1> HIDE DEF r
<1>3. DOMAIN r = 1..Len(s) + 1 /\ DOMAIN s = 1..Len(s)
  BY <1>1
<1>4. IsInjective(r)
  BY <1>1, <1>3 DEF IsInjective, ToSet
<1>5. ToSet(r) = ToSet(s) \cup {id}
  BY <1>1, <1>3 DEF ToSet
<1> QED
  BY <1>1, <1>4, <1>5 DEF r

\* or at either.
LEMMA PushedEffect ==
  ASSUME NEW S, NEW s \in Seq(S), IsInjective(s), NEW id \in S, id \notin ToSet(s),
         NEW atFront
  PROVE  /\ Pushed(s, id, atFront) \in Seq(S)
         /\ IsInjective(Pushed(s, id, atFront))
         /\ ToSet(Pushed(s, id, atFront)) = ToSet(s) \cup {id}
<1>1. /\ <<id>> \o s \in Seq(S) /\ IsInjective(<<id>> \o s)
      /\ ToSet(<<id>> \o s) = ToSet(s) \cup {id}
  BY PushFrontEffect, Zenon
<1>2. /\ s \o <<id>> \in Seq(S) /\ IsInjective(s \o <<id>>)
      /\ ToSet(s \o <<id>>) = ToSet(s) \cup {id}
  BY PushBackEffect, Zenon
<1>3. \/ Pushed(s, id, atFront) = <<id>> \o s
      \/ Pushed(s, id, atFront) = s \o <<id>>
  BY Zenon DEF Pushed
<1> QED
  BY <1>1, <1>2, <1>3, Zenon

\* A list without its front.
LEMMA TailEffect ==
  ASSUME NEW S, NEW s \in Seq(S), IsInjective(s), s # <<>>
  PROVE  /\ Tail(s) \in Seq(S)
         /\ IsInjective(Tail(s))
         /\ Head(s) \in ToSet(s)
         /\ ToSet(Tail(s)) = ToSet(s) \ {Head(s)}
<1> DEFINE r == Tail(s)
<1>1. /\ r \in Seq(S) /\ Len(r) = Len(s) - 1 /\ Len(s) > 0 /\ Head(s) = s[1]
      /\ \A k \in 1..Len(s) - 1 : r[k] = s[k + 1]
  OBVIOUS
<1> HIDE DEF r
<1>2. DOMAIN r = 1..Len(s) - 1 /\ DOMAIN s = 1..Len(s)
  BY <1>1
<1>3. IsInjective(r)
  <2> SUFFICES ASSUME NEW i \in 1..Len(s) - 1, NEW k \in 1..Len(s) - 1, r[i] = r[k]
               PROVE  i = k
    BY <1>2 DEF IsInjective
  <2>1. i + 1 \in DOMAIN s /\ k + 1 \in DOMAIN s
    BY <1>2
  <2>2. i + 1 = k + 1
    BY <1>1, <2>1 DEF IsInjective
  <2> QED
    BY <2>2
<1>4. ToSet(r) = ToSet(s) \ {Head(s)}
  <2>1. ASSUME NEW x \in ToSet(r) PROVE x \in ToSet(s) \ {Head(s)}
    <3>1. PICK k \in 1..Len(s) - 1 : x = s[k + 1]
      BY <1>1, <1>2, <2>1 DEF ToSet
    <3>2. k + 1 \in DOMAIN s /\ k + 1 # 1 /\ 1 \in DOMAIN s
      BY <1>1, <1>2
    <3> QED
      BY <1>1, <3>1, <3>2 DEF ToSet, IsInjective
  <2>2. ASSUME NEW x \in ToSet(s) \ {Head(s)} PROVE x \in ToSet(r)
    <3>1. PICK k \in 1..Len(s) : x = s[k] /\ k # 1
      BY <1>1, <1>2, <2>2 DEF ToSet
    <3>2. k - 1 \in 1..Len(s) - 1 /\ (k - 1) + 1 = k
      BY <3>1
    <3>3. r[k - 1] = x
      BY <1>1, <3>1, <3>2
    <3> QED
      BY <1>2, <3>2, <3>3 DEF ToSet
  <2> QED
    BY <2>1, <2>2
<1>5. Head(s) \in ToSet(s)
  BY <1>1, <1>2 DEF ToSet
<1> QED
  BY <1>1, <1>3, <1>4, <1>5 DEF r

\* The nodes of two lists in a row.
LEMMA ConcatEffect ==
  ASSUME NEW S, NEW a \in Seq(S), NEW b \in Seq(S)
  PROVE  /\ ToSet(a \o b) = ToSet(a) \cup ToSet(b)
         /\ IsInjective(a) /\ IsInjective(b) /\ ToSet(a) \cap ToSet(b) = {}
              => IsInjective(a \o b)
<1> DEFINE r == a \o b
<1>1. /\ r \in Seq(S) /\ Len(r) = Len(a) + Len(b)
      /\ \A k \in 1..Len(a) : r[k] = a[k]
      /\ \A k \in 1..Len(b) : r[Len(a) + k] = b[k]
  OBVIOUS
<1> HIDE DEF r
<1>2. DOMAIN r = 1..Len(a) + Len(b) /\ DOMAIN a = 1..Len(a) /\ DOMAIN b = 1..Len(b)
  BY <1>1
<1>3. ASSUME NEW k \in DOMAIN r
      PROVE  \/ k \in DOMAIN a /\ r[k] = a[k]
             \/ /\ k > Len(a) /\ k - Len(a) \in DOMAIN b /\ r[k] = b[k - Len(a)]
  <2>1. CASE k <= Len(a)
    BY <1>1, <1>2, <2>1
  <2>2. CASE k > Len(a)
    <3>1. k - Len(a) \in 1..Len(b) /\ Len(a) + (k - Len(a)) = k
      BY <1>2, <2>2
    <3> QED
      BY <1>1, <1>2, <2>2, <3>1
  <2> QED
    BY <1>2, <2>1, <2>2
<1>4. ToSet(r) = ToSet(a) \cup ToSet(b)
  <2>1. ASSUME NEW x \in ToSet(r) PROVE x \in ToSet(a) \cup ToSet(b)
    <3>1. PICK k \in DOMAIN r : x = r[k]
      BY <2>1 DEF ToSet
    <3> QED
      BY <1>3, <3>1 DEF ToSet
  <2>2. ASSUME NEW x \in ToSet(a) PROVE x \in ToSet(r)
    <3>1. PICK k \in DOMAIN a : x = a[k]
      BY <2>2 DEF ToSet
    <3>2. k \in DOMAIN r /\ x = r[k]
      BY <1>1, <1>2, <3>1
    <3> QED
      BY <3>2 DEF ToSet
  <2>3. ASSUME NEW x \in ToSet(b) PROVE x \in ToSet(r)
    <3>1. PICK k \in DOMAIN b : x = b[k]
      BY <2>3 DEF ToSet
    <3>2. Len(a) + k \in DOMAIN r
      BY <1>1, <1>2, <3>1
    <3>3. x = r[Len(a) + k]
      BY <1>1, <1>2, <3>1
    <3> QED
      BY <3>2, <3>3 DEF ToSet
  <2> QED
    BY <2>1, <2>2, <2>3
<1>5. ASSUME IsInjective(a), IsInjective(b), ToSet(a) \cap ToSet(b) = {}
      PROVE  IsInjective(r)
  <2> SUFFICES ASSUME NEW i \in DOMAIN r, NEW k \in DOMAIN r, r[i] = r[k] PROVE i = k
    BY DEF IsInjective
  <2>1. i \in Int /\ k \in Int /\ Len(a) \in Int
    BY <1>2
  <2>2. CASE i \in DOMAIN a /\ r[i] = a[i] /\ k \in DOMAIN a /\ r[k] = a[k]
    BY <1>5, <2>2 DEF IsInjective
  <2>3. ASSUME i - Len(a) \in DOMAIN b, r[i] = b[i - Len(a)],
               k - Len(a) \in DOMAIN b, r[k] = b[k - Len(a)]
        PROVE  i = k
    <3>1. i - Len(a) = k - Len(a)
      BY <1>5, <2>3 DEF IsInjective
    <3> QED
      BY <2>1, <3>1
  <2>4. ASSUME NEW c \in DOMAIN a, NEW d \in DOMAIN b PROVE a[c] # b[d]
    BY <1>5 DEF ToSet
  <2> QED
    BY <1>3, <2>2, <2>3, <2>4
<1> QED
  BY <1>4, <1>5 DEF r

\* The front of two lists in a row.
LEMMA FrontOfConcat ==
  ASSUME NEW S, NEW a \in Seq(S), NEW b \in Seq(S), a # <<>>
  PROVE  a \o b # <<>> /\ Head(a \o b) = Head(a)
<1>1. Len(a) \in Nat \ {0} /\ Len(b) \in Nat
  OBVIOUS
<1>2. Len(a \o b) = Len(a) + Len(b)
  OBVIOUS
<1>3. a \o b \in Seq(S)
  OBVIOUS
<1>4. (a \o b)[1] = a[1]
  BY <1>1
<1>5. a \o b # <<>>
  BY <1>1, <1>2
<1> DEFINE r == a \o b
<1> HIDE DEF r
<1>6. r \in Seq(S) /\ r # <<>> => Head(r) = r[1]
  OBVIOUS
<1>7. Head(a) = a[1]
  OBVIOUS
<1> QED
  BY <1>3, <1>4, <1>5, <1>6, <1>7 DEF r

\* Going round n groups.
LEMMA GoingRound ==
  ASSUME NEW n \in Nat \ {0}, NEW g \in 0..n - 1
  PROVE  g % n = g /\ (g + n) % n = g
<1>1. g % n = g
  OBVIOUS
<1>2. (g + n) % n = g
  <2>1. \E q \in Int : g + n = n * q + ((g + n) % n) /\ (g + n) % n \in 0..n - 1
    <3>1. (g + n) % n \in 0..n - 1
      OBVIOUS
    <3>2. g + n = n * ((g + n) \div n) + ((g + n) % n)
      OBVIOUS
    <3>3. (g + n) \div n \in Int
      OBVIOUS
    <3> QED
      BY <3>1, <3>2, <3>3
  <2>2. PICK q \in Int : g + n = n * q + ((g + n) % n) /\ (g + n) % n \in 0..n - 1
    BY <2>1
  <2>3. CASE q <= 0
    BY <2>2, <2>3
  <2>4. CASE q = 1
    BY <2>2, <2>4
  <2>5. CASE q >= 2
    <3>1. n * q >= n * 2
      BY <2>5
    <3> QED
      BY <2>2, <3>1
  <2> QED
    BY <2>3, <2>4, <2>5
<1> QED
  BY <1>1, <1>2

-----------------------------------------------------------------------------
\* The monitor.

\* Who is linked.
LEMMA LinkedIs ==
  ASSUME NEW m \in Monitors
  PROVE  /\ \A t : t \in Linked(m) <=>
              \E g \in Groups : t \in ToSet(m.high[g]) \/ t \in ToSet(m.midLow[g])
         /\ Linked(m) \subseteq Threads
<1>1. /\ DOMAIN m.high = Groups
      /\ \A g \in Groups : m.high[g] \in Seq(Threads) /\ m.midLow[g] \in Seq(Threads)
  BY DEF Monitors
<1>2. ASSUME NEW g \in Groups
      PROVE  ToSet(Waiting(m, g)) = ToSet(m.high[g]) \cup ToSet(m.midLow[g])
  BY <1>1, ConcatEffect DEF Waiting
<1>3. ASSUME NEW t
      PROVE  t \in Linked(m) <=> \E g \in Groups : t \in ToSet(Waiting(m, g))
  BY <1>1 DEF Linked
<1>4. \A t : t \in Linked(m) <=>
         \E g \in Groups : t \in ToSet(m.high[g]) \/ t \in ToSet(m.midLow[g])
  BY <1>2, <1>3
<1>5. ASSUME NEW s \in Seq(Threads) PROVE ToSet(s) \subseteq Threads
  BY DEF ToSet
<1>6. ASSUME NEW t \in Linked(m) PROVE t \in Threads
  BY <1>1, <1>4, <1>5
<1> QED
  BY <1>4, <1>6

\* In which order.
LEMMA WaitingIsInjective ==
  ASSUME NEW m \in Monitors, Apart(m), NEW g \in Groups
  PROVE  IsInjective(Waiting(m, g))
<1>1. m.high[g] \in Seq(Threads) /\ m.midLow[g] \in Seq(Threads)
  BY DEF Monitors
<1>2. /\ IsInjective(m.high[g]) /\ IsInjective(m.midLow[g])
      /\ ToSet(m.high[g]) \cap ToSet(m.midLow[g]) = {}
  BY DEF Apart
<1> QED
  BY <1>1, <1>2, ConcatEffect DEF Waiting

\* unlink, field by field.
LEMMA UnlinkFields ==
  ASSUME NEW m \in Monitors, Apart(m), NEW id
  PROVE  /\ unlink(m, id) \in Monitors
         /\ unlink(m, id).blocked = m.blocked
         /\ \A g \in Groups : /\ unlink(m, id).high[g] = Without(m.high[g], id)
                              /\ unlink(m, id).midLow[g] = Without(m.midLow[g], id)
<1> DEFINE hi == [g \in Groups |-> Without(m.high[g], id)]
           lo == [g \in Groups |-> Without(m.midLow[g], id)]
           r == [m EXCEPT !.high = hi, !.midLow = lo]
<1>1. DOMAIN m.high = Groups /\ DOMAIN m.midLow = Groups
  BY DEF Monitors
<1>2. unlink(m, id) = r
  BY <1>1, Zenon DEF unlink
<1>3. hi \in [Groups -> Seq(Threads)] /\ lo \in [Groups -> Seq(Threads)]
  <2>1. ASSUME NEW g \in Groups
        PROVE  /\ Without(m.high[g], id) \in Seq(Threads)
               /\ Without(m.midLow[g], id) \in Seq(Threads)
    BY WithoutEffect DEF Monitors, Apart
  <2> QED
    BY <2>1
<1>4. /\ \A g \in Groups : hi[g] = Without(m.high[g], id)
      /\ \A g \in Groups : lo[g] = Without(m.midLow[g], id)
  OBVIOUS
<1> HIDE DEF hi, lo
<1>5. r \in Monitors /\ r.high = hi /\ r.midLow = lo /\ r.blocked = m.blocked
  BY <1>3, Zenon DEF Monitors
<1> QED
  BY <1>2, <1>4, <1>5

\* unlink takes the thread off its list, and leaves it blocked or not.
LEMMA UnlinkEffect ==
  ASSUME NEW m \in Monitors, Apart(m), NEW id
  PROVE  /\ unlink(m, id) \in Monitors /\ Apart(unlink(m, id))
         /\ Linked(unlink(m, id)) = Linked(m) \ {id}
         /\ unlink(m, id).blocked = m.blocked
<1> DEFINE u == unlink(m, id)
<1>1. /\ m.group \in Groups /\ m.blocked \subseteq Threads
      /\ \A g \in Groups : m.high[g] \in Seq(Threads) /\ m.midLow[g] \in Seq(Threads)
  BY DEF Monitors
<1>2. ASSUME NEW g \in Groups
      PROVE  /\ u.high[g] = Without(m.high[g], id)
             /\ u.midLow[g] = Without(m.midLow[g], id)
  BY UnlinkFields
<1>3. ASSUME NEW g \in Groups
      PROVE  /\ u.high[g] \in Seq(Threads) /\ u.midLow[g] \in Seq(Threads)
             /\ IsInjective(u.high[g]) /\ IsInjective(u.midLow[g])
             /\ ToSet(u.high[g]) = ToSet(m.high[g]) \ {id}
             /\ ToSet(u.midLow[g]) = ToSet(m.midLow[g]) \ {id}
  <2>1. IsInjective(m.high[g]) /\ IsInjective(m.midLow[g])
    BY DEF Apart
  <2> QED
    BY <1>1, <1>2, <2>1, WithoutEffect
<1>4. u \in Monitors /\ u.blocked = m.blocked
  BY UnlinkFields
<1> HIDE DEF u
<1>5. Apart(u)
  BY <1>3 DEF Apart
<1>6. ASSUME NEW t PROVE t \in Linked(u) <=> t \in Linked(m) \ {id}
  <2>1. t \in Linked(u) <=>
          \E g \in Groups : t \in ToSet(u.high[g]) \/ t \in ToSet(u.midLow[g])
    BY <1>4, LinkedIs
  <2>2. t \in Linked(m) <=>
          \E g \in Groups : t \in ToSet(m.high[g]) \/ t \in ToSet(m.midLow[g])
    BY LinkedIs
  <2> QED
    BY <1>3, <2>1, <2>2
<1> QED
  BY <1>4, <1>5, <1>6 DEF u

\* A node that is on no list is put on one.
LEMMA PushByPriorityEffect ==
  ASSUME NEW m \in Monitors, Apart(m), NEW id \in Threads, id \notin Linked(m),
         NEW g \in Groups, NEW pri
  PROVE  LET p == PushedByPriority(m, id, g, pri)
         IN  /\ p \in Monitors /\ Apart(p)
             /\ Linked(p) = Linked(m) \cup {id}
             /\ p.blocked = m.blocked
<1> DEFINE p == PushedByPriority(m, id, g, pri)
           first == pri = "Highest"
           second == pri = "Normal"
           a == Pushed(m.high[g], id, first)
           b == Pushed(m.midLow[g], id, second)
<1>1. /\ m.high[g] \in Seq(Threads) /\ m.midLow[g] \in Seq(Threads)
      /\ IsInjective(m.high[g]) /\ IsInjective(m.midLow[g])
  BY DEF Monitors, Apart
<1>2. \A h \in Groups : id \notin ToSet(m.high[h]) /\ id \notin ToSet(m.midLow[h])
  BY LinkedIs
<1>3. /\ a \in Seq(Threads) /\ IsInjective(a) /\ ToSet(a) = ToSet(m.high[g]) \cup {id}
      /\ b \in Seq(Threads) /\ IsInjective(b) /\ ToSet(b) = ToSet(m.midLow[g]) \cup {id}
  <2> HIDE DEF first, second
  <2>1. id \notin ToSet(m.high[g]) /\ id \notin ToSet(m.midLow[g])
    BY <1>2
  <2>2. a \in Seq(Threads) /\ IsInjective(a) /\ ToSet(a) = ToSet(m.high[g]) \cup {id}
    BY <1>1, <2>1, PushedEffect
  <2>3. b \in Seq(Threads) /\ IsInjective(b) /\ ToSet(b) = ToSet(m.midLow[g]) \cup {id}
    BY <1>1, <2>1, PushedEffect
  <2> QED
    BY <2>2, <2>3
<1>4. CASE pri \in {"Highest", "High"}
  <2>1. p = [m EXCEPT !.high = [@ EXCEPT ![g] = a]]
    BY <1>4, Zenon DEF PushedByPriority
  <2> HIDE DEF a, p
  <2>2. /\ p \in Monitors /\ p.blocked = m.blocked /\ p.midLow = m.midLow
        /\ p.high[g] = a /\ \A h \in Groups : h # g => p.high[h] = m.high[h]
    BY <1>3, <2>1 DEF Monitors
  <2>3. Apart(p)
    <3>1. ASSUME NEW h \in Groups
          PROVE  /\ IsInjective(p.high[h])
                 /\ ToSet(p.high[h]) = IF h = g THEN ToSet(m.high[h]) \cup {id}
                                                ELSE ToSet(m.high[h])
      BY <1>3, <2>2 DEF Apart
    <3>2. ASSUME NEW h \in Groups, NEW k \in Groups
          PROVE  ToSet(p.high[h]) \cap ToSet(p.midLow[k]) = {}
      <4>1. ToSet(m.high[h]) \cap ToSet(m.midLow[k]) = {}
        BY DEF Apart
      <4> QED
        BY <1>2, <2>2, <3>1, <4>1
    <3>3. ASSUME NEW h \in Groups, NEW k \in Groups, h # k
          PROVE  /\ ToSet(p.high[h]) \cap ToSet(p.high[k]) = {}
                 /\ ToSet(p.midLow[h]) \cap ToSet(p.midLow[k]) = {}
      BY <1>2, <2>2, <3>1, <3>3 DEF Apart
    <3>4. \A h \in Groups : IsInjective(p.high[h]) /\ IsInjective(p.midLow[h])
      BY <2>2, <3>1 DEF Apart
    <3> QED
      BY <3>2, <3>3, <3>4 DEF Apart
  <2>4. ASSUME NEW t PROVE t \in Linked(p) <=> t \in Linked(m) \cup {id}
    <3>1. t \in Linked(p) <=>
            \E h \in Groups : t \in ToSet(p.high[h]) \/ t \in ToSet(p.midLow[h])
      BY <2>2, LinkedIs
    <3>2. t \in Linked(m) <=>
            \E h \in Groups : t \in ToSet(m.high[h]) \/ t \in ToSet(m.midLow[h])
      BY LinkedIs
    <3> QED
      BY <1>3, <2>2, <3>1, <3>2
  <2> QED
    BY <2>2, <2>3, <2>4 DEF p
<1>5. CASE pri \notin {"Highest", "High"}
  <2>1. p = [m EXCEPT !.midLow = [@ EXCEPT ![g] = b]]
    BY <1>5, Zenon DEF PushedByPriority
  <2> HIDE DEF b, p
  <2>2. /\ p \in Monitors /\ p.blocked = m.blocked /\ p.high = m.high
        /\ p.midLow[g] = b /\ \A h \in Groups : h # g => p.midLow[h] = m.midLow[h]
    BY <1>3, <2>1 DEF Monitors
  <2>3. Apart(p)
    <3>1. ASSUME NEW h \in Groups
          PROVE  /\ IsInjective(p.midLow[h])
                 /\ ToSet(p.midLow[h]) = IF h = g THEN ToSet(m.midLow[h]) \cup {id}
                                                  ELSE ToSet(m.midLow[h])
      BY <1>3, <2>2 DEF Apart
    <3>2. ASSUME NEW h \in Groups, NEW k \in Groups
          PROVE  ToSet(p.high[h]) \cap ToSet(p.midLow[k]) = {}
      <4>1. ToSet(m.high[h]) \cap ToSet(m.midLow[k]) = {}
        BY DEF Apart
      <4> QED
        BY <1>2, <2>2, <3>1, <4>1
    <3>3. ASSUME NEW h \in Groups, NEW k \in Groups, h # k
          PROVE  /\ ToSet(p.high[h]) \cap ToSet(p.high[k]) = {}
                 /\ ToSet(p.midLow[h]) \cap ToSet(p.midLow[k]) = {}
      BY <1>2, <2>2, <3>1, <3>3 DEF Apart
    <3>4. \A h \in Groups : IsInjective(p.high[h]) /\ IsInjective(p.midLow[h])
      BY <2>2, <3>1 DEF Apart
    <3> QED
      BY <3>2, <3>3, <3>4 DEF Apart
  <2>4. ASSUME NEW t PROVE t \in Linked(p) <=> t \in Linked(m) \cup {id}
    <3>1. t \in Linked(p) <=>
            \E h \in Groups : t \in ToSet(p.high[h]) \/ t \in ToSet(p.midLow[h])
      BY <2>2, LinkedIs
    <3>2. t \in Linked(m) <=>
            \E h \in Groups : t \in ToSet(m.high[h]) \/ t \in ToSet(m.midLow[h])
      BY LinkedIs
    <3> QED
      BY <1>3, <2>2, <3>1, <3>2
  <2> QED
    BY <2>2, <2>3, <2>4 DEF p
<1> QED
  BY <1>4, <1>5

\* A monitor with other blocked threads.
LEMMA BlockedFields ==
  ASSUME NEW m \in Monitors, NEW B \in SUBSET Threads
  PROVE  LET r == [m EXCEPT !.blocked = B]
         IN  /\ r \in Monitors /\ r.blocked = B
             /\ r.high = m.high /\ r.midLow = m.midLow
             /\ Linked(r) = Linked(m) /\ (Apart(m) => Apart(r))
BY DEF Monitors, Linked, Waiting, Apart

\* Whatever list the thread is on, waiting puts it on one, and blocks it.
LEMMA WaitBeginEffect ==
  ASSUME NEW m \in Monitors, Apart(m), NEW id \in Threads, NEW g \in Groups, NEW pri
  PROVE  LET w == waitBegin(m, id, g, pri)
         IN  /\ w \in Monitors /\ Apart(w)
             /\ Linked(w) = Linked(m) \cup {id}
             /\ w.blocked = m.blocked \cup {id}
<1> DEFINE u == unlink(m, id)
           p == PushedByPriority(u, id, g, pri)
           w == [p EXCEPT !.blocked = p.blocked \cup {id}]
<1>1. waitBegin(m, id, g, pri) = w
  BY DEF waitBegin, push
<1>2. u \in Monitors /\ Apart(u) /\ Linked(u) = Linked(m) \ {id} /\ u.blocked = m.blocked
  BY UnlinkEffect
<1> HIDE DEF u
<1>3. p \in Monitors /\ Apart(p) /\ Linked(p) = Linked(u) \cup {id} /\ p.blocked = u.blocked
  BY <1>2, PushByPriorityEffect
<1> HIDE DEF p
<1>4. p.blocked \cup {id} \in SUBSET Threads
  BY <1>3 DEF Monitors
<1>5. /\ w \in Monitors /\ w.blocked = p.blocked \cup {id}
      /\ Linked(w) = Linked(p) /\ Apart(w)
  BY <1>3, <1>4, BlockedFields
<1> QED
  BY <1>1, <1>2, <1>3, <1>5

\* signal: a thread is unblocked and the lists stay as they are.
LEMMA SignalEffect ==
  ASSUME NEW m \in Monitors, NEW id
  PROVE  LET r == signal(m, id)
         IN  /\ r \in Monitors /\ r.blocked = m.blocked \ {id}
             /\ Linked(r) = Linked(m) /\ (Apart(m) => Apart(r))
<1>1. m.blocked \ {id} \in SUBSET Threads
  BY DEF Monitors
<1> QED
  BY <1>1, BlockedFields DEF signal

\* What waking threads up may do: threads leave the lists and are unblocked.
Woken(m, n) ==
  /\ n \in Monitors /\ Apart(n)
  /\ Linked(n) \subseteq Linked(m)
  /\ n.blocked = m.blocked \ (Linked(m) \ Linked(n))

\* A list loses its front.
LEMMA PopFrontEffect ==
  ASSUME NEW m \in Monitors, Apart(m), NEW g \in Groups, Waiting(m, g) # <<>>
  PROVE  LET p == pop_front(m, g)
             front == Head(Waiting(m, g))
         IN  /\ p \in Monitors /\ Apart(p)
             /\ front \in Linked(m) /\ Linked(p) = Linked(m) \ {front}
             /\ p.blocked = m.blocked
<1> DEFINE p == pop_front(m, g)
           front == Head(Waiting(m, g))
           s == m.high[g]
           l == m.midLow[g]
<1>1. s \in Seq(Threads) /\ l \in Seq(Threads) /\ IsInjective(s) /\ IsInjective(l)
  BY DEF Monitors, Apart
<1>2. CASE s # <<>>
  <2>1. front = Head(s)
    BY <1>1, <1>2, FrontOfConcat, Zenon DEF Waiting
  <2>2. p = [m EXCEPT !.high = [@ EXCEPT ![g] = Tail(s)]]
    BY <1>2 DEF pop_front
  <2>3. /\ Tail(s) \in Seq(Threads) /\ IsInjective(Tail(s)) /\ Head(s) \in ToSet(s)
        /\ ToSet(Tail(s)) = ToSet(s) \ {Head(s)}
    BY <1>1, <1>2, TailEffect
  <2> DEFINE tl == Tail(s)
  <2> HIDE DEF p, front, tl
  <2>4. /\ p \in Monitors /\ p.blocked = m.blocked /\ p.midLow = m.midLow
        /\ p.high[g] = tl /\ \A h \in Groups : h # g => p.high[h] = m.high[h]
    BY <2>2, <2>3 DEF Monitors, tl
  <2>5. \A h \in Groups : h # g => front \notin ToSet(m.high[h])
    BY <2>1, <2>3 DEF Apart
  <2>6. \A h \in Groups : front \notin ToSet(m.midLow[h])
    BY <2>1, <2>3 DEF Apart
  <2>7. ASSUME NEW h \in Groups
        PROVE  IsInjective(p.high[h]) /\ ToSet(p.high[h]) = ToSet(m.high[h]) \ {front}
    <3>1. CASE h = g
      BY <2>1, <2>3, <2>4, <3>1 DEF tl
    <3>2. CASE h # g
      BY <2>4, <2>5, <3>2 DEF Apart
    <3> QED
      BY <3>1, <3>2
  <2>8. Apart(p)
    BY <2>4, <2>7 DEF Apart
  <2>9. front \in Linked(m)
    BY <2>1, <2>3, LinkedIs
  <2>10. ASSUME NEW t PROVE t \in Linked(p) <=> t \in Linked(m) \ {front}
    <3>1. t \in Linked(p) <=>
            \E h \in Groups : t \in ToSet(p.high[h]) \/ t \in ToSet(p.midLow[h])
      BY <2>4, LinkedIs
    <3>2. t \in Linked(m) <=>
            \E h \in Groups : t \in ToSet(m.high[h]) \/ t \in ToSet(m.midLow[h])
      BY LinkedIs
    <3> QED
      BY <2>4, <2>6, <2>7, <3>1, <3>2
  <2> QED
    BY <2>4, <2>8, <2>9, <2>10 DEF p, front
<1>3. CASE s = <<>>
  <2>1. front = Head(l) /\ l # <<>>
    BY <1>1, <1>3 DEF Waiting
  <2>2. p = [m EXCEPT !.midLow = [@ EXCEPT ![g] = Tail(l)]]
    BY <1>3 DEF pop_front
  <2>3. /\ Tail(l) \in Seq(Threads) /\ IsInjective(Tail(l)) /\ Head(l) \in ToSet(l)
        /\ ToSet(Tail(l)) = ToSet(l) \ {Head(l)}
    BY <1>1, <2>1, TailEffect
  <2> DEFINE tl == Tail(l)
  <2> HIDE DEF p, front, tl
  <2>4. /\ p \in Monitors /\ p.blocked = m.blocked /\ p.high = m.high
        /\ p.midLow[g] = tl /\ \A h \in Groups : h # g => p.midLow[h] = m.midLow[h]
    BY <2>2, <2>3 DEF Monitors, tl
  <2>5. \A h \in Groups : h # g => front \notin ToSet(m.midLow[h])
    BY <2>1, <2>3 DEF Apart
  <2>6. \A h \in Groups : front \notin ToSet(m.high[h])
    BY <2>1, <2>3 DEF Apart
  <2>7. ASSUME NEW h \in Groups
        PROVE  /\ IsInjective(p.midLow[h])
               /\ ToSet(p.midLow[h]) = ToSet(m.midLow[h]) \ {front}
    <3>1. CASE h = g
      BY <2>1, <2>3, <2>4, <3>1 DEF tl
    <3>2. CASE h # g
      BY <2>4, <2>5, <3>2 DEF Apart
    <3> QED
      BY <3>1, <3>2
  <2>8. Apart(p)
    BY <2>4, <2>7 DEF Apart
  <2>9. front \in Linked(m)
    BY <2>1, <2>3, LinkedIs
  <2>10. ASSUME NEW t PROVE t \in Linked(p) <=> t \in Linked(m) \ {front}
    <3>1. t \in Linked(p) <=>
            \E h \in Groups : t \in ToSet(p.high[h]) \/ t \in ToSet(p.midLow[h])
      BY <2>4, LinkedIs
    <3>2. t \in Linked(m) <=>
            \E h \in Groups : t \in ToSet(m.high[h]) \/ t \in ToSet(m.midLow[h])
      BY LinkedIs
    <3> QED
      BY <2>4, <2>6, <2>7, <3>1, <3>2
  <2> QED
    BY <2>4, <2>8, <2>9, <2>10 DEF p, front
<1> QED
  BY <1>2, <1>3

\* A set of naturals has a least element.
LEMMA Least ==
  ASSUME NEW T \in SUBSET Nat, T # {}
  PROVE  \E x \in T : \A y \in T : x <= y
<1> DEFINE R == OpToRel(<, Nat)
<1>1. IsWellFoundedOn(R, Nat)
  BY NatLessThanWellFounded
<1>2. \A x, y \in Nat : x < y => <<x, y>> \in R
  BY DEF OpToRel
<1> HIDE DEF R
<1>3. PICK x \in T : \A y \in T : ~(<<y, x>> \in R)
  BY <1>1, WFMin
<1>4. \A y \in T : ~(y < x)
  BY <1>2, <1>3, Zenon
<1>5. \A y \in T : x <= y
  BY <1>4
<1> QED
  BY <1>5

\* notify wakes one of the threads on the lists, if there is one.
LEMMA NotifyEffect ==
  ASSUME NEW m \in Monitors, Apart(m)
  PROVE  \/ notify(m) = m /\ Linked(m) = {}
         \/ \E t \in Linked(m) :
              /\ notify(m) \in Monitors /\ Apart(notify(m))
              /\ Linked(notify(m)) = Linked(m) \ {t}
              /\ notify(m).blocked = m.blocked \ {t}
<1> DEFINE n == Cardinality(DOMAIN m.high)
           At(i) == (m.group + i) % n
           NonEmpty == {i \in 0..n - 1 : Waiting(m, At(i)) # <<>>}
           i == CHOOSE i \in NonEmpty : \A j \in NonEmpty : i <= j
           front == Head(Waiting(m, At(i)))
<1>1. n = NumGroups /\ n \in Nat \ {0} /\ DOMAIN m.high = Groups /\ m.group \in 0..n - 1
  <2>1. DOMAIN m.high = Groups /\ m.group \in Groups
    BY DEF Monitors
  <2>2. NumGroups \in Nat \ {0}
    BY JobQueueAssumption
  <2>3. Cardinality(0..NumGroups - 1) = NumGroups
    BY <2>2, FS_Interval
  <2> QED
    BY <2>1, <2>2, <2>3 DEF Groups
<1> HIDE DEF n
<1>2. \A k \in Nat : At(k) \in Groups
  BY <1>1 DEF Groups
<1>3. CASE NonEmpty = {}
  <2>1. notify(m) = m
    BY <1>3, Zenon DEF notify, n
  <2>2. ASSUME NEW g \in Groups PROVE Waiting(m, g) = <<>>
    <3> DEFINE k == IF g >= m.group THEN g - m.group ELSE g - m.group + n
    <3>1. /\ k \in 0..n - 1 /\ g \in 0..n - 1
          /\ m.group + k = g \/ m.group + k = g + n
      BY <1>1 DEF Groups
    <3>2. g % n = g /\ (g + n) % n = g
      BY <1>1, <3>1, GoingRound
    <3>3. At(k) = g
      BY <3>1, <3>2
    <3> QED
      BY <1>3, <3>1, <3>3
  <2>3. Linked(m) = {}
    BY <1>1, <2>2 DEF Linked, ToSet
  <2> QED
    BY <2>1, <2>3
<1>4. CASE NonEmpty # {}
  <2>1. i \in NonEmpty
    <3>1. NonEmpty \in SUBSET Nat
      BY <1>1
    <3>2. \E x \in NonEmpty : \A y \in NonEmpty : x <= y
      <4> HIDE DEF NonEmpty
      <4> QED
        BY <1>4, <3>1, Least
    <3> QED
      BY <3>2
  <2>2. notify(m) = [signal(pop_front(m, At(i)), front) EXCEPT !.group = At(i + 1)]
    BY <1>4, Zenon DEF notify, n
  <2> HIDE DEF i
  <2>3. i \in Nat /\ i + 1 \in Nat /\ Waiting(m, At(i)) # <<>>
    BY <1>1, <2>1
  <2> HIDE DEF NonEmpty
  <2>4. At(i) \in Groups /\ At(i + 1) \in Groups
    BY <1>2, <2>3
  <2> DEFINE g == At(i)  h == At(i + 1)  p == pop_front(m, g)  s == signal(p, front)
             r == [s EXCEPT !.group = h]
  <2>5. g \in Groups /\ h \in Groups /\ Waiting(m, g) # <<>> /\ front = Head(Waiting(m, g))
    BY <2>3, <2>4
  <2>6. notify(m) = r
    BY <2>2
  <2> HIDE DEF At, g, h, front
  <2>7. /\ p \in Monitors /\ Apart(p) /\ front \in Linked(m)
        /\ Linked(p) = Linked(m) \ {front} /\ p.blocked = m.blocked
    BY <2>5, PopFrontEffect
  <2> HIDE DEF p
  <2>8. /\ s \in Monitors /\ Apart(s) /\ Linked(s) = Linked(p)
        /\ s.blocked = p.blocked \ {front}
    BY <2>7, SignalEffect
  <2> HIDE DEF s
  <2>9. /\ r \in Monitors /\ r.high = s.high /\ r.midLow = s.midLow
        /\ r.blocked = s.blocked
    BY <2>5, <2>8 DEF Monitors
  <2> HIDE DEF r
  <2>10. Apart(r) /\ Linked(r) = Linked(s)
    BY <2>8, <2>9 DEF Apart, Linked, Waiting
  <2> QED
    BY <2>6, <2>7, <2>8, <2>9, <2>10
<1> QED
  BY <1>3, <1>4

\* So notify only wakes threads up.
LEMMA NotifyWakes ==
  ASSUME NEW m \in Monitors, Apart(m)
  PROVE  Woken(m, notify(m))
<1>1. CASE notify(m) = m
  BY <1>1 DEF Woken
<1>2. ASSUME NEW t \in Linked(m),
             notify(m) \in Monitors, Apart(notify(m)),
             Linked(notify(m)) = Linked(m) \ {t}, notify(m).blocked = m.blocked \ {t}
      PROVE  Woken(m, notify(m))
  BY <1>2 DEF Woken
<1> QED
  BY <1>1, <1>2, NotifyEffect

\* f holds the monitors that a run of notifies goes through.
Notifies(m, times, f) == f = [k \in 0..times |-> IF k = 0 THEN m ELSE notify(f[k - 1])]

\* There is such an f, however long the run.
LEMMA NotifiesExists ==
  ASSUME NEW m, NEW times \in Nat
  PROVE  \E f : Notifies(m, times, f)
<1> DEFINE T == {n \in Nat : ~\E f : Notifies(m, n, f)}
<1> SUFFICES ASSUME T # {} PROVE FALSE
  OBVIOUS
<1>1. PICK n \in T : \A y \in T : n <= y
  BY Least
<1>2. n # 0
  <2>1. Notifies(m, 0, [k \in 0..0 |-> m])
    BY DEF Notifies
  <2> QED
    BY <2>1
<1>3. n - 1 \in Nat /\ n - 1 \notin T
  BY <1>1, <1>2
<1>4. PICK f : Notifies(m, n - 1, f)
  BY <1>3
<1> DEFINE g == [k \in 0..n |-> IF k = n THEN notify(f[n - 1]) ELSE f[k]]
<1>5. Notifies(m, n, g)
  <2>1. \A k \in 0..n - 1 : f[k] = IF k = 0 THEN m ELSE notify(f[k - 1])
    BY <1>3, <1>4 DEF Notifies
  <2>2. ASSUME NEW k \in 0..n PROVE g[k] = IF k = 0 THEN m ELSE notify(g[k - 1])
    <3>1. CASE k = n
      <4>1. n - 1 \in 0..n /\ n - 1 # n
        BY <1>3
      <4>2. g[n - 1] = f[n - 1] /\ g[n] = notify(f[n - 1])
        BY <4>1, <1>3
      <4> QED
        BY <3>1, <4>2, <1>2
    <3>2. CASE k # n
      <4>1. k \in 0..n-1 /\ (k # 0 => k - 1 \in 0..n /\ k - 1 # n)
        BY <3>2, <1>3
      <4> QED
        BY <4>1, <2>1, <3>2
    <3> QED
      BY <3>1, <3>2
  <2> HIDE DEF g
  <2>3. g = [k \in 0..n |-> g[k]]
    BY DEF g
  <2> QED
    BY <2>2, <2>3 DEF Notifies
<1> QED
  BY <1>5

\* notifyTimes is the last of its monitors.
LEMMA NotifyTimes ==
  ASSUME NEW m, NEW times \in Nat
  PROVE  \E f : Notifies(m, times, f) /\ notifyTimes(m, times) = f[times]
<1> DEFINE f == CHOOSE f : Notifies(m, times, f)
<1>1. Notifies(m, times, f)
  BY NotifiesExists, Zenon
<1>2. notifyTimes(m, times) = f[times]
  BY Zenon DEF notifyTimes, Notifies
<1> QED
  BY <1>1, <1>2, Zenon

\* As often as it is called.
LEMMA NotifyTimesWakes ==
  ASSUME NEW m \in Monitors, Apart(m), NEW times \in Nat
  PROVE  Woken(m, notifyTimes(m, times))
<1>1. PICK f : Notifies(m, times, f) /\ notifyTimes(m, times) = f[times]
  BY NotifyTimes
<1>2. \A k \in 0..times : f[k] = IF k = 0 THEN m ELSE notify(f[k - 1])
  BY <1>1 DEF Notifies
<1> DEFINE T == {k \in 0..times : ~Woken(m, f[k])}
<1>3. T = {}
  <2> SUFFICES ASSUME T # {} PROVE FALSE
    OBVIOUS
  <2>1. T \in SUBSET Nat
    OBVIOUS
  <2>2. PICK k \in T : \A l \in T : k <= l
    <3> HIDE DEF T
    <3> QED
      BY <2>1, Least
  <2>3. k \in 0..times /\ ~Woken(m, f[k])
    OBVIOUS
  <2>4. k # 0
    <3>1. Woken(m, m)
      BY DEF Woken
    <3> QED
      BY <1>2, <2>3, <3>1
  <2>5. k - 1 \in 0..times /\ k - 1 \notin T /\ f[k] = notify(f[k - 1])
    BY <1>2, <2>2, <2>3, <2>4
  <2> DEFINE a == f[k - 1]
  <2>6. Woken(m, a)
    BY <2>5
  <2> HIDE DEF a
  <2>7. Woken(a, notify(a))
    BY <2>6, NotifyWakes DEF Woken
  <2>8. Woken(m, notify(a))
    BY <2>6, <2>7 DEF Woken
  <2> QED
    BY <2>3, <2>5, <2>8 DEF a
<1> QED
  BY <1>1, <1>3

\* And notifyAll wakes everyone on the lists.
LEMMA NotifyAllWakes ==
  ASSUME NEW m \in Monitors, Apart(m)
  PROVE  Woken(m, notifyAll(m)) /\ Linked(notifyAll(m)) = {}
<1> DEFINE e == [g \in Groups |-> <<>>]
           E == EmptyMonitor(NumGroups)
           B == m.blocked \ Linked(m)
           r == [E EXCEPT !.group = m.group, !.blocked = B]
<1>1. notifyAll(m) = r
  <2>1. DOMAIN m.high = 0..NumGroups - 1 /\ NumGroups \in Nat \ {0}
    BY JobQueueAssumption DEF Monitors, Groups
  <2>2. Cardinality(0..NumGroups - 1) = NumGroups
    BY <2>1, FS_Interval
  <2> QED
    BY <2>1, <2>2, Zenon DEF notifyAll
<1>2. e \in [Groups -> Seq(Threads)] /\ \A g \in Groups : e[g] = <<>>
  OBVIOUS
<1>3. E = [group |-> 0, high |-> e, midLow |-> e, blocked |-> {}]
  BY Zenon DEF EmptyMonitor, Groups
<1> HIDE DEF e, E
<1>4. E \in Monitors /\ E.high = e /\ E.midLow = e
  <2>1. 0 \in Groups
    BY JobQueueAssumption DEF Groups
  <2> QED
    BY <1>2, <1>3, <2>1 DEF Monitors
<1>5. m.group \in Groups /\ B \in SUBSET Threads
  BY DEF Monitors
<1> HIDE DEF B
<1>6. r \in Monitors /\ r.high = E.high /\ r.midLow = E.midLow /\ r.blocked = B
  BY <1>4, <1>5, Zenon DEF Monitors
<1> HIDE DEF r
<1>7. Linked(r) = {}
  BY <1>2, <1>4, <1>6, LinkedIs DEF ToSet
<1>8. Apart(r)
  BY <1>2, <1>4, <1>6 DEF Apart, IsInjective, ToSet
<1> QED
  BY <1>1, <1>6, <1>7, <1>8 DEF Woken, B

-----------------------------------------------------------------------------
\* The queues.

\* One queue is replaced by another list.
LEMMA QueueChange ==
  ASSUME NEW q \in [Priorities -> Seq(Jobs)], Separate(q), NEW p \in Priorities,
         NEW s \in Seq(Jobs), IsInjective(s),
         \A r \in Priorities : r # p => ToSet(s) \cap ToSet(q[r]) = {},
         NEW q2, q2 = [q EXCEPT ![p] = s]
  PROVE  /\ q2 \in [Priorities -> Seq(Jobs)] /\ Separate(q2)
         /\ q2[p] = s /\ \A r \in Priorities : r # p => q2[r] = q[r]
<1>1. /\ q2 \in [Priorities -> Seq(Jobs)]
      /\ q2[p] = s /\ \A r \in Priorities : r # p => q2[r] = q[r]
  OBVIOUS
<1>2. Separate(q2)
  BY <1>1 DEF Separate
<1> QED
  BY <1>1, <1>2

\* A queue gets a new job.
LEMMA EnqueueEffect ==
  ASSUME m_jobQueues \in [Priorities -> Seq(Jobs)], Separate(m_jobQueues),
         NEW p \in Priorities, NEW j, NEW l \in Seq(Jobs), IsInjective(l),
         j \notin Queued, ToSet(l) = ToSet(m_jobQueues[p]) \cup {j},
         m_jobQueues' = [m_jobQueues EXCEPT ![p] = l]
  PROVE  /\ m_jobQueues' \in [Priorities -> Seq(Jobs)] /\ Separate(m_jobQueues')
         /\ Queued' = Queued \cup {j}
<1>1. \A r \in Priorities : r # p => ToSet(l) \cap ToSet(m_jobQueues[r]) = {}
  BY DEF Separate, Queued
<1>2. /\ m_jobQueues' \in [Priorities -> Seq(Jobs)] /\ Separate(m_jobQueues')
      /\ m_jobQueues'[p] = l
      /\ \A r \in Priorities : r # p => m_jobQueues'[r] = m_jobQueues[r]
  BY <1>1, QueueChange
<1>3. Queued' = Queued \cup {j}
  BY <1>2 DEF Queued
<1> QED
  BY <1>2, <1>3

\* It is put at the end.
LEMMA AppendEffect ==
  ASSUME NEW S, NEW s \in Seq(S), IsInjective(s), NEW j \in S, j \notin ToSet(s)
  PROVE  /\ Append(s, j) \in Seq(S)
         /\ IsInjective(Append(s, j))
         /\ ToSet(Append(s, j)) = ToSet(s) \cup {j}
<1>1. Append(s, j) = s \o <<j>>
  OBVIOUS
<1>2. /\ s \o <<j>> \in Seq(S) /\ IsInjective(s \o <<j>>)
      /\ ToSet(s \o <<j>>) = ToSet(s) \cup {j}
  BY PushBackEffect, Zenon
<1> QED
  BY <1>1, <1>2, Zenon

\* A job is taken out of its queue.
LEMMA DequeueEffect ==
  ASSUME m_jobQueues \in [Priorities -> Seq(Jobs)], Separate(m_jobQueues),
         NEW p \in Priorities, NEW j, NEW l \in Seq(Jobs), IsInjective(l),
         j \in ToSet(m_jobQueues[p]), ToSet(l) = ToSet(m_jobQueues[p]) \ {j},
         m_jobQueues' = [m_jobQueues EXCEPT ![p] = l]
  PROVE  /\ m_jobQueues' \in [Priorities -> Seq(Jobs)] /\ Separate(m_jobQueues')
         /\ j \in Queued /\ Queued' = Queued \ {j}
<1>1. \A r \in Priorities : r # p => ToSet(l) \cap ToSet(m_jobQueues[r]) = {}
  BY DEF Separate
<1>2. /\ m_jobQueues' \in [Priorities -> Seq(Jobs)] /\ Separate(m_jobQueues')
      /\ m_jobQueues'[p] = l
      /\ \A r \in Priorities : r # p => m_jobQueues'[r] = m_jobQueues[r]
  BY <1>1, QueueChange
<1>3. \A r \in Priorities : r # p => j \notin ToSet(m_jobQueues[r])
  BY DEF Separate
<1>4. j \in Queued
  BY DEF Queued
<1>5. Queued' = Queued \ {j}
  BY <1>2, <1>3 DEF Queued
<1> QED
  BY <1>2, <1>4, <1>5

-----------------------------------------------------------------------------
\* Steps.

\* What most steps do to the monitor: nobody is blocked by them, and who stays
\* blocked stays linked.
Keeps(m, n) ==
  /\ n \in Monitors /\ Apart(n)
  /\ n.blocked \subseteq m.blocked
  /\ \A t \in n.blocked : t \in Linked(m) => t \in Linked(n)

\* Waking, signalling and unlinking a thread that is not blocked are such steps.
LEMMA KeepsCases ==
  ASSUME NEW m \in Monitors, Apart(m), NEW n
  PROVE  /\ n = m => Keeps(m, n)
         /\ Woken(m, n) => Keeps(m, n)
         /\ \A t : n = signal(m, t) => Keeps(m, n)
         /\ \A t : n = unlink(m, t) /\ t \notin m.blocked => Keeps(m, n)
<1>1. n = m => Keeps(m, n)
  BY DEF Keeps
<1>2. Woken(m, n) => Keeps(m, n)
  BY DEF Keeps, Woken
<1>3. ASSUME NEW t, n = signal(m, t) PROVE Keeps(m, n)
  BY <1>3, SignalEffect DEF Keeps
<1>4. ASSUME NEW t, n = unlink(m, t), t \notin m.blocked PROVE Keeps(m, n)
  <2>1. /\ n \in Monitors /\ Apart(n)
        /\ Linked(n) = Linked(m) \ {t} /\ n.blocked = m.blocked
    BY <1>4, UnlinkEffect
  <2> QED
    BY <1>4, <2>1 DEF Keeps
<1> QED
  BY <1>1, <1>2, <1>3, <1>4

\* The steps that put a thread to sleep.
Sleeps ==
  \/ \E w \in Workers : wait(w)
  \/ reaperWait

\* releaseQueuedJobs only wakes threads up.
LEMMA ReleaseWakes ==
  ASSUME IInv, releaseNotifies
  PROVE  Woken(monitor, monitor')
<1> DEFINE wanted == Min({releasing - m_workerCount, m_jobCount})
           times == Max({1, wanted})
<1>1. Targets \subseteq Nat
  BY JobQueueAssumption
<1>2. releasing \in Targets /\ m_workerCount \in Nat /\ m_jobCount \in Nat
  BY DEF IInv, TypeOK, releaseNotifies
<1>3. releasing - m_workerCount \in Int /\ m_jobCount \in Int
  BY <1>1, <1>2
<1>4. wanted \in {releasing - m_workerCount, m_jobCount}
  BY <1>3 DEF Min
<1>5. wanted \in Int
  BY <1>3, <1>4
<1>6. times \in Nat
  <2> HIDE DEF wanted
  <2>1. times \in {1, wanted} /\ times >= 1
    BY <1>5 DEF Max
  <2> QED
    BY <1>5, <2>1
<1>7. monitor' = notifyTimes(monitor, times)
  BY DEF releaseNotifies
<1> HIDE DEF times
<1> QED
  BY <1>6, <1>7, NotifyTimesWakes DEF IInv

\* All the others wake threads up, if they do anything to the monitor.
LEMMA MonitorKept ==
  ASSUME IInv, [Next]_vars, ~Sleeps, ~notifySpecificUnlink
  PROVE  /\ Keeps(monitor, monitor')
         /\ \A t \in monitor'.blocked : pc'[t] = pc[t]
<1>1. /\ monitor \in Monitors /\ Apart(monitor) /\ pc \in [Threads -> Places]
      /\ monitor.blocked \subseteq Threads
      /\ \A t \in monitor.blocked : pc[t] = "waiting"
  BY DEF IInv, Found, TypeOK
<1>2. ASSUME monitor' = monitor, UNCHANGED pc
      PROVE  Keeps(monitor, monitor') /\ \A t \in monitor'.blocked : pc'[t] = pc[t]
  BY <1>1, <1>2, KeepsCases
<1>3. ASSUME NEW t \in Threads, NEW x, monitor' = monitor,
             pc[t] # "waiting", pc' = [pc EXCEPT ![t] = x]
      PROVE  Keeps(monitor, monitor') /\ \A u \in monitor'.blocked : pc'[u] = pc[u]
  BY <1>1, <1>3, KeepsCases
<1>4. ASSUME Woken(monitor, monitor'), UNCHANGED pc
      PROVE  Keeps(monitor, monitor') /\ \A t \in monitor'.blocked : pc'[t] = pc[t]
  BY <1>1, <1>4, KeepsCases
<1>5. Workers \subseteq Threads /\ (HasReaper => Reaper \in Threads)
  BY DEF Threads
<1>6. CASE \E j \in Jobs, p \in Priorities, eager \in EagerNotify : enqueue(j, p, eager)
  <2>1. monitor' = monitor \/ monitor' = notify(monitor)
    BY <1>6 DEF enqueue
  <2>2. UNCHANGED pc
    BY <1>6 DEF enqueue, threadVars
  <2> QED
    BY <1>1, <1>2, <1>4, <2>1, <2>2, NotifyWakes
<1>7. CASE \E j \in Jobs : expire(j)
  BY <1>2, <1>7 DEF expire, threadVars
<1>8. CASE stop
  BY <1>1, <1>4, <1>8, NotifyAllWakes DEF stop, threadVars
<1>9. CASE \/ \E num \in Limits : notifyNewStatus(num)
           \/ \E target \in Targets : releaseQueuedJobs(target)
           \/ waitEmpty
           \/ \E w \in Stoppable : stopWorker(w)
  BY <1>2, <1>9 DEF notifyNewStatus, updateMaxActiveWorkers, releaseQueuedJobs, waitEmpty, stopWorker,
                    threadVars
<1>10. CASE releaseNotifies
  BY <1>1, <1>4, <1>10, ReleaseWakes DEF releaseNotifies, threadVars
<1>11. ASSUME NEW w \in Workers, Worker(w)
       PROVE  Keeps(monitor, monitor') /\ \A t \in monitor'.blocked : pc'[t] = pc[t]
  <2>0. w \in Threads /\ ~wait(w)
    BY <1>5 DEF Sleeps
  <2>1. CASE startDequeue(w)
    BY <1>3, <2>0, <2>1 DEF startDequeue
  <2>2. CASE stopSignal(w)
    BY <1>3, <2>0, <2>2 DEF stopSignal
  <2>3. CASE dequeue(w)
    BY <1>3, <2>0, <2>3 DEF dequeue
  <2>4. CASE flushAtOnce(w)
    BY <1>2, <2>4 DEF flushAtOnce
  <2>5. CASE checkedMustWait(w)
    BY <1>3, <2>0, <2>5 DEF checkedMustWait
  <2>6. CASE waitReturns(w)
    <3>1. monitor' = monitor /\ w \notin monitor.blocked /\ pc' = [pc EXCEPT ![w] = "running"]
      BY <2>6 DEF waitReturns, waitEnd
    <3> QED
      BY <1>1, <3>1, <2>0, KeepsCases
  <2>7. CASE waitTimedOut(w)
    <3>1. /\ monitor' = unlink(monitor, w) /\ w \notin monitor.blocked
          /\ pc' = [pc EXCEPT ![w] = "running"]
      BY <1>1, <2>7 DEF waitTimedOut, waitEnd
    <3>2. Keeps(monitor, monitor')
      BY <1>1, <3>1, KeepsCases
    <3> QED
      BY <1>1, <2>0, <3>1, <3>2 DEF Keeps
  <2> QED
    BY <1>11, <2>0, <2>1, <2>2, <2>3, <2>4, <2>5, <2>6, <2>7 DEF Worker
<1>12. ASSUME NEW t \in Threads, spuriousWakeUp(t) \/ timeout(t) \/ finishJob(t) \/ signalEmpty(t)
       PROVE  Keeps(monitor, monitor') /\ \A u \in monitor'.blocked : pc'[u] = pc[u]
  <2>1. CASE spuriousWakeUp(t)
    <3>1. monitor' = signal(monitor, t) /\ UNCHANGED pc
      BY <2>1 DEF spuriousWakeUp, threadVars
    <3> QED
      BY <1>1, <3>1, KeepsCases
  <2>2. CASE timeout(t)
    <3>1. monitor' = signal(monitor, t) /\ pc' = [pc EXCEPT ![t] = "timedOut"]
      BY <2>2 DEF timeout
    <3>2. Keeps(monitor, monitor')
      BY <1>1, <3>1, KeepsCases
    <3>3. t \notin monitor'.blocked
      BY <1>1, <3>1, SignalEffect
    <3> QED
      BY <1>1, <3>1, <3>2, <3>3 DEF Keeps
  <2>3. CASE finishJob(t)
    BY <1>3, <2>3 DEF finishJob
  <2>4. CASE signalEmpty(t)
    BY <1>3, <2>4 DEF signalEmpty
  <2> QED
    BY <1>12, <2>1, <2>2, <2>3, <2>4
<1>13. CASE ReaperStep
  <2>1. CASE reaperDequeue
    BY <1>3, <1>5, <2>1 DEF reaperDequeue
  <2>2. CASE reaperStops
    BY <1>3, <1>5, <2>2 DEF reaperStops
  <2>3. CASE reaperNotified
    <3>1. /\ monitor' = notify(monitor) /\ Reaper \notin monitor.blocked
          /\ pc' = [pc EXCEPT ![Reaper] = "idle"]
      BY <2>3 DEF reaperNotified, waitEnd
    <3>2. Keeps(monitor, monitor')
      BY <1>1, <3>1, KeepsCases, NotifyWakes
    <3> QED
      BY <1>1, <3>1, <3>2 DEF Keeps
  <2>4. CASE reaperTimedOut
    <3>1. /\ monitor' = unlink(monitor, Reaper) /\ Reaper \notin monitor.blocked
          /\ pc' = [pc EXCEPT ![Reaper] = "idle"]
      BY <1>1, <2>4 DEF reaperTimedOut, waitEnd
    <3>2. Keeps(monitor, monitor')
      BY <1>1, <3>1, KeepsCases
    <3> QED
      BY <1>1, <3>1, <3>2 DEF Keeps
  <2> QED
    BY <1>13, <2>1, <2>2, <2>3, <2>4 DEF ReaperStep, Sleeps
<1>14. CASE notifySpecificSignal
  <2>1. monitor' = signal(monitor, shrinking.worker) /\ UNCHANGED pc
    BY <1>14 DEF notifySpecificSignal, threadVars
  <2> QED
    BY <1>1, <2>1, KeepsCases
<1>15. CASE UNCHANGED vars
  BY <1>2, <1>15 DEF vars
<1> QED
  BY <1>6, <1>7, <1>8, <1>9, <1>10, <1>11, <1>12, <1>13, <1>14, <1>15 DEF Next, Shrink

\* The stop flags are never taken back.
LEMMA StopFlags ==
  ASSUME IInv, [Next]_vars
  PROVE  /\ \A w \in Workers : workerStop[w] => workerStop'[w]
         /\ shrinking'.step # "none" =>
              shrinking'.worker \in Workers /\ workerStop'[shrinking'.worker]
<1>1. /\ workerStop \in [Workers -> BOOLEAN]
      /\ shrinking \in [worker : Workers \cup {NoThread}, step : {"none", "signal", "unlink"}]
      /\ shrinking.step # "none" => shrinking.worker \in Workers /\ workerStop[shrinking.worker]
  BY DEF IInv, Found, TypeOK
<1>2. CASE UNCHANGED <<workerStop, shrinking>>
  BY <1>1, <1>2
<1>3. CASE \E w \in Workers : stopSignal(w)
  BY <1>1, <1>3 DEF stopSignal
<1>4. CASE \E w \in Stoppable : stopWorker(w)
  <2>1. Stoppable \subseteq Workers
    BY JobQueueAssumption
  <2> QED
    BY <1>1, <1>4, <2>1 DEF stopWorker
<1>5. CASE notifySpecificSignal
  BY <1>1, <1>5 DEF notifySpecificSignal
<1>6. CASE notifySpecificUnlink
  BY <1>1, <1>6 DEF notifySpecificUnlink
<1>7. CASE \/ \E j \in Jobs, p \in Priorities, eager \in EagerNotify : enqueue(j, p, eager)
           \/ \E j \in Jobs : expire(j)
           \/ stop
           \/ \E num \in Limits : notifyNewStatus(num)
           \/ \E target \in Targets : releaseQueuedJobs(target)
           \/ releaseNotifies
           \/ waitEmpty
           \/ ReaperStep
  BY <1>2, <1>7 DEF enqueue, expire, stop, notifyNewStatus, updateMaxActiveWorkers, releaseQueuedJobs,
       releaseNotifies, waitEmpty, ReaperStep, reaperDequeue, reaperWait, reaperStops,
       reaperNotified, reaperTimedOut, controlVars
<1>8. ASSUME NEW w \in Workers, Worker(w), ~stopSignal(w)
      PROVE  UNCHANGED <<workerStop, shrinking>>
  BY <1>8 DEF Worker, startDequeue, dequeue, flushAtOnce, checkedMustWait, wait,
       waitReturns, waitTimedOut, controlVars
<1>9. ASSUME NEW t \in Threads, spuriousWakeUp(t) \/ timeout(t) \/ finishJob(t) \/ signalEmpty(t)
      PROVE  UNCHANGED <<workerStop, shrinking>>
  BY <1>9 DEF spuriousWakeUp, timeout, finishJob, signalEmpty, controlVars
<1>10. CASE UNCHANGED vars
  BY <1>2, <1>10 DEF vars
<1> QED
  BY <1>2, <1>3, <1>4, <1>5, <1>6, <1>7, <1>8, <1>9, <1>10 DEF Next, Shrink

\* Blocked threads stay where notify finds them.
LEMMA FoundStep ==
  ASSUME IInv, [Next]_vars
  PROVE  monitor' \in Monitors /\ Apart(monitor') /\ Found'
<1>1. /\ monitor \in Monitors /\ Apart(monitor) /\ pc \in [Threads -> Places]
      /\ monitor.blocked \subseteq Threads
      /\ \A t \in monitor.blocked : pc[t] = "waiting"
      /\ monitor.blocked \ {w \in Workers : workerStop[w]} \subseteq Linked(monitor)
  BY DEF IInv, Found, TypeOK
<1>2. /\ \A w \in Workers : workerStop[w] => workerStop'[w]
      /\ shrinking'.step # "none" =>
           shrinking'.worker \in Workers /\ workerStop'[shrinking'.worker]
  BY StopFlags
<1>3. ASSUME NEW t \in Threads, NEW g \in Groups, NEW pri,
             monitor' = waitBegin(monitor, t, g, pri), pc' = [pc EXCEPT ![t] = "waiting"]
      PROVE  monitor' \in Monitors /\ Apart(monitor') /\ Found'
  <2>1. /\ monitor' \in Monitors /\ Apart(monitor')
        /\ Linked(monitor') = Linked(monitor) \cup {t}
        /\ monitor'.blocked = monitor.blocked \cup {t}
    BY <1>1, <1>3, WaitBeginEffect
  <2> QED
    BY <1>1, <1>2, <1>3, <2>1 DEF Found
<1>4. \A t \in Threads : NumaNode[t] \in Groups
  BY JobQueueAssumption DEF Groups
<1>5. CASE Sleeps
  <2>1. ASSUME NEW w \in Workers, wait(w)
        PROVE  monitor' \in Monitors /\ Apart(monitor') /\ Found'
    <3>1. w \in Threads
      BY DEF Threads
    <3> QED
      BY <1>3, <1>4, <2>1, <3>1 DEF wait
  <2>2. CASE reaperWait
    <3>1. Reaper \in Threads
      BY <2>2 DEF Threads, reaperWait
    <3> QED
      BY <1>3, <1>4, <2>2, <3>1 DEF reaperWait
  <2> QED
    BY <1>5, <2>1, <2>2 DEF Sleeps
<1>6. CASE notifySpecificUnlink
  <2>1. /\ monitor' = unlink(monitor, shrinking.worker) /\ UNCHANGED <<pc, workerStop>>
        /\ shrinking.worker \in Workers /\ workerStop[shrinking.worker]
    BY <1>6 DEF notifySpecificUnlink, threadVars, IInv, Found
  <2>2. /\ monitor' \in Monitors /\ Apart(monitor')
        /\ Linked(monitor') = Linked(monitor) \ {shrinking.worker}
        /\ monitor'.blocked = monitor.blocked
    BY <1>1, <2>1, UnlinkEffect
  <2> QED
    BY <1>1, <1>2, <2>1, <2>2 DEF Found
<1>7. CASE ~Sleeps /\ ~notifySpecificUnlink
  <2>1. Keeps(monitor, monitor') /\ \A t \in monitor'.blocked : pc'[t] = pc[t]
    BY <1>7, MonitorKept
  <2> QED
    BY <1>1, <1>2, <2>1 DEF Keeps, Found
<1> QED
  BY <1>5, <1>6, <1>7

\* The steps that move jobs.
Moves ==
  \/ \E j \in Jobs, p \in Priorities, eager \in EagerNotify : enqueue(j, p, eager)
  \/ \E w \in Workers : dequeue(w)
  \/ reaperDequeue
  \/ \E t \in Threads : finishJob(t)

\* All the others leave the jobs, and who works on them, alone.
LEMMA JobsKept ==
  ASSUME IInv, [Next]_vars, ~Moves
  PROVE  /\ UNCHANGED <<m_jobQueues, m_jobCount, m_workerCount, job, outcomeVars>>
         /\ pc' \in [Threads -> Places]
         /\ \A t \in Threads, x \in {"working", "aborting"} : pc'[t] = x <=> pc[t] = x
<1>1. /\ pc \in [Threads -> Places] /\ Workers \subseteq Threads
      /\ (HasReaper => Reaper \in Threads)
  BY DEF IInv, TypeOK, Threads
<1> DEFINE Jobless == {"idle", "running", "checked", "waiting", "timedOut", "lastActive",
                       "exited"}
           P == /\ pc' \in [Threads -> Places]
                /\ \A t \in Threads, x \in {"working", "aborting"} : pc'[t] = x <=> pc[t] = x
           Q == UNCHANGED <<m_jobQueues, m_jobCount, m_workerCount, job, outcomeVars>>
<1> SUFFICES P /\ Q
  OBVIOUS
<1>2. UNCHANGED pc => P
  BY <1>1
<1>3. ASSUME NEW t \in Threads, NEW x \in Jobless, pc[t] \in Jobless,
             pc' = [pc EXCEPT ![t] = x]
      PROVE  P
  BY <1>1, <1>3 DEF Places
<1> HIDE DEF P
<1>4. CASE \/ \E j \in Jobs : expire(j)
           \/ stop
           \/ \E num \in Limits : notifyNewStatus(num)
           \/ \E target \in Targets : releaseQueuedJobs(target)
           \/ releaseNotifies
           \/ waitEmpty
           \/ Shrink
  BY <1>2, <1>4 DEF expire, stop, notifyNewStatus, updateMaxActiveWorkers, releaseQueuedJobs,
       releaseNotifies, waitEmpty, Shrink, stopWorker, notifySpecificSignal,
       notifySpecificUnlink, threadVars, queueVars, outcomeVars
<1>5. ASSUME NEW w \in Workers, Worker(w) PROVE P /\ Q
  <2>0. w \in Threads /\ ~dequeue(w)
    BY <1>1 DEF Moves
  <2>1. CASE startDequeue(w)
    BY <1>3, <2>0, <2>1 DEF startDequeue, queueVars
  <2>2. CASE stopSignal(w)
    BY <1>3, <2>0, <2>2 DEF stopSignal, queueVars
  <2>3. CASE flushAtOnce(w)
    BY <1>2, <2>3 DEF flushAtOnce, queueVars
  <2>4. CASE checkedMustWait(w)
    BY <1>3, <2>0, <2>4 DEF checkedMustWait, queueVars
  <2>5. CASE wait(w)
    BY <1>3, <2>0, <2>5 DEF wait, queueVars
  <2>6. CASE waitReturns(w)
    BY <1>3, <2>0, <2>6 DEF waitReturns, queueVars
  <2>7. CASE waitTimedOut(w)
    BY <1>3, <2>0, <2>7 DEF waitTimedOut, queueVars
  <2> QED
    BY <1>5, <2>0, <2>1, <2>2, <2>3, <2>4, <2>5, <2>6, <2>7 DEF Worker
<1>6. ASSUME NEW t \in Threads, spuriousWakeUp(t) \/ timeout(t) \/ signalEmpty(t) PROVE P /\ Q
  <2>1. CASE spuriousWakeUp(t)
    BY <1>2, <2>1 DEF spuriousWakeUp, queueVars, threadVars
  <2>2. CASE timeout(t)
    BY <1>3, <2>2 DEF timeout, queueVars
  <2>3. CASE signalEmpty(t)
    BY <1>3, <2>3 DEF signalEmpty, queueVars
  <2> QED
    BY <1>6, <2>1, <2>2, <2>3
<1>7. CASE ReaperStep
  <2>1. CASE reaperWait
    BY <1>1, <1>3, <2>1 DEF reaperWait, queueVars
  <2>2. CASE reaperStops
    BY <1>1, <1>3, <2>2 DEF reaperStops, queueVars
  <2>3. CASE reaperNotified
    BY <1>1, <1>3, <2>3 DEF reaperNotified, queueVars
  <2>4. CASE reaperTimedOut
    BY <1>1, <1>3, <2>4 DEF reaperTimedOut, queueVars
  <2> QED
    BY <1>7, <2>1, <2>2, <2>3, <2>4 DEF ReaperStep, Moves
<1>8. CASE UNCHANGED vars
  BY <1>2, <1>8 DEF vars, outcomeVars
<1> QED
  BY <1>4, <1>5, <1>6, <1>7, <1>8 DEF Next, Moves

\* What the invariant says about jobs.
JobsInv ==
  /\ m_jobQueues \in [Priorities -> Seq(Jobs)]
  /\ job \in [Threads -> Jobs \cup {NoJob}]
  /\ pc \in [Threads -> Places]
  /\ finished \subseteq Jobs /\ aborted \subseteq Jobs
  /\ m_jobCount \in Nat /\ m_workerCount \in Nat
  /\ OnePlace /\ Counted

\* What is queued are jobs, finitely many.
LEMMA QueuedType ==
  ASSUME m_jobQueues \in [Priorities -> Seq(Jobs)]
  PROVE  Queued \subseteq Jobs /\ IsFiniteSet(Queued)
<1>1. ASSUME NEW s \in Seq(Jobs) PROVE ToSet(s) \subseteq Jobs
  BY DEF ToSet
<1>2. Queued \subseteq Jobs
  BY <1>1 DEF Queued
<1>3. IsFiniteSet(Jobs)
  BY JobQueueAssumption
<1> QED
  BY <1>2, <1>3, FS_Subset

\* There are finitely many threads.
LEMMA FiniteThreads == IsFiniteSet(Threads)
<1>1. IsFiniteSet(Workers)
  BY JobQueueAssumption
<1>2. IsFiniteSet(Workers \cup {Reaper})
  BY <1>1, FS_AddElement
<1> QED
  BY <1>1, <1>2 DEF Threads

\* A thread takes a job out of the queues.
LEMMA TakeStep ==
  ASSUME JobsInv, NEW t \in Threads, NEW j \in Queued, job[t] = NoJob,
         NEW x \in {"working", "aborting"},
         m_jobQueues' \in [Priorities -> Seq(Jobs)], Separate(m_jobQueues'),
         Queued' = Queued \ {j},
         job' = [job EXCEPT ![t] = j],
         pc' = [pc EXCEPT ![t] = x],
         m_jobCount' = m_jobCount - 1,
         m_workerCount' = m_workerCount + 1,
         UNCHANGED outcomeVars
  PROVE  JobsInv'
<1> USE DEF outcomeVars
<1>1. j \in Jobs /\ j # NoJob /\ IsFiniteSet(Queued)
  BY QueuedType, JobQueueAssumption DEF JobsInv
<1>2. /\ job' \in [Threads -> Jobs \cup {NoJob}] /\ pc' \in [Threads -> Places]
      /\ finished' = finished /\ aborted' = aborted
  BY <1>1 DEF JobsInv, Places
<1>3. /\ job'[t] = j /\ \A u \in Threads : u # t => job'[u] = job[u]
      /\ pc'[t] = x /\ \A u \in Threads : u # t => pc'[u] = pc[u]
  BY DEF JobsInv
<1>4. \A u \in Threads : job[u] # j
  BY <1>1 DEF JobsInv, OnePlace
<1>5. OnePlace'
  <2>1. ASSUME NEW u \in Threads, job'[u] # NoJob
        PROVE  /\ job'[u] \notin Queued' \cup finished' \cup aborted'
               /\ \A v \in Threads : job'[v] = job'[u] => v = u
    <3>1. CASE u = t
      BY <1>2, <1>3, <1>4, <3>1 DEF JobsInv, OnePlace
    <3>2. CASE u # t
      <4>1. job'[u] = job[u] /\ job[u] # NoJob
        BY <1>3, <2>1, <3>2
      <4>2. job[u] \notin Queued \cup finished \cup aborted
        BY <4>1 DEF JobsInv, OnePlace
      <4>3. \A v \in Threads : job[v] = job[u] => v = u
        BY <4>1 DEF JobsInv, OnePlace
      <4> QED
        BY <1>2, <1>3, <1>4, <4>1, <4>2, <4>3
    <3> QED
      BY <3>1, <3>2
  <2>2. \A u \in Threads : job'[u] # NoJob <=> pc'[u] \in {"working", "aborting"}
    BY <1>1, <1>3 DEF JobsInv, OnePlace
  <2>3. /\ Queued' \cap finished' = {} /\ Queued' \cap aborted' = {}
        /\ finished' \cap aborted' = {}
    BY <1>2 DEF JobsInv, OnePlace
  <2> QED
    BY <2>1, <2>2, <2>3 DEF OnePlace
<1>6. m_jobCount' = Cardinality(Queued') /\ m_jobCount' \in Nat
  <2>1. /\ IsFiniteSet(Queued \ {j})
        /\ Cardinality(Queued \ {j}) = Cardinality(Queued) - 1
    BY <1>1, FS_RemoveElement
  <2>2. Cardinality(Queued \ {j}) \in Nat
    BY <2>1, FS_CardinalityType
  <2> QED
    BY <2>1, <2>2 DEF JobsInv, Counted
<1>7. /\ m_workerCount' = Cardinality({u \in Threads : job'[u] # NoJob})
      /\ m_workerCount' \in Nat
  <2> DEFINE A == {u \in Threads : job[u] # NoJob}
             B == {u \in Threads : job'[u] # NoJob}
  <2>1. B = A \cup {t} /\ t \notin A /\ A \in SUBSET Threads
    BY <1>1, <1>3
  <2>2. m_workerCount = Cardinality(A) /\ m_workerCount \in Nat
    BY DEF JobsInv, Counted
  <2> HIDE DEF A, B
  <2>3. IsFiniteSet(A)
    BY <2>1, FiniteThreads, FS_Subset
  <2>4. Cardinality(A \cup {t}) = Cardinality(A) + 1
    BY <2>1, <2>3, FS_AddElement
  <2>5. m_workerCount' = Cardinality(B) /\ m_workerCount' \in Nat
    BY <2>1, <2>2, <2>4
  <2> QED
    BY <2>5 DEF B
<1> QED
  BY <1>2, <1>5, <1>6, <1>7 DEF JobsInv, Counted

\* A thread is done with its job.
LEMMA FinishStep ==
  ASSUME JobsInv, NEW t \in Threads, finishJob(t)
  PROVE  JobsInv'
<1> DEFINE j == job[t]
<1>1. j \in Jobs /\ j # NoJob /\ pc[t] \in {"working", "aborting"}
  BY DEF finishJob, JobsInv, OnePlace
<1>2. /\ j \notin Queued /\ j \notin finished /\ j \notin aborted
      /\ \A u \in Threads : job[u] = j => u = t
  BY <1>1 DEF JobsInv, OnePlace
<1>3. /\ m_jobQueues' = m_jobQueues /\ m_jobCount' = m_jobCount /\ Queued' = Queued
      /\ m_workerCount' = m_workerCount - 1
  BY DEF finishJob, queueVars, Queued
<1>4. /\ job' \in [Threads -> Jobs \cup {NoJob}] /\ pc' \in [Threads -> Places]
      /\ job'[t] = NoJob /\ \A u \in Threads : u # t => job'[u] = job[u]
      /\ pc'[t] \notin {"working", "aborting"}
      /\ \A u \in Threads : u # t => pc'[u] = pc[u]
  BY DEF finishJob, JobsInv, Places
<1>5. \/ finished' = finished \cup {j} /\ aborted' = aborted
      \/ finished' = finished /\ aborted' = aborted \cup {j}
  BY <1>1 DEF finishJob
<1> HIDE DEF j
<1>6. OnePlace'
  <2>1. ASSUME NEW u \in Threads, job'[u] # NoJob
        PROVE  /\ job'[u] \notin Queued' \cup finished' \cup aborted'
               /\ \A v \in Threads : job'[v] = job'[u] => v = u
    <3>1. u # t /\ job'[u] = job[u] /\ job[u] # NoJob
      BY <1>4, <2>1
    <3>2. job[u] \notin Queued \cup finished \cup aborted /\ job[u] # j
      BY <1>2, <3>1 DEF JobsInv, OnePlace
    <3>3. \A v \in Threads : job[v] = job[u] => v = u
      BY <3>1 DEF JobsInv, OnePlace
    <3> QED
      BY <1>3, <1>4, <1>5, <2>1, <3>1, <3>2, <3>3
  <2>2. \A u \in Threads : job'[u] # NoJob <=> pc'[u] \in {"working", "aborting"}
    BY <1>4 DEF JobsInv, OnePlace
  <2>3. /\ Queued' \cap finished' = {} /\ Queued' \cap aborted' = {}
        /\ finished' \cap aborted' = {}
    BY <1>2, <1>3, <1>5 DEF JobsInv, OnePlace
  <2>4. Separate(m_jobQueues')
    BY <1>3 DEF JobsInv, OnePlace
  <2> QED
    BY <2>1, <2>2, <2>3, <2>4 DEF OnePlace
<1>7. /\ m_workerCount' = Cardinality({u \in Threads : job'[u] # NoJob})
      /\ m_workerCount' \in Nat
  <2> DEFINE A == {u \in Threads : job[u] # NoJob}
             B == {u \in Threads : job'[u] # NoJob}
  <2>1. B = A \ {t} /\ t \in A /\ A \in SUBSET Threads
    BY <1>1, <1>4 DEF j
  <2>2. m_workerCount = Cardinality(A)
    BY DEF JobsInv, Counted
  <2> HIDE DEF A, B
  <2>3. IsFiniteSet(A)
    BY <2>1, FiniteThreads, FS_Subset
  <2>4. IsFiniteSet(A \ {t}) /\ Cardinality(A \ {t}) = Cardinality(A) - 1
    BY <2>1, <2>3, FS_RemoveElement
  <2>5. Cardinality(A \ {t}) \in Nat
    BY <2>4, FS_CardinalityType
  <2>6. m_workerCount' = Cardinality(B) /\ m_workerCount' \in Nat
    BY <1>3, <2>1, <2>2, <2>4, <2>5
  <2> QED
    BY <2>6 DEF B
<1>8. finished' \subseteq Jobs /\ aborted' \subseteq Jobs
  BY <1>1, <1>5 DEF JobsInv
<1> QED
  BY <1>3, <1>4, <1>6, <1>7, <1>8 DEF JobsInv, Counted

\* A job is enqueued.
LEMMA EnqueueStep ==
  ASSUME JobsInv, NEW j \in Jobs, NEW p \in Priorities, NEW eager, enqueue(j, p, eager)
  PROVE  JobsInv'
<1>1. /\ j \notin Queued /\ j \notin finished /\ j \notin aborted
      /\ \A t \in Threads : job[t] # j
  BY DEF enqueue, Seen
<1>2. /\ UNCHANGED <<job, pc, finished, aborted, m_workerCount>>
      /\ m_jobCount' = m_jobCount + 1
  BY DEF enqueue, threadVars, outcomeVars
<1>3. /\ m_jobQueues' \in [Priorities -> Seq(Jobs)] /\ Separate(m_jobQueues')
      /\ Queued' = Queued \cup {j}
  <2> DEFINE s == m_jobQueues[p]  l == Append(s, j)
  <2>1. s \in Seq(Jobs) /\ IsInjective(s) /\ j \notin ToSet(s)
    BY <1>1 DEF JobsInv, OnePlace, Separate, Queued
  <2>2. m_jobQueues' = [m_jobQueues EXCEPT ![p] = l]
    BY DEF enqueue
  <2>3. l \in Seq(Jobs) /\ IsInjective(l) /\ ToSet(l) = ToSet(s) \cup {j}
    <3> HIDE DEF s
    <3> QED
      BY <2>1, AppendEffect
  <2> HIDE DEF l
  <2>4. m_jobQueues \in [Priorities -> Seq(Jobs)] /\ Separate(m_jobQueues)
    BY DEF JobsInv, OnePlace
  <2> QED
    BY <1>1, <2>2, <2>3, <2>4, EnqueueEffect
<1>4. j # NoJob
  BY JobQueueAssumption
<1>5. OnePlace'
  <2>1. \A t \in Threads :
          job[t] # NoJob => job[t] \notin Queued \cup {j} \cup finished \cup aborted
    BY <1>1 DEF JobsInv, OnePlace
  <2>2. /\ (Queued \cup {j}) \cap finished = {} /\ (Queued \cup {j}) \cap aborted = {}
    BY <1>1 DEF JobsInv, OnePlace
  <2> QED
    BY <1>2, <1>3, <2>1, <2>2 DEF JobsInv, OnePlace
<1>6. m_jobCount' = Cardinality(Queued') /\ m_jobCount' \in Nat
  <2>1. IsFiniteSet(Queued)
    BY QueuedType DEF JobsInv
  <2>2. Cardinality(Queued \cup {j}) = Cardinality(Queued) + 1
    BY <1>1, <2>1, FS_AddElement
  <2> QED
    BY <1>2, <1>3, <2>2 DEF JobsInv, Counted
<1> QED
  BY <1>2, <1>3, <1>5, <1>6 DEF JobsInv, Counted

\* What a worker takes, and what that leaves.
LEMMA WorkerTakes ==
  ASSUME JobsInv, NEW w \in Workers, dequeue(w)
  PROVE  \E j \in Queued, x \in {"working", "aborting"} :
           /\ m_jobQueues' \in [Priorities -> Seq(Jobs)] /\ Separate(m_jobQueues')
           /\ Queued' = Queued \ {j}
           /\ job' = [job EXCEPT ![w] = j] /\ pc' = [pc EXCEPT ![w] = x]
           /\ x = "aborting" => j \in now[w]
<1>1. PICK p \in Priorities : \E n \in 1..Len(m_jobQueues[p]) : \E isExpired \in BOOLEAN :
         /\ TakesFrom(w, p, n, isExpired)
         /\ job' = [job EXCEPT ![w] = m_jobQueues[p][n]]
         /\ m_jobQueues' = [m_jobQueues EXCEPT ![p] = RemoveAt(@, n)]
         /\ pc' = [pc EXCEPT ![w] = IF isExpired THEN "aborting" ELSE "working"]
  BY DEF dequeue
<1>2. PICK n \in 1..Len(m_jobQueues[p]), isExpired \in BOOLEAN :
         /\ TakesFrom(w, p, n, isExpired)
         /\ job' = [job EXCEPT ![w] = m_jobQueues[p][n]]
         /\ m_jobQueues' = [m_jobQueues EXCEPT ![p] = RemoveAt(@, n)]
         /\ pc' = [pc EXCEPT ![w] = IF isExpired THEN "aborting" ELSE "working"]
  BY <1>1
<1> DEFINE s == m_jobQueues[p]
           j == s[n]
           l == RemoveAt(s, n)
           x == IF isExpired THEN "aborting" ELSE "working"
<1>3. s \in Seq(Jobs) /\ IsInjective(s) /\ n \in 1..Len(s)
  BY DEF JobsInv, OnePlace, Separate
<1>4. m_jobQueues' = [m_jobQueues EXCEPT ![p] = l]
  BY <1>2
<1>5. isExpired => j \in now[w]
  <2>1. isExpired => n = 1 /\ Head(s) \in now[w]
    BY <1>2 DEF TakesFrom
  <2>2. s # <<>> /\ Head(s) = s[1]
    BY <1>3
  <2> QED
    BY <2>1, <2>2
<1>6. x \in {"working", "aborting"} /\ (x = "aborting" => j \in now[w])
  BY <1>5
<1>7. job' = [job EXCEPT ![w] = j] /\ pc' = [pc EXCEPT ![w] = x]
  BY <1>2
<1>8. /\ l \in Seq(Jobs) /\ IsInjective(l) /\ ToSet(l) = ToSet(s) \ {j}
      /\ j \in ToSet(s)
  <2> HIDE DEF s
  <2>1. j \in ToSet(s)
    BY <1>3 DEF ToSet
  <2> QED
    BY <1>3, <2>1, TakeOutEffect
<1> HIDE DEF l, j, x
<1>9. /\ m_jobQueues' \in [Priorities -> Seq(Jobs)] /\ Separate(m_jobQueues')
      /\ j \in Queued /\ Queued' = Queued \ {j}
  <2>1. m_jobQueues \in [Priorities -> Seq(Jobs)] /\ Separate(m_jobQueues)
    BY DEF JobsInv, OnePlace
  <2> QED
    BY <1>4, <1>8, <2>1, DequeueEffect
<1> QED
  BY <1>6, <1>7, <1>9

\* What the reaper takes.
LEMMA ReaperTakes ==
  ASSUME JobsInv, reaperDequeue
  PROVE  \E j \in Queued :
           /\ m_jobQueues' \in [Priorities -> Seq(Jobs)] /\ Separate(m_jobQueues')
           /\ Queued' = Queued \ {j}
           /\ job' = [job EXCEPT ![Reaper] = j]
           /\ j \in expired
<1>1. PICK p \in Priorities :
         /\ ExpiredFront(p)
         /\ job' = [job EXCEPT ![Reaper] = Head(m_jobQueues[p])]
         /\ m_jobQueues' = [m_jobQueues EXCEPT ![p] = Tail(@)]
  BY DEF reaperDequeue
<1> DEFINE s == m_jobQueues[p]  j == Head(s)  l == Tail(s)
<1>2. s \in Seq(Jobs) /\ IsInjective(s) /\ s # <<>> /\ j \in expired
  BY <1>1 DEF JobsInv, OnePlace, Separate, ExpiredFront
<1>3. m_jobQueues' = [m_jobQueues EXCEPT ![p] = l] /\ job' = [job EXCEPT ![Reaper] = j]
  BY <1>1
<1>4. /\ l \in Seq(Jobs) /\ IsInjective(l) /\ ToSet(l) = ToSet(s) \ {j}
      /\ j \in ToSet(s)
  <2> HIDE DEF s
  <2> QED
    BY <1>2, TailEffect
<1> HIDE DEF l, j
<1>5. /\ m_jobQueues' \in [Priorities -> Seq(Jobs)] /\ Separate(m_jobQueues')
      /\ j \in Queued /\ Queued' = Queued \ {j}
  <2>1. m_jobQueues \in [Priorities -> Seq(Jobs)] /\ Separate(m_jobQueues)
    BY DEF JobsInv, OnePlace
  <2> QED
    BY <1>3, <1>4, <2>1, DequeueEffect
<1> QED
  BY <1>2, <1>3, <1>5

\* Jobs stay at one place, and the counters count them.
LEMMA JobsStep ==
  ASSUME IInv, [Next]_vars
  PROVE  JobsInv'
<1>1. JobsInv
  BY DEF IInv, JobsInv, TypeOK
<1>2. CASE ~Moves
  <2>1. /\ UNCHANGED <<m_jobQueues, m_jobCount, m_workerCount, job, outcomeVars>>
        /\ pc' \in [Threads -> Places]
        /\ \A t \in Threads, x \in {"working", "aborting"} : pc'[t] = x <=> pc[t] = x
    BY <1>2, JobsKept
  <2>2. OnePlace'
    BY <1>1, <2>1 DEF JobsInv, OnePlace, Queued, outcomeVars
  <2> QED
    BY <1>1, <2>1, <2>2 DEF JobsInv, Counted, Queued, outcomeVars
<1>3. ASSUME NEW w \in Workers, dequeue(w) PROVE JobsInv'
  <2>1. w \in Threads /\ job[w] = NoJob
    BY <1>1, <1>3 DEF dequeue, JobsInv, OnePlace, Threads
  <2>2. PICK j \in Queued, x \in {"working", "aborting"} :
           /\ m_jobQueues' \in [Priorities -> Seq(Jobs)] /\ Separate(m_jobQueues')
           /\ Queued' = Queued \ {j}
           /\ job' = [job EXCEPT ![w] = j] /\ pc' = [pc EXCEPT ![w] = x]
    BY <1>1, <1>3, WorkerTakes
  <2>3. /\ m_workerCount' = m_workerCount + 1 /\ m_jobCount' = m_jobCount - 1
        /\ UNCHANGED outcomeVars
    BY <1>3 DEF dequeue
  <2> QED
    BY <1>1, <2>1, <2>2, <2>3, TakeStep
<1>4. CASE reaperDequeue
  <2>1. Reaper \in Threads /\ job[Reaper] = NoJob
    BY <1>1, <1>4 DEF reaperDequeue, JobsInv, OnePlace, Threads
  <2>2. PICK j \in Queued :
           /\ m_jobQueues' \in [Priorities -> Seq(Jobs)] /\ Separate(m_jobQueues')
           /\ Queued' = Queued \ {j}
           /\ job' = [job EXCEPT ![Reaper] = j]
    BY <1>1, <1>4, ReaperTakes
  <2>3. /\ m_workerCount' = m_workerCount + 1 /\ m_jobCount' = m_jobCount - 1
        /\ pc' = [pc EXCEPT ![Reaper] = "aborting"]
        /\ UNCHANGED outcomeVars
    BY <1>4 DEF reaperDequeue
  <2> QED
    BY <1>1, <2>1, <2>2, <2>3, TakeStep
<1> QED
  BY <1>1, <1>2, <1>3, <1>4, EnqueueStep, FinishStep DEF Moves

\* Only what has expired is aborted.
LEMMA LateStep ==
  ASSUME IInv, [Next]_vars
  PROVE  Late'
<1>1. /\ JobsInv /\ Late /\ expired \subseteq Jobs /\ now \in [Threads -> SUBSET Jobs]
      /\ pc \in [Threads -> Places] /\ job \in [Threads -> Jobs \cup {NoJob}]
  BY DEF IInv, JobsInv, TypeOK
<1>2. Workers \subseteq Threads /\ (HasReaper => Reaper \in Threads)
  BY DEF Threads
<1>3. expired \subseteq expired' /\ \A t \in Threads : now'[t] \subseteq expired'
  <2>1. CASE \E w \in Workers : startDequeue(w)
    BY <1>1, <1>2, <2>1 DEF startDequeue, Late
  <2>2. CASE \E j \in Jobs : expire(j)
    BY <1>1, <2>2 DEF expire, Late, threadVars
  <2>3. CASE UNCHANGED <<now, expired>>
    BY <1>1, <2>3 DEF Late
  <2>4. CASE \/ \E j \in Jobs, p \in Priorities, eager \in EagerNotify : enqueue(j, p, eager)
             \/ stop
             \/ \E num \in Limits : notifyNewStatus(num)
             \/ \E target \in Targets : releaseQueuedJobs(target)
             \/ releaseNotifies
             \/ waitEmpty
             \/ ReaperStep
             \/ Shrink
             \/ UNCHANGED vars
    <3>1. UNCHANGED <<now, expired>>
      BY <2>4 DEF enqueue, stop, notifyNewStatus, updateMaxActiveWorkers, releaseQueuedJobs, releaseNotifies,
         waitEmpty, ReaperStep, reaperDequeue, reaperWait, reaperStops, reaperNotified,
         reaperTimedOut, Shrink, stopWorker, notifySpecificSignal, notifySpecificUnlink,
         threadVars, vars
    <3> QED
      BY <2>3, <3>1
  <2>5. ASSUME NEW w \in Workers, Worker(w), ~startDequeue(w) PROVE UNCHANGED <<now, expired>>
    BY <2>5 DEF Worker, stopSignal, dequeue, flushAtOnce, checkedMustWait, wait,
       waitReturns, waitTimedOut
  <2>6. ASSUME NEW t \in Threads,
               spuriousWakeUp(t) \/ timeout(t) \/ finishJob(t) \/ signalEmpty(t)
        PROVE  UNCHANGED <<now, expired>>
    BY <2>6 DEF spuriousWakeUp, timeout, finishJob, signalEmpty, threadVars
  <2> QED
    BY <2>1, <2>2, <2>3, <2>4, <2>5, <2>6 DEF Next
<1>4. /\ aborted' \subseteq expired'
      /\ \A t \in Threads : pc'[t] = "aborting" => job'[t] \in expired'
  <2>1. CASE ~Moves
    <3>1. /\ UNCHANGED <<job, aborted>>
          /\ \A t \in Threads : pc'[t] = "aborting" <=> pc[t] = "aborting"
      BY <2>1, JobsKept DEF outcomeVars
    <3> QED
      BY <1>1, <1>3, <3>1 DEF Late
  <2>2. CASE \E j \in Jobs, p \in Priorities, eager \in EagerNotify : enqueue(j, p, eager)
    <3>1. UNCHANGED <<job, pc, aborted>>
      BY <2>2 DEF enqueue, threadVars, outcomeVars
    <3> QED
      BY <1>1, <1>3, <3>1 DEF Late
  <2>3. ASSUME NEW w \in Workers, dequeue(w)
        PROVE  /\ aborted' \subseteq expired'
               /\ \A t \in Threads : pc'[t] = "aborting" => job'[t] \in expired'
    <3>1. PICK j \in Queued, x \in {"working", "aborting"} :
             /\ job' = [job EXCEPT ![w] = j] /\ pc' = [pc EXCEPT ![w] = x]
             /\ x = "aborting" => j \in now[w]
      BY <1>1, <2>3, WorkerTakes
    <3>2. UNCHANGED aborted
      BY <2>3 DEF dequeue, outcomeVars
    <3> QED
      BY <1>1, <1>2, <1>3, <3>1, <3>2 DEF Late
  <2>4. CASE reaperDequeue
    <3>1. PICK j \in Queued : job' = [job EXCEPT ![Reaper] = j] /\ j \in expired
      BY <1>1, <2>4, ReaperTakes
    <3>2. UNCHANGED aborted /\ pc' = [pc EXCEPT ![Reaper] = "aborting"]
      BY <2>4 DEF reaperDequeue, outcomeVars
    <3> QED
      BY <1>1, <1>3, <3>1, <3>2 DEF Late
  <2>5. ASSUME NEW t \in Threads, finishJob(t)
        PROVE  /\ aborted' \subseteq expired'
               /\ \A u \in Threads : pc'[u] = "aborting" => job'[u] \in expired'
    <3>1. aborted' \subseteq expired'
      BY <1>1, <1>3, <2>5 DEF finishJob, Late
    <3>2. ASSUME NEW u \in Threads, pc'[u] = "aborting" PROVE job'[u] \in expired'
      <4>1. u # t /\ pc[u] = "aborting" /\ job'[u] = job[u]
        BY <1>1, <2>5, <3>2 DEF finishJob
      <4> QED
        BY <1>1, <1>3, <4>1 DEF Late
    <3> QED
      BY <3>1, <3>2
  <2> QED
    BY <2>1, <2>2, <2>3, <2>4, <2>5 DEF Moves
<1> QED
  BY <1>3, <1>4 DEF Late

\* The parts of TypeOK that the other lemmas say nothing about.
RestType ==
  /\ m_stopped \in BOOLEAN
  /\ m_maxActiveWorkers \in 0..Unlimited
  /\ mutex \in Threads \cup {NoThread}
  /\ expired \subseteq Jobs
  /\ flushed \in [Threads -> BOOLEAN]
  /\ now \in [Threads -> SUBSET Jobs]
  /\ workerStop \in [Workers -> BOOLEAN]
  /\ releasing \in Targets \cup {NoTarget, Due}
  /\ shrinking \in [worker : Workers \cup {NoThread},
                    step : {"none", "signal", "unlink"}]
  /\ waiter \in {"none", "blocked", "signaled", "returned"}

\* TypeOK by parts.
LEMMA TypeParts ==
  TypeOK <=> RestType /\ monitor.group \in Groups
               /\ monitor.high \in [Groups -> Seq(Threads)]
               /\ monitor.midLow \in [Groups -> Seq(Threads)]
               /\ monitor.blocked \subseteq Threads
               /\ m_jobQueues \in [Priorities -> Seq(Jobs)]
               /\ job \in [Threads -> Jobs \cup {NoJob}] /\ pc \in [Threads -> Places]
               /\ finished \subseteq Jobs /\ aborted \subseteq Jobs
               /\ m_jobCount \in Nat /\ m_workerCount \in Nat
BY DEF TypeOK, RestType, Groups

\* They keep their types.
LEMMA RestStep ==
  ASSUME IInv, [Next]_vars
  PROVE  RestType'
<1>1. RestType /\ m_jobCount \in Nat
  BY DEF IInv, TypeOK, RestType
<1>2. /\ Workers \subseteq Threads /\ (HasReaper => Reaper \in Threads)
      /\ Stoppable \subseteq Workers /\ Limits \subseteq 0..Unlimited
  BY JobQueueAssumption DEF Threads
<1> USE DEF queueVars, threadVars, controlVars, outcomeVars
<1>3. CASE \E j \in Jobs, p \in Priorities, eager \in EagerNotify : enqueue(j, p, eager)
  BY <1>1, <1>3 DEF RestType, enqueue
<1>4. CASE \E j \in Jobs : expire(j)
  BY <1>1, <1>4 DEF RestType, expire
<1>5. CASE stop
  BY <1>1, <1>5 DEF RestType, stop
<1>6. CASE \E num \in Limits : notifyNewStatus(num)
  BY <1>1, <1>2, <1>6 DEF RestType, notifyNewStatus, updateMaxActiveWorkers
<1>7. CASE \E target \in Targets : releaseQueuedJobs(target)
  BY <1>1, <1>7 DEF RestType, releaseQueuedJobs
<1>8. CASE releaseNotifies
  BY <1>1, <1>8 DEF RestType, releaseNotifies
<1>9. CASE waitEmpty
  BY <1>1, <1>9 DEF RestType, waitEmpty
<1>10. ASSUME NEW w \in Workers, Worker(w) PROVE RestType'
  <2>1. CASE startDequeue(w)
    <3>1. now' \in [Threads -> SUBSET Jobs] /\ flushed' \in [Threads -> BOOLEAN]
      <4>1. w \in Threads
        BY <1>2
      <4> QED
        BY <1>1, <2>1, <4>1 DEF RestType, startDequeue
    <3> QED
      BY <1>1, <2>1, <3>1 DEF RestType, startDequeue
  <2>2. CASE stopSignal(w)
    BY <1>1, <2>2 DEF RestType, stopSignal
  <2>3. CASE dequeue(w)
    BY <1>1, <2>3 DEF RestType, dequeue
  <2>4. CASE flushAtOnce(w)
    BY <1>1, <1>2, <2>4 DEF RestType, flushAtOnce
  <2>5. CASE checkedMustWait(w)
    BY <1>1, <1>2, <2>5 DEF RestType, checkedMustWait
  <2>6. CASE wait(w)
    BY <1>1, <2>6 DEF RestType, wait
  <2>7. CASE waitReturns(w)
    BY <1>1, <1>2, <2>7 DEF RestType, waitReturns
  <2>8. CASE waitTimedOut(w)
    <3>1. (m_jobCount = 0) \in BOOLEAN
      OBVIOUS
    <3> QED
      BY <1>1, <1>2, <2>8, <3>1 DEF RestType, waitTimedOut
  <2> QED
    BY <1>10, <2>1, <2>2, <2>3, <2>4, <2>5, <2>6, <2>7, <2>8 DEF Worker
<1>11. ASSUME NEW t \in Threads, spuriousWakeUp(t) \/ timeout(t) \/ finishJob(t) \/ signalEmpty(t)
       PROVE  RestType'
  BY <1>1, <1>11 DEF RestType, spuriousWakeUp, timeout, finishJob, signalEmpty
<1>12. CASE ReaperStep
  BY <1>1, <1>2, <1>12 DEF RestType, ReaperStep, reaperDequeue, reaperWait, reaperStops,
                           reaperNotified, reaperTimedOut
<1>13. CASE \E w \in Stoppable : stopWorker(w)
  BY <1>1, <1>2, <1>13 DEF RestType, stopWorker
<1>14. CASE notifySpecificSignal
  BY <1>1, <1>14 DEF RestType, notifySpecificSignal
<1>15. CASE notifySpecificUnlink
  BY <1>1, <1>15 DEF RestType, notifySpecificUnlink
<1>16. CASE UNCHANGED vars
  BY <1>1, <1>16 DEF RestType, vars
<1> QED
  BY <1>3, <1>4, <1>5, <1>6, <1>7, <1>8, <1>9, <1>10, <1>11, <1>12, <1>13, <1>14, <1>15,
     <1>16 DEF Next, Shrink

-----------------------------------------------------------------------------
\* The invariant holds at first,
LEMMA InitIsFine ==
  ASSUME Init PROVE IInv
<1>1. /\ 0 \in Groups /\ Unlimited \in Nat /\ NoJob \notin Jobs
  BY JobQueueAssumption DEF Groups
<1> DEFINE e == [g \in Groups |-> <<>>]
<1>2. e \in [Groups -> Seq(Threads)] /\ \A g \in Groups : e[g] = <<>>
  OBVIOUS
<1>3. /\ monitor = [group |-> 0, high |-> e, midLow |-> e, blocked |-> {}]
  BY DEF Init, EmptyMonitor, Groups
<1> HIDE DEF e
<1>4. monitor \in Monitors /\ monitor.high = e /\ monitor.midLow = e /\ monitor.blocked = {}
  BY <1>1, <1>2, <1>3 DEF Monitors
<1>5. Apart(monitor)
  BY <1>2, <1>4 DEF Apart, IsInjective, ToSet
<1>6. Found
  BY <1>4 DEF Init, Found
<1>7. m_jobQueues \in [Priorities -> Seq(Jobs)] /\ \A p \in Priorities : m_jobQueues[p] = <<>>
  BY DEF Init
<1>8. Queued = {} /\ Separate(m_jobQueues)
  BY <1>7 DEF Queued, Separate, IsInjective, ToSet
<1>9. {t \in Threads : job[t] # NoJob} = {}
  BY DEF Init
<1>10. OnePlace
  BY <1>8 DEF Init, OnePlace
<1>11. Counted
  BY <1>8, <1>9, FS_EmptySet DEF Init, Counted
<1>12. Late
  BY DEF Init, Late
<1>13. RestType
  <2>1. m_maxActiveWorkers \in 0..Unlimited
    BY <1>1 DEF Init
  <2>2. /\ flushed \in [Threads -> BOOLEAN] /\ now \in [Threads -> SUBSET Jobs]
        /\ workerStop \in [Workers -> BOOLEAN]
    BY DEF Init
  <2>3. shrinking \in [worker : Workers \cup {NoThread}, step : {"none", "signal", "unlink"}]
    BY DEF Init
  <2>4. /\ m_stopped \in BOOLEAN /\ mutex \in Threads \cup {NoThread} /\ expired \subseteq Jobs
        /\ releasing \in Targets \cup {NoTarget, Due}
        /\ waiter \in {"none", "blocked", "signaled", "returned"}
    BY DEF Init
  <2> QED
    BY <2>1, <2>2, <2>3, <2>4 DEF RestType
<1>14. TypeOK
  <2>1. pc \in [Threads -> Places] /\ job \in [Threads -> Jobs \cup {NoJob}]
    BY DEF Init, Places
  <2>2. m_jobCount \in Nat /\ m_workerCount \in Nat /\ finished \subseteq Jobs /\ aborted \subseteq Jobs
    BY DEF Init
  <2>3. /\ monitor.group \in Groups /\ monitor.high \in [Groups -> Seq(Threads)]
        /\ monitor.midLow \in [Groups -> Seq(Threads)] /\ monitor.blocked \subseteq Threads
    BY <1>4 DEF Monitors
  <2> QED
    BY <1>7, <1>13, <2>1, <2>2, <2>3, TypeParts
<1> QED
  BY <1>4, <1>5, <1>6, <1>10, <1>11, <1>12, <1>14 DEF IInv

\* and every step keeps it.
LEMMA StepIsFine ==
  ASSUME IInv, [Next]_vars PROVE IInv'
<1>1. monitor' \in Monitors /\ Apart(monitor') /\ Found'
  BY FoundStep
<1>2. JobsInv'
  BY JobsStep
<1>3. Late' /\ RestType'
  BY LateStep, RestStep
<1>4. TypeOK'
  BY <1>1, <1>2, <1>3 DEF JobsInv, TypeOK, RestType, Monitors, Groups
<1> QED
  BY <1>1, <1>2, <1>3, <1>4 DEF IInv, JobsInv

\* IInv is inductive: no schedule of workers, reaper, clients, limits and stops
\* of JobQueue leads out of it.
THEOREM Invariant == Spec => []IInv
<1>1. Init => IInv
  BY InitIsFine
<1>2. IInv /\ [Next]_vars => IInv'
  BY StepIsFine
<1> QED
  BY <1>1, <1>2, PTL DEF Spec

\* TypeOK: the job queue's and its threads' state keeps its types.
THEOREM TypeCorrect == Spec => []TypeOK
<1>1. IInv => TypeOK
  BY DEF IInv
<1> QED
  BY <1>1, Invariant, PTL

\* BlockedIsLinked: whatever wakes the threads of SynchronizableMulti up early,
\* notify finds every blocked thread that was not told to stop, once.
THEOREM BlockedIsAlwaysLinked == Spec => []BlockedIsLinked
<1>1. IInv => BlockedIsLinked
  <2> SUFFICES ASSUME IInv PROVE BlockedIsLinked
    OBVIOUS
  <2>1. \A g \in Groups : IsInjective(Waiting(monitor, g))
    BY WaitingIsInjective DEF IInv
  <2> QED
    BY <2>1 DEF IInv, Found, BlockedIsLinked, Groups
<1> QED
  BY <1>1, Invariant, PTL

\* AbortsOnlyExpired: workers and reaper abort only jobs that have been queued
\* for too long.
THEOREM AbortsAreLate == Spec => []AbortsOnlyExpired
<1>1. IInv => AbortsOnlyExpired
  BY DEF IInv, Late, AbortsOnlyExpired
<1> QED
  BY <1>1, Invariant, PTL

\* A set with at most one element.
LEMMA AtMostOne ==
  ASSUME NEW S, \A x, y \in S : x = y
  PROVE  /\ Cardinality(S) \in {0, 1}
         /\ S = {} => Cardinality(S) = 0
<1>1. CASE S = {}
  BY <1>1, FS_EmptySet
<1>2. CASE S # {}
  <2>1. PICK x : x \in S
    BY <1>2
  <2>2. S = {x}
    BY <2>1
  <2> QED
    BY <2>2, FS_Singleton, <1>2
<1> QED
  BY <1>1, <1>2

\* CountsAgree: m_jobCount and m_workerCount count, and no job of the queue is
\* lost, run twice, or both run and aborted.
THEOREM CountersAgree == Spec => []CountsAgree
<1>1. IInv => CountsAgree
  <2> SUFFICES ASSUME IInv PROVE CountsAgree
    OBVIOUS
  <2>1. /\ m_jobQueues \in [Priorities -> Seq(Jobs)] /\ OnePlace /\ Counted
        /\ \A p \in Priorities : Len(m_jobQueues[p]) \in Nat
    BY DEF IInv, TypeOK
  <2>2. Queued = {j \in Jobs : \E p \in Priorities : j \in ToSet(m_jobQueues[p])}
    <3>1. Queued \subseteq Jobs
      BY <2>1, QueuedType
    <3> QED
      BY <3>1 DEF Queued
  <2>3. ASSUME NEW j \in Jobs PROVE TimesHeld(j) <= 1
    <3> DEFINE A == {x \in Priorities \X (1..Cardinality(Jobs)) :
                       x[2] <= Len(m_jobQueues[x[1]]) /\ m_jobQueues[x[1]][x[2]] = j}
               B == {t \in Threads : job[t] = j}
               C == {j} \cap finished
               D == {j} \cap aborted
    <3>1. j # NoJob
      BY JobQueueAssumption
    <3>2. ASSUME NEW x \in A
          PROVE  /\ x[1] \in Priorities /\ x[2] \in 1..Len(m_jobQueues[x[1]])
                 /\ m_jobQueues[x[1]][x[2]] = j /\ j \in ToSet(m_jobQueues[x[1]])
                 /\ j \in Queued /\ x = <<x[1], x[2]>>
      <4>1. /\ x[1] \in Priorities /\ x[2] \in 1..Cardinality(Jobs) /\ x = <<x[1], x[2]>>
            /\ x[2] <= Len(m_jobQueues[x[1]]) /\ m_jobQueues[x[1]][x[2]] = j
        OBVIOUS
      <4>2. x[2] \in 1..Len(m_jobQueues[x[1]])
        BY <2>1, <4>1
      <4>3. j \in ToSet(m_jobQueues[x[1]])
        BY <2>1, <4>1, <4>2 DEF ToSet
      <4>4. j \in Queued
        BY <4>1, <4>3 DEF Queued
      <4> QED
        BY <4>1, <4>2, <4>3, <4>4
    <3>3. ASSUME NEW x \in A, NEW y \in A PROVE x = y
      <4>1. /\ x[1] \in Priorities /\ x[2] \in 1..Len(m_jobQueues[x[1]])
            /\ m_jobQueues[x[1]][x[2]] = j /\ j \in ToSet(m_jobQueues[x[1]])
            /\ x = <<x[1], x[2]>>
        BY <3>2
      <4>2. /\ y[1] \in Priorities /\ y[2] \in 1..Len(m_jobQueues[y[1]])
            /\ m_jobQueues[y[1]][y[2]] = j /\ j \in ToSet(m_jobQueues[y[1]])
            /\ y = <<y[1], y[2]>>
        BY <3>2
      <4>3. x[1] = y[1]
        BY <2>1, <4>1, <4>2 DEF OnePlace, Separate
      <4>4. IsInjective(m_jobQueues[x[1]]) /\ m_jobQueues[x[1]] \in Seq(Jobs)
        BY <2>1, <4>1 DEF OnePlace, Separate
      <4>5. x[2] = y[2]
        BY <4>1, <4>2, <4>3, <4>4 DEF IsInjective
      <4> QED
        BY <4>1, <4>2, <4>3, <4>5
    <3>4. \A t, u \in B : t = u
      BY <2>1, <3>1 DEF OnePlace
    <3>5. /\ A # {} => j \in Queued
          /\ B # {} => j \notin Queued \cup finished \cup aborted
          /\ C # {} => j \in finished
          /\ D # {} => j \in aborted
      <4>1. A # {} => j \in Queued
        BY <3>2
      <4>2. B # {} => j \notin Queued \cup finished \cup aborted
        BY <2>1, <3>1 DEF OnePlace
      <4> QED
        BY <4>1, <4>2
    <3>6. /\ j \in Queued => j \notin finished \cup aborted
          /\ j \in finished => j \notin aborted
      BY <2>1 DEF OnePlace
    <3>7. TimesHeld(j) = Cardinality(A) + Cardinality(B) + Cardinality(C) + Cardinality(D)
      BY Zenon DEF TimesHeld
    <3>8. (\A x, y \in C : x = y) /\ (\A x, y \in D : x = y)
      OBVIOUS
    <3> HIDE DEF A, B, C, D
    <3>9. /\ Cardinality(A) \in {0, 1} /\ (A = {} => Cardinality(A) = 0)
          /\ Cardinality(B) \in {0, 1} /\ (B = {} => Cardinality(B) = 0)
          /\ Cardinality(C) \in {0, 1} /\ (C = {} => Cardinality(C) = 0)
          /\ Cardinality(D) \in {0, 1} /\ (D = {} => Cardinality(D) = 0)
      BY <3>3, <3>4, <3>8, AtMostOne
    <3> QED
      BY <3>5, <3>6, <3>7, <3>9
  <2> QED
    BY <2>1, <2>2, <2>3 DEF Counted, CountsAgree
<1> QED
  BY <1>1, Invariant, PTL
=============================================================================
