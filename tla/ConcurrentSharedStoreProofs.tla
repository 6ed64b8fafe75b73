--------------------- MODULE ConcurrentSharedStoreProofs ---------------------
(***************************************************************************)
(* Machine-checked proofs about APC's table, for any numbers of threads,   *)
(* keys and values and any TTLs and clock bound.                           *)
(***************************************************************************)
EXTENDS ConcurrentSharedStore, FiniteSetTheorems, TLAPS

\* Between two steps on an entry a thread remembers its key, and the address
\* of the key it is to take out of m_expSet or has popped.
Located ==
  \A t \in Threads :
    /\ pc[t] \in {"fetch", "defer", "deferWait", "unqueue"} => key[t] \in Keys
    /\ pc[t] \in {"defer", "deferWait", "unqueue", "find", "expire"} =>
         address[t] \in Addrs

\* An entry whose value is in the HotCache knows so: clearValue relies on it.
HotKnown ==
  \A k \in Keys : m_hotMap[k] # None =>
    Present(k) /\ m_vars[k].hotIndex /\ m_hotMap[k] = m_vars[k].data

\* Request t will erase k, or is about to note that.
Claims(t, k) == \/ k \in deferred[t]
                \/ pc[t] \in {"defer", "deferWait"} /\ key[t] = k

\* An entry is either not marked, or marked by a request that will erase it.
Marked(k) ==
  \/ m_vars[k].expireTime # 1 /\ m_vars[k].expireRequestId = None
  \/ /\ m_vars[k].expireTime = 1 /\ m_vars[k].expireRequestId \in Threads
     /\ Claims(m_vars[k].expireRequestId, k)

\* Every entry's mark is in order.
Marks == \A k \in Keys : Present(k) => Marked(k)

\* A string is that of its entry's key, or of one that a single thread has
\* unlinked and will free.
Owned ==
  /\ \A k \in Keys : Present(k) => string[m_vars[k].first] = k
  /\ \A t \in Threads : pc[t] = "unqueue" =>
       /\ string[address[t]] # None
       /\ \A k \in Keys : Present(k) => m_vars[k].first # address[t]
       /\ \A u \in Threads : (pc[u] = "unqueue" /\ address[u] = address[t]) => u = t
  /\ \A a \in Addrs : string[a] # None =>
       \/ Present(string[a]) /\ m_vars[string[a]].first = a
       \/ \E t \in Threads : pc[t] = "unqueue" /\ address[t] = a

\* The inductive invariant.
IInv == TypeOK /\ Located /\ HotKnown /\ Marks /\ Owned

USE StoreAssumption
-----------------------------------------------------------------------------
\* The entries that the operations make of an entry, field by field: what
\* storing makes of it,
LEMMA SetFields ==
  ASSUME NEW sval \in StoreValues, NEW data \in Values, now \in Nat,
         NEW ttl, ttl.bump \in Nat, ttl.max \in Nat, ttl.expire \in Nat
  PROVE  /\ set(sval, data, ttl) \in StoreValues
         /\ set(sval, data, ttl).first = sval.first
         /\ set(sval, data, ttl).data = data
         /\ set(sval, data, ttl).expireRequestId = None
         /\ set(sval, data, ttl).expireTime = Deadline(ttl.expire)
<1>1. Deadline(ttl.expire) \in Nat /\ Deadline(ttl.max) \in Nat
  BY DEF Deadline
<1> QED
  BY <1>1, Zenon DEF set, StoreValues

\* extending its TTL,
LEMMA WithTTLFields ==
  ASSUME NEW sval \in StoreValues, NEW ttl \in Nat, now \in Nat
  PROVE  /\ withTTL(sval, ttl) \in StoreValues
         /\ withTTL(sval, ttl).first = sval.first
         /\ withTTL(sval, ttl).data = sval.data
         /\ withTTL(sval, ttl).hotIndex = sval.hotIndex
         /\ withTTL(sval, ttl).expireRequestId = sval.expireRequestId
         /\ withTTL(sval, ttl).expireTime = Deadline(ttl)
<1>1. Deadline(ttl) \in Nat /\ 0 \in Nat
  BY DEF Deadline
<1> QED
  BY <1>1, Zenon DEF withTTL, StoreValues

\* the first fetch after its deadline,
LEMMA ExpiredForFields ==
  ASSUME NEW sval \in StoreValues, NEW t \in Threads
  PROVE  /\ expiredFor(sval, t) \in StoreValues
         /\ expiredFor(sval, t).first = sval.first
         /\ expiredFor(sval, t).data = sval.data
         /\ expiredFor(sval, t).hotIndex = sval.hotIndex
         /\ expiredFor(sval, t).expireRequestId = t
         /\ expiredFor(sval, t).expireTime = 1
<1>1. 1 \in Nat
  OBVIOUS
<1> QED
  BY <1>1, Zenon DEF expiredFor, StoreValues

\* a fetch before its deadline, which never bumps to the mark's time 1,
LEMMA BumpFields ==
  ASSUME NEW sval \in StoreValues, now \in Nat, now >= 2
  PROVE  /\ bump(sval) \in StoreValues
         /\ bump(sval).first = sval.first
         /\ bump(sval).data = sval.data
         /\ bump(sval).hotIndex = sval.hotIndex
         /\ bump(sval).expireRequestId = sval.expireRequestId
         /\ bump(sval).expireTime = 1 <=> sval.expireTime = 1
<1> DEFINE later == now + sval.bumpTTL
           e == IF later < sval.maxExpireTime THEN later ELSE sval.maxExpireTime
           b == [sval EXCEPT !.expireTime = e]
<1>1. e \in Nat
  BY DEF StoreValues
<1>2. /\ b \in StoreValues /\ b.expireTime = e
      /\ b.first = sval.first /\ b.data = sval.data
      /\ b.hotIndex = sval.hotIndex /\ b.expireRequestId = sval.expireRequestId
  <2> HIDE DEF e
  <2> QED
    BY <1>1 DEF StoreValues
<1>3. bump(sval) = sval \/ (/\ sval.expireTime > 1
                            /\ sval.expireTime < sval.maxExpireTime
                            /\ bump(sval) = b)
  BY DEF bump
<1>4. (sval.expireTime > 1 /\ sval.expireTime < sval.maxExpireTime) => e # 1
  BY DEF StoreValues
<1> HIDE DEF e, b
<1>5. CASE bump(sval) = sval
  BY <1>5
<1>6. CASE sval.expireTime > 1 /\ sval.expireTime < sval.maxExpireTime /\ bump(sval) = b
  <2>1. sval.expireTime # 1
    BY <1>6 DEF StoreValues
  <2> QED
    BY <1>2, <1>4, <1>6, <2>1
<1> QED
  BY <1>3, <1>5, <1>6

\* and putting its value into the HotCache.
LEMMA HotStoreFields ==
  ASSUME NEW sval \in StoreValues
  PROVE  /\ hotStore(sval) \in StoreValues
         /\ hotStore(sval).first = sval.first
         /\ hotStore(sval).data = sval.data
         /\ hotStore(sval).hotIndex
         /\ hotStore(sval).expireRequestId = sval.expireRequestId
         /\ hotStore(sval).expireTime = sval.expireTime
BY DEF hotStore, StoreValues

\* An entry is queued for a time, or not at all (0).
LEMMA QueueExpireType ==
  ASSUME NEW sval \in StoreValues, now \in Nat
  PROVE  queueExpire(sval) \in Nat
<1> DEFINE half == sval.expireTime - (sval.bumpTTL \div 2)
<1>1. half \in Int /\ sval.expireTime \in Nat
  BY DEF StoreValues
<1>2. queueExpire(sval) = sval.expireTime \/ (~(half <= now) /\ queueExpire(sval) = half)
  BY DEF queueExpire
<1> HIDE DEF half
<1> QED
  BY <1>1, <1>2

\* Putting an item into the queue and taking one out.
LEMMA QueueItems ==
  ASSUME NEW B, NEW i, NEW S, BagToSet(B) \subseteq S
  PROVE  /\ i \in S => BagToSet(B (+) SetToBag({i})) \subseteq S
         /\ BagToSet(B (-) SetToBag({i})) \subseteq S
<1>1. i \in S => BagToSet(B (+) SetToBag({i})) \subseteq S
  BY DEF BagToSet, SetToBag, (+)
<1>2. BagToSet(B (-) SetToBag({i})) \subseteq S
  BY DEF BagToSet, SetToBag, (-)
<1> QED
  BY <1>1, <1>2

\* clearValue clears the key's copy, and no other.
LEMMA ClearEffect ==
  ASSUME TypeOK, HotKnown, NEW k \in Keys, Present(k)
  PROVE  /\ clearValue(k) \in [Keys -> Strings \cup {None}]
         /\ clearValue(k)[k] = None
         /\ \A j \in Keys \ {k} : clearValue(k)[j] = m_hotMap[j]
BY DEF TypeOK, HotKnown, clearValue

\* The TTLs that storeImpl stores with.
LEMMA TtlsType ==
  ASSUME NEW ttl \in Ttls
  PROVE  /\ ttls(ttl[1], ttl[2]).bump \in Nat
         /\ ttls(ttl[1], ttl[2]).max \in Nat
         /\ ttls(ttl[1], ttl[2]).expire \in Nat
<1>1. ttl[1] \in Nat /\ ttl[2] \in Nat
  OBVIOUS
<1> QED
  BY <1>1 DEF ttls

\* An entry that is in the table is a StoreValue; the clock is past the mark.
LEMMA Entry ==
  ASSUME TypeOK
  PROVE  /\ \A k \in Keys : Present(k) => m_vars[k] \in StoreValues
         /\ now \in Nat /\ now >= 2
BY DEF TypeOK, Present

\* What Return does.
LEMMA ReturnEffect ==
  ASSUME TypeOK, NEW t \in Threads, Return(t)
  PROVE  /\ pc'[t] \in {"run", "deferred"}
         /\ \A u \in Threads \ {t} : pc'[u] = pc[u] /\ key'[u] = key[u]
                                       /\ address'[u] = address[u]
         /\ key' \in [Threads -> Keys \cup {None}]
         /\ address' \in [Threads -> Addrs \cup {None}]
         /\ purgeTime' \in [Threads -> 0 .. MaxTime]
         /\ pc' = [pc EXCEPT ![t] = pc'[t]]
BY DEF TypeOK, Return

\* The program counters, as far as dumps are concerned.
DumpsAlone == {t \in Threads : pc[t] = "dump"} = {writer} \ {None}

\* Where a thread can be.
Places == {"run", "fetch", "defer", "deferWait", "unqueue", "purge", "pop", "find",
           "expire", "deferred", "dump"}

\* A step of a thread that does not dump leaves m_lock to whom it belongs.
LEMMA PlaceStep ==
  ASSUME TypeOK, NEW t \in Threads, NEW q \in Places \ {"dump"}, pc[t] # "dump",
         pc' = [pc EXCEPT ![t] = q], writer' = writer
  PROVE  pc' \in [Threads -> Places] /\ DumpsAlone'
BY DEF TypeOK, DumpsAlone, Places

-----------------------------------------------------------------------------
\* Types.

\* The table that storeImpl leaves: it takes the entry or a new one at a free
\* address, clears the HotCache and stores.
LEMMA StoreEffect ==
  ASSUME TypeOK, HotKnown, NEW t \in Threads, NEW k \in Keys, NEW data \in Values,
         NEW ttl \in Ttls, NEW overwrite \in BOOLEAN,
         storeImpl(t, k, data, ttls(ttl[1], ttl[2]), overwrite)
  PROVE  \E v \in StoreValues :
           /\ m_vars' = [m_vars EXCEPT ![k] = v]
           /\ v.data = data /\ v.expireRequestId = None /\ v.expireTime # 1
           /\ IF Present(k) THEN v.first = m_vars[k].first ELSE string[v.first] = None
           /\ string' = [string EXCEPT ![v.first] = k]
           /\ m_hotMap' \in [Keys -> Strings \cup {None}]
           /\ m_hotMap'[k] = None
           /\ \A j \in Keys \ {k} : m_hotMap'[j] = m_hotMap[j]
           /\ Queue(v)
<1> DEFINE T == ttls(ttl[1], ttl[2])
<1>1. PICK sval \in IF Present(k) THEN {m_vars[k]}
                    ELSE {New(a) : a \in {b \in Addrs : string[b] = None}} :
        /\ m_hotMap' = IF Present(k) THEN clearValue(k) ELSE m_hotMap
        /\ string' = [string EXCEPT ![sval.first] = k]
        /\ m_vars' = [m_vars EXCEPT ![k] = set(sval, data, T)]
        /\ Queue(set(sval, data, T))
  BY DEF storeImpl
<1>2. now \in Nat /\ now >= 2
  BY Entry
<1>3. /\ T.bump \in Nat /\ T.max \in Nat /\ T.expire \in Nat
      /\ Deadline(T.expire) # 1
  <2>1. T.bump \in Nat /\ T.max \in Nat /\ T.expire \in Nat
    BY TtlsType
  <2> HIDE DEF T
  <2> QED
    BY <1>2, <2>1 DEF Deadline
<1> HIDE DEF T
<1>4. CASE Present(k)
  <2>1. sval = m_vars[k] /\ sval \in StoreValues
    BY <1>1, <1>4, Entry
  <2>2. /\ set(sval, data, T) \in StoreValues
        /\ set(sval, data, T).first = sval.first
        /\ set(sval, data, T).data = data
        /\ set(sval, data, T).expireRequestId = None
        /\ set(sval, data, T).expireTime = Deadline(T.expire)
    BY <1>2, <1>3, <2>1, SetFields
  <2>3. /\ m_hotMap' \in [Keys -> Strings \cup {None}]
        /\ m_hotMap'[k] = None
        /\ \A j \in Keys \ {k} : m_hotMap'[j] = m_hotMap[j]
    BY <1>1, <1>4, ClearEffect
  <2> QED
    BY <1>1, <1>3, <1>4, <2>1, <2>2, <2>3
<1>5. CASE ~Present(k)
  <2>1. PICK a \in Addrs : string[a] = None /\ sval = New(a)
    BY <1>1, <1>5
  <2>2. sval.first = a
    BY <2>1 DEF New
  <2>3. /\ set(sval, data, T) \in StoreValues
        /\ set(sval, data, T).first = sval.first
        /\ set(sval, data, T).data = data
        /\ set(sval, data, T).expireRequestId = None
        /\ set(sval, data, T).expireTime = Deadline(T.expire)
    <3>1. Deadline(T.expire) \in Nat /\ Deadline(T.max) \in Nat /\ 0 \in Nat
      BY <1>2, <1>3 DEF Deadline
    <3> QED
      BY <1>3, <2>1, <3>1, Zenon DEF set, New, StoreValues
  <2>4. /\ m_hotMap' \in [Keys -> Strings \cup {None}]
        /\ m_hotMap'[k] = None
        /\ \A j \in Keys \ {k} : m_hotMap'[j] = m_hotMap[j]
    BY <1>1, <1>5 DEF TypeOK, HotKnown
  <2> QED
    BY <1>1, <1>3, <1>5, <2>1, <2>2, <2>3, <2>4
<1> QED
  BY <1>4, <1>5

\* What taking an entry out of the table does to it.
LEMMA UnlinkEffect ==
  ASSUME TypeOK, HotKnown, NEW k \in Keys, Present(k),
         m_hotMap' = clearValue(k), m_vars' = [m_vars EXCEPT ![k] = None]
  PROVE  /\ m_vars' \in [Keys -> StoreValues \cup {None}]
         /\ m_hotMap' \in [Keys -> Strings \cup {None}]
         /\ m_vars'[k] = None /\ m_hotMap'[k] = None
         /\ \A j \in Keys \ {k} : m_vars'[j] = m_vars[j] /\ m_hotMap'[j] = m_hotMap[j]
         /\ m_vars[k].first \in Addrs
<1>1. /\ m_hotMap' \in [Keys -> Strings \cup {None}]
      /\ m_hotMap'[k] = None
      /\ \A j \in Keys \ {k} : m_hotMap'[j] = m_hotMap[j]
  BY ClearEffect
<1>2. m_vars[k] \in StoreValues
  BY Entry
<1>3. m_vars[k].first \in Addrs
  BY <1>2 DEF StoreValues
<1> QED
  BY <1>1, <1>3 DEF TypeOK

\* What the hit of a fetch does to the table: it may prolong the entry and may
\* put its value into the HotCache.
LEMMA HitEffect ==
  ASSUME TypeOK, NEW t \in Threads, Located, fetchHits(t)
  PROVE  \E v \in StoreValues :
           /\ key[t] \in Keys /\ Present(key[t])
           /\ m_vars' = [m_vars EXCEPT ![key[t]] = v]
           /\ v.first = m_vars[key[t]].first /\ v.data = m_vars[key[t]].data
           /\ v.expireRequestId = m_vars[key[t]].expireRequestId
           /\ v.expireTime = 1 <=> m_vars[key[t]].expireTime = 1
           /\ m_vars[key[t]].hotIndex => v.hotIndex
           /\ \/ m_hotMap' = m_hotMap
              \/ /\ v.data \in Strings /\ v.hotIndex
                 /\ m_hotMap' = [m_hotMap EXCEPT ![key[t]] = v.data]
<1> DEFINE k == key[t]  sval == m_vars[k]
<1>1. /\ k \in Keys /\ Present(k)
      /\ \/ /\ supportedKind(sval.data)
            /\ m_vars' = [m_vars EXCEPT ![k] = hotStore(bump(sval))]
            /\ m_hotMap' = [m_hotMap EXCEPT ![k] = sval.data]
         \/ /\ m_vars' = [m_vars EXCEPT ![k] = bump(sval)]
            /\ m_hotMap' = m_hotMap
  BY DEF fetchHits, Located
<1>2. sval \in StoreValues /\ now \in Nat /\ now >= 2
  BY <1>1, Entry
<1> HIDE DEF k, sval
<1>3. /\ bump(sval) \in StoreValues
      /\ bump(sval).first = sval.first
      /\ bump(sval).data = sval.data
      /\ bump(sval).hotIndex = sval.hotIndex
      /\ bump(sval).expireRequestId = sval.expireRequestId
      /\ bump(sval).expireTime = 1 <=> sval.expireTime = 1
  BY <1>2, BumpFields
<1>4. /\ hotStore(bump(sval)) \in StoreValues
      /\ hotStore(bump(sval)).first = sval.first
      /\ hotStore(bump(sval)).data = sval.data
      /\ hotStore(bump(sval)).hotIndex
      /\ hotStore(bump(sval)).expireRequestId = sval.expireRequestId
      /\ hotStore(bump(sval)).expireTime = bump(sval).expireTime
  BY <1>3, HotStoreFields
<1>5. CASE /\ supportedKind(sval.data)
           /\ m_vars' = [m_vars EXCEPT ![k] = hotStore(bump(sval))]
           /\ m_hotMap' = [m_hotMap EXCEPT ![k] = sval.data]
  BY <1>1, <1>3, <1>4, <1>5 DEF supportedKind, k, sval
<1>6. CASE /\ m_vars' = [m_vars EXCEPT ![k] = bump(sval)]
           /\ m_hotMap' = m_hotMap
  BY <1>1, <1>3, <1>6 DEF k, sval
<1> QED
  BY <1>1, <1>5, <1>6

\* The parts of TypeOK: the table,
TableType == /\ m_vars \in [Keys -> StoreValues \cup {None}]
             /\ m_hotMap \in [Keys -> Strings \cup {None}]
             /\ string \in [Addrs -> Keys \cup {None}]

\* the expiration queue,
QueueType == m_expSet \subseteq Addrs /\ BagToSet(m_expQueue) \subseteq Addrs \X Nat

\* the clocks,
ClockType == m_lastPurgeTime \in 0 .. MaxTime /\ now \in StartTime .. MaxTime

\* where the threads are,
PlaceType == pc \in [Threads -> Places] /\ DumpsAlone

\* and what each thread keeps.
LocalType == /\ exiting \in [Threads -> BOOLEAN]
             /\ deferred \in [Threads -> SUBSET Keys]
             /\ key \in [Threads -> Keys \cup {None}]
             /\ address \in [Threads -> Addrs \cup {None}]
             /\ purgeTime \in [Threads -> 0 .. MaxTime]
             /\ accessor \in [Threads -> BOOLEAN]
             /\ waitsFor \in [Threads -> Threads \cup {None}]

\* They make up TypeOK.
LEMMA TypeParts ==
  TypeOK <=> TableType /\ QueueType /\ ClockType /\ PlaceType /\ LocalType
BY DEF TypeOK, TableType, QueueType, ClockType, PlaceType, LocalType, Places,
  DumpsAlone

\* Items that are put in and taken out leave addresses and times.
LEMMA QueueItemsType ==
  ASSUME TypeOK, NEW a, NEW n, NEW j
  PROVE  /\ (a \in Addrs /\ n \in Nat) =>
              BagToSet(m_expQueue (+) SetToBag({<<a, n>>})) \subseteq Addrs \X Nat
         /\ BagToSet(m_expQueue (-) SetToBag({j})) \subseteq Addrs \X Nat
<1> DEFINE i == <<a, n>>  S == Addrs \X Nat
<1>1. BagToSet(m_expQueue) \subseteq S
  BY DEF TypeOK
<1>2. (a \in Addrs /\ n \in Nat) => i \in S
  OBVIOUS
<1>3. /\ (a \in Addrs /\ n \in Nat) => BagToSet(m_expQueue (+) SetToBag({i})) \subseteq S
      /\ BagToSet(m_expQueue (-) SetToBag({j})) \subseteq S
  <2> HIDE DEF i, S
  <2> QED
    BY <1>1, <1>2, QueueItems
<1> QED
  BY <1>3

\* Queue keeps the types of the queue.
LEMMA QueueStep ==
  ASSUME TypeOK, NEW v \in StoreValues, Queue(v)
  PROVE  QueueType'
<1>1. queueExpire(v) \in Nat /\ v.first \in Addrs
  BY Entry, QueueExpireType DEF StoreValues
<1>2. CASE UNCHANGED expVars
  BY <1>2 DEF TypeOK, QueueType, expVars
<1>3. CASE /\ m_expSet' = m_expSet \cup {v.first}
           /\ m_expQueue' = m_expQueue (+) SetToBag({<<v.first, queueExpire(v)>>})
  <2>1. BagToSet(m_expQueue') \subseteq Addrs \X Nat
    BY <1>1, <1>3, QueueItemsType
  <2> QED
    BY <1>1, <1>3, <2>1 DEF TypeOK, QueueType
<1> QED
  BY <1>2, <1>3 DEF Queue

\* Every step of a request keeps the types.
LEMMA RequestType ==
  ASSUME TypeOK, Located, HotKnown, NEW t \in Threads, Request(t)
  PROVE  TypeOK' /\ Located'
<1>t. TableType /\ QueueType /\ ClockType /\ PlaceType /\ LocalType
  BY TypeParts
<1>s. SUFFICES /\ TableType' /\ QueueType' /\ ClockType' /\ PlaceType' /\ LocalType'
               /\ Located'
  BY DEF TypeOK, TableType, QueueType, ClockType, PlaceType, LocalType, Places,
    DumpsAlone
<1> USE DEF tableVars, expVars, localVars, Goto
<1>1. ASSUME NEW k \in Keys, NEW data \in Values, NEW ttl \in Ttls,
             NEW overwrite \in BOOLEAN,
             storeImpl(t, k, data, ttls(ttl[1], ttl[2]), overwrite)
      PROVE  /\ TableType' /\ QueueType' /\ ClockType' /\ PlaceType' /\ LocalType'
             /\ Located'
  <2>1. PICK v \in StoreValues :
           /\ m_vars' = [m_vars EXCEPT ![k] = v]
           /\ string' = [string EXCEPT ![v.first] = k]
           /\ m_hotMap' \in [Keys -> Strings \cup {None}]
           /\ Queue(v)
    BY <1>1, StoreEffect
  <2>2. TableType'
    BY <1>t, <2>1 DEF TableType
  <2>3. QueueType'
    BY <2>1, QueueStep
  <2>4. pc[t] = "run" /\ pc' = [pc EXCEPT ![t] = IF ExpireOnSets THEN "purge" ELSE "run"]
        /\ UNCHANGED <<m_lastPurgeTime, now, writer, exiting, deferred, key, address,
                       purgeTime, accessor, waitsFor>>
    BY <1>1 DEF storeImpl
  <2>5. PlaceType'
    BY <2>4, PlaceStep DEF PlaceType, Places
  <2> QED
    BY <1>t, <2>2, <2>3, <2>4, <2>5 DEF ClockType, LocalType, Located, PlaceType
<1>2. ASSUME NEW k \in Keys, NEW data \in Ints, incOrCas(t, k, data)
      PROVE  /\ TableType' /\ QueueType' /\ ClockType' /\ PlaceType' /\ LocalType'
             /\ Located'
  <2>1. /\ Present(k) /\ m_hotMap' = clearValue(k)
        /\ m_vars' = m_vars \/ m_vars' = [m_vars EXCEPT ![k] = [@ EXCEPT !.data = data]]
        /\ UNCHANGED <<string, expVars, m_lastPurgeTime, now, writer, pc, exiting,
                       deferred, localVars, accessor, waitsFor>>
    BY <1>2 DEF incOrCas
  <2>2. m_hotMap' \in [Keys -> Strings \cup {None}] /\ m_vars[k] \in StoreValues
    BY <2>1, ClearEffect, Entry
  <2>3. [m_vars[k] EXCEPT !.data = data] \in StoreValues
    BY <2>2 DEF StoreValues, Values
  <2>4. TableType'
    BY <1>t, <2>1, <2>2, <2>3 DEF TableType
  <2> QED
    BY <1>t, <2>1, <2>4 DEF QueueType, ClockType, LocalType, Located, PlaceType,
      DumpsAlone
<1>3. ASSUME NEW k \in Keys, NEW ttl \in {p[1] : p \in Ttls}, extendTTL(t, k, ttl)
      PROVE  /\ TableType' /\ QueueType' /\ ClockType' /\ PlaceType' /\ LocalType'
             /\ Located'
  <2>1. ttl \in Nat /\ m_vars[k] \in StoreValues /\ now \in Nat
    BY <1>3, Entry DEF extendTTL
  <2>2. withTTL(m_vars[k], ttl) \in StoreValues
    BY <2>1, WithTTLFields
  <2>3. /\ m_vars' = [m_vars EXCEPT ![k] = withTTL(m_vars[k], ttl)]
        /\ UNCHANGED <<m_hotMap, string, expVars, m_lastPurgeTime, now, writer, pc,
                       exiting, deferred, localVars, accessor, waitsFor>>
    BY <1>3 DEF extendTTL
  <2>4. TableType'
    BY <1>t, <2>2, <2>3 DEF TableType
  <2> QED
    BY <1>t, <2>3, <2>4 DEF QueueType, ClockType, LocalType, Located, PlaceType,
      DumpsAlone
<1>4. ASSUME NEW k \in Keys, get(t, k)
      PROVE  /\ TableType' /\ QueueType' /\ ClockType' /\ PlaceType' /\ LocalType'
             /\ Located'
  <2>1. PlaceType'
    BY <1>4, PlaceStep DEF get, PlaceType, Places
  <2> QED
    BY <1>t, <1>4, <2>1 DEF get, TableType, QueueType, ClockType, LocalType, Located,
      PlaceType
<1>5. ASSUME NEW k \in Keys, eraseKey(t, k)
      PROVE  /\ TableType' /\ QueueType' /\ ClockType' /\ PlaceType' /\ LocalType'
             /\ Located'
  <2>1. PlaceType'
    BY <1>5, PlaceStep DEF eraseKey, PlaceType, Places
  <2>2. /\ m_vars' \in [Keys -> StoreValues \cup {None}]
        /\ m_hotMap' \in [Keys -> Strings \cup {None}]
        /\ m_vars[k].first \in Addrs
    BY <1>5, UnlinkEffect DEF eraseKey, Unlink
  <2>3. TableType'
    BY <1>t, <1>5, <2>2 DEF eraseKey, TableType
  <2> QED
    BY <1>t, <1>5, <2>1, <2>2, <2>3 DEF eraseKey, Unlink, QueueType, ClockType,
      LocalType, Located, PlaceType
<1>6. CASE dump(t)
  <2>1. PlaceType'
    BY <1>t, <1>6 DEF dump, PlaceType, DumpsAlone, Places
  <2> QED
    BY <1>t, <1>6, <2>1 DEF dump, TableType, QueueType, ClockType, LocalType, Located,
      PlaceType
<1>7. CASE requestShutdown(t)
  <2>1. PlaceType'
    BY <1>7, PlaceStep DEF requestShutdown, PlaceType, Places
  <2> QED
    BY <1>t, <1>7, <2>1 DEF requestShutdown, TableType, QueueType, ClockType,
      LocalType, Located, PlaceType
<1> QED
  BY <1>1, <1>2, <1>3, <1>4, <1>5, <1>6, <1>7 DEF Request

\* What expire does to the table and the queue.
LEMMA ExpireEffect ==
  ASSUME TypeOK, Located, HotKnown, NEW t \in Threads, expire(t)
  PROVE  /\ pc[t] = "expire" /\ pc' = [pc EXCEPT ![t] = "pop"]
         /\ address' = [address EXCEPT ![t] = None]
         /\ \/ UNCHANGED <<tableVars, expVars>>
            \/ /\ UNCHANGED <<m_vars, string, m_expSet>> /\ QueueType'
               /\ m_hotMap' \in [Keys -> Strings \cup {None}]
               /\ \A j \in Keys : m_hotMap'[j] \in {None, m_hotMap[j]}
            \/ \E k \in Keys :
                 /\ Present(k)
                 /\ m_hotMap' = clearValue(k)
                 /\ m_vars' = [m_vars EXCEPT ![k] = None]
                 /\ string' = [string EXCEPT ![m_vars[k].first] = None]
                 /\ m_expSet' \subseteq m_expSet /\ m_expQueue' = m_expQueue
<1>1. /\ pc[t] = "expire" /\ pc' = [pc EXCEPT ![t] = "pop"]
      /\ address' = [address EXCEPT ![t] = None]
  BY DEF expire, Release, Goto
<1>2. PICK k \in KeysAt(address[t]) :
        expireNothing(t, k) \/ expireLater(t, k) \/ expireNow(t, k)
  BY DEF expire
<1>3. CASE expireNothing(t, k)
  BY <1>1, <1>3 DEF expireNothing
<1>4. CASE expireLater(t, k)
  <2>1. k \in Keys /\ Present(k)
    BY <1>4 DEF expireLater, Absent
  <2>2. m_vars[k] \in StoreValues /\ now \in Nat
    BY <2>1, Entry
  <2>3. queueExpire(m_vars[k]) \in Nat /\ m_vars[k].first \in Addrs
    BY <2>2, QueueExpireType DEF StoreValues
  <2>4. BagToSet(m_expQueue (+) SetToBag({<<m_vars[k].first, queueExpire(m_vars[k])>>}))
          \subseteq Addrs \X Nat
    BY <2>3, QueueItemsType
  <2>5. QueueType'
    <3>1. \/ m_expQueue' = m_expQueue
          \/ m_expQueue' =
               m_expQueue (+) SetToBag({<<m_vars[k].first, queueExpire(m_vars[k])>>})
      BY <1>4 DEF expireLater
    <3>2. BagToSet(m_expQueue') \subseteq Addrs \X Nat
      BY <2>4, <3>1, Zenon DEF TypeOK
    <3> QED
      BY <1>4, <3>2 DEF expireLater, QueueType, TypeOK
  <2>6. m_hotMap' = m_hotMap \/ m_hotMap' = clearValue(k)
    BY <1>4 DEF expireLater
  <2>7. /\ m_hotMap' \in [Keys -> Strings \cup {None}]
        /\ \A j \in Keys : m_hotMap'[j] \in {None, m_hotMap[j]}
    <3>1. CASE m_hotMap' = m_hotMap
      BY <3>1 DEF TypeOK
    <3>2. CASE m_hotMap' = clearValue(k)
      BY <2>1, <3>2, ClearEffect
    <3> QED
      BY <2>6, <3>1, <3>2
  <2> QED
    BY <1>1, <1>4, <2>5, <2>7 DEF expireLater
<1>5. CASE expireNow(t, k)
  <2>1. k \in Keys /\ Present(k)
    BY <1>5 DEF expireNow, Absent
  <2> QED
    BY <1>1, <1>5, <2>1 DEF expireNow
<1> QED
  BY <1>2, <1>3, <1>4, <1>5

\* What purgeDeferred does to the table and to its thread.
LEMMA PurgeDeferredEffect ==
  ASSUME TypeOK, HotKnown, NEW t \in Threads, NEW k \in Keys, purgeDeferred(t, k)
  PROVE  /\ pc[t] = "deferred"
         /\ deferred' = [deferred EXCEPT ![t] = @ \ {k}]
         /\ \/ /\ Present(k) /\ Unlink(t, k) /\ UNCHANGED string
               /\ pc' = [pc EXCEPT ![t] = "unqueue"]
            \/ /\ ~(Present(k) /\ expired(m_vars[k]))
               /\ UNCHANGED <<m_vars, string, key, address, pc>>
               /\ m_hotMap' \in [Keys -> Strings \cup {None}]
               /\ \A j \in Keys : m_hotMap'[j] \in {None, m_hotMap[j]}
<1>1. CASE Present(k) /\ expired(m_vars[k])
  BY <1>1 DEF purgeDeferred, Goto
<1>2. CASE ~(Present(k) /\ expired(m_vars[k]))
  <2>1. m_hotMap' = m_hotMap \/ (Present(k) /\ m_hotMap' = clearValue(k))
    BY <1>2 DEF purgeDeferred
  <2>2. /\ m_hotMap' \in [Keys -> Strings \cup {None}]
        /\ \A j \in Keys : m_hotMap'[j] \in {None, m_hotMap[j]}
    <3>1. CASE m_hotMap' = m_hotMap
      BY <3>1 DEF TypeOK
    <3>2. CASE Present(k) /\ m_hotMap' = clearValue(k)
      BY <3>2, ClearEffect
    <3> QED
      BY <2>1, <3>1, <3>2
  <2> QED
    BY <1>2, <2>2 DEF purgeDeferred
<1> QED
  BY <1>1, <1>2

\* Every step of an operation that a request has begun keeps the types.
LEMMA ContinueType ==
  ASSUME TypeOK, Located, HotKnown, NEW t \in Threads, Continue(t)
  PROVE  TypeOK' /\ Located'
<1>t. TableType /\ QueueType /\ ClockType /\ PlaceType /\ LocalType
  BY TypeParts
<1>s. SUFFICES /\ TableType' /\ QueueType' /\ ClockType' /\ PlaceType' /\ LocalType'
               /\ Located'
  BY DEF TypeOK, TableType, QueueType, ClockType, PlaceType, LocalType, Places,
    DumpsAlone
<1> USE DEF tableVars, expVars, localVars, Goto
\* Returning keeps the places and leaves nothing to be located.
<1>r. ASSUME Return(t), pc[t] # "dump", writer' = writer
      PROVE  /\ PlaceType' /\ Located'
             /\ key' \in [Threads -> Keys \cup {None}]
             /\ address' \in [Threads -> Addrs \cup {None}]
             /\ purgeTime' \in [Threads -> 0 .. MaxTime]
  <2>1. /\ pc'[t] \in {"run", "deferred"}
        /\ \A u \in Threads \ {t} : pc'[u] = pc[u] /\ key'[u] = key[u]
                                      /\ address'[u] = address[u]
        /\ key' \in [Threads -> Keys \cup {None}]
        /\ address' \in [Threads -> Addrs \cup {None}]
        /\ purgeTime' \in [Threads -> 0 .. MaxTime]
        /\ pc' = [pc EXCEPT ![t] = pc'[t]]
    BY <1>r, ReturnEffect
  <2>2. PlaceType'
    BY <1>r, <2>1, PlaceStep DEF PlaceType, Places
  <2>3. Located'
    BY <2>1 DEF Located
  <2> QED
    BY <2>1, <2>2, <2>3
<1>1. CASE fetchMisses(t)
  BY <1>t, <1>1, <1>r DEF fetchMisses, TableType, QueueType, ClockType, LocalType
<1>2. CASE fetchHits(t)
  <2>1. PICK v \in StoreValues :
          /\ key[t] \in Keys
          /\ m_vars' = [m_vars EXCEPT ![key[t]] = v]
          /\ \/ m_hotMap' = m_hotMap
             \/ /\ v.data \in Strings
                /\ m_hotMap' = [m_hotMap EXCEPT ![key[t]] = v.data]
    BY <1>2, HitEffect
  <2>2. /\ pc[t] = "fetch" /\ Return(t)
        /\ UNCHANGED <<string, expVars, m_lastPurgeTime, now, writer, exiting,
                       deferred, accessor, waitsFor>>
    BY <1>2 DEF fetchHits
  <2>3. TableType'
    BY <1>t, <2>1, <2>2 DEF TableType
  <2> QED
    BY <1>t, <1>r, <2>2, <2>3 DEF QueueType, ClockType, LocalType
<1>3. CASE fetchExpires(t)
  <2>1. key[t] \in Keys /\ Present(key[t])
    BY <1>3 DEF fetchExpires, Located
  <2>2. m_vars[key[t]] \in StoreValues
    BY <2>1, Entry
  <2>3. expiredFor(m_vars[key[t]], t) \in StoreValues /\ m_vars[key[t]].first \in Addrs
    BY <2>2, ExpiredForFields DEF StoreValues
  <2>4. /\ pc[t] = "fetch" /\ pc' = [pc EXCEPT ![t] = "defer"]
        /\ m_vars' = [m_vars EXCEPT ![key[t]] = expiredFor(m_vars[key[t]], t)]
        /\ address' = [address EXCEPT ![t] = m_vars[key[t]].first]
        /\ UNCHANGED <<m_hotMap, string, expVars, m_lastPurgeTime, now, writer,
                       exiting, deferred, key, purgeTime, accessor, waitsFor>>
    BY <1>3 DEF fetchExpires
  <2>5. PlaceType'
    BY <2>4, PlaceStep DEF PlaceType, Places
  <2>6. TableType'
    BY <1>t, <2>3, <2>4 DEF TableType
  <2>7. LocalType' /\ Located'
    BY <1>t, <2>1, <2>3, <2>4 DEF LocalType, Located, PlaceType
  <2> QED
    BY <1>t, <2>4, <2>5, <2>6, <2>7 DEF QueueType, ClockType
<1>4. CASE deferErase(t)
  <2>1. /\ pc[t] = "defer" /\ m_expSet' = m_expSet \ {address[t]}
        /\ UNCHANGED <<tableVars, m_expQueue, m_lastPurgeTime, now, writer, exiting>>
        /\ key[t] \in Keys /\ address[t] \in Addrs
    BY <1>4 DEF deferErase, Located
  <2>2. QueueType' /\ TableType' /\ ClockType'
    BY <1>t, <2>1 DEF QueueType, TableType, ClockType
  <2>3. CASE Holders(address[t]) = {}
    <3>1. /\ Return(t) /\ deferred' = [deferred EXCEPT ![t] = @ \cup {key[t]}]
          /\ UNCHANGED <<accessor, waitsFor>>
      BY <1>4, <2>3 DEF deferErase
    <3> QED
      BY <1>t, <1>r, <2>1, <2>2, <3>1 DEF LocalType
  <2>4. CASE Holders(address[t]) # {}
    <3>1. PICK p \in Holders(address[t]) :
            /\ accessor' = [accessor EXCEPT ![p] = FALSE]
            /\ waitsFor' = [waitsFor EXCEPT ![t] = p]
            /\ pc' = [pc EXCEPT ![t] = "deferWait"]
            /\ UNCHANGED <<deferred, key, address, purgeTime>>
      BY <1>4, <2>4 DEF deferErase
    <3>2. p \in Threads
      BY DEF Holders
    <3>3. PlaceType'
      BY <2>1, <3>1, PlaceStep DEF PlaceType, Places
    <3>4. LocalType' /\ Located'
      BY <1>t, <2>1, <3>1, <3>2 DEF LocalType, Located, PlaceType
    <3> QED
      BY <2>2, <3>3, <3>4
  <2> QED
    BY <2>3, <2>4
<1>5. CASE deferWaitEnds(t)
  <2>1. key[t] \in Keys
    BY <1>5 DEF deferWaitEnds, Located
  <2> QED
    BY <1>t, <1>5, <1>r, <2>1 DEF deferWaitEnds, TableType, QueueType, ClockType, LocalType
<1>6. CASE unqueue(t)
  <2>1. address[t] \in Addrs
    BY <1>6 DEF unqueue, Located
  <2> QED
    BY <1>t, <1>6, <1>r, <2>1 DEF unqueue, TableType, QueueType, ClockType, LocalType
<1>7. ASSUME NEW k \in Keys, purgeDeferred(t, k)
      PROVE  /\ TableType' /\ QueueType' /\ ClockType' /\ PlaceType' /\ LocalType'
             /\ Located'
  <2>1. /\ pc[t] = "deferred"
        /\ deferred' = [deferred EXCEPT ![t] = @ \ {k}]
        /\ UNCHANGED <<string, expVars, m_lastPurgeTime, now, writer, exiting,
                       purgeTime, accessor, waitsFor>>
    BY <1>7, PurgeDeferredEffect DEF purgeDeferred
  <2>2. CASE /\ Present(k) /\ Unlink(t, k)
             /\ pc' = [pc EXCEPT ![t] = "unqueue"]
    <3>1. /\ m_vars' \in [Keys -> StoreValues \cup {None}]
          /\ m_hotMap' \in [Keys -> Strings \cup {None}]
          /\ m_vars[k].first \in Addrs
      BY <2>2, UnlinkEffect DEF Unlink
    <3>2. PlaceType'
      BY <2>1, <2>2, PlaceStep DEF PlaceType, Places
    <3>3. TableType' /\ QueueType' /\ ClockType'
      BY <1>t, <2>1, <3>1 DEF TableType, QueueType, ClockType
    <3>4. LocalType' /\ Located'
      BY <1>t, <2>1, <2>2, <3>1 DEF Unlink, LocalType, Located, PlaceType
    <3> QED
      BY <3>2, <3>3, <3>4
  <2>3. CASE /\ UNCHANGED <<m_vars, key, address, pc>>
             /\ m_hotMap' \in [Keys -> Strings \cup {None}]
    BY <1>t, <2>1, <2>3 DEF TableType, QueueType, ClockType, PlaceType, DumpsAlone,
      LocalType, Located
  <2> QED
    BY <1>7, <2>2, <2>3, PurgeDeferredEffect
<1>8. CASE requestExitEnds(t)
  <2>1. PlaceType'
    BY <1>8, PlaceStep DEF requestExitEnds, PlaceType, Places
  <2> QED
    BY <1>t, <1>8, <2>1 DEF requestExitEnds, TableType, QueueType, ClockType, LocalType,
      Located, PlaceType
<1>9. CASE purgeExpired(t)
  <2>1. CASE Return(t) /\ UNCHANGED m_lastPurgeTime
    BY <1>t, <1>9, <1>r, <2>1 DEF purgeExpired, TableType, QueueType, ClockType, LocalType
  <2>2. CASE /\ pc' = [pc EXCEPT ![t] = "pop"]
             /\ m_lastPurgeTime' = now
             /\ purgeTime' = [purgeTime EXCEPT ![t] = now]
             /\ UNCHANGED <<key, address>>
    <3>1. PlaceType'
      BY <1>9, <2>2, PlaceStep DEF purgeExpired, PlaceType, Places
    <3>2. now \in 0 .. MaxTime
      BY <1>t DEF ClockType
    <3> QED
      BY <1>t, <1>9, <2>2, <3>1, <3>2 DEF purgeExpired, TableType, QueueType,
        ClockType, LocalType, Located, PlaceType
  <2> QED
    BY <1>9, <2>1, <2>2 DEF purgeExpired
<1>10. CASE try_pop(t)
  <2>1. CASE Return(t) /\ UNCHANGED m_expQueue
    BY <1>t, <1>10, <1>r, <2>1 DEF try_pop, TableType, QueueType, ClockType, LocalType
  <2>2. ASSUME NEW i \in Earliest,
               m_expQueue' = m_expQueue (-) SetToBag({i}),
               address' = [address EXCEPT ![t] = i[1]],
               pc' = [pc EXCEPT ![t] = "find"],
               UNCHANGED <<key, purgeTime>>
        PROVE  /\ TableType' /\ QueueType' /\ ClockType' /\ PlaceType' /\ LocalType'
               /\ Located'
    <3>1. PlaceType'
      BY <1>10, <2>2, PlaceStep DEF try_pop, PlaceType, Places
    <3>2. i[1] \in Addrs
      BY <1>t DEF Earliest, QueueType
    <3>3. QueueType'
      <4>1. BagToSet(m_expQueue (-) SetToBag({i})) \subseteq Addrs \X Nat
        BY QueueItemsType
      <4>2. BagToSet(m_expQueue') \subseteq Addrs \X Nat
        BY <2>2, <4>1, Zenon
      <4> QED
        BY <1>t, <1>10, <4>2 DEF try_pop, QueueType
    <3> QED
      BY <1>t, <1>10, <2>2, <3>1, <3>2, <3>3 DEF try_pop, TableType, ClockType,
        LocalType, Located, PlaceType
  <2> QED
    BY <1>10, <2>1, <2>2 DEF try_pop
<1>11. CASE find(t)
  <2>1. PICK q \in {"expire", "pop"} : pc' = [pc EXCEPT ![t] = q]
    BY <1>11 DEF find
  <2>2. PlaceType'
    BY <1>11, <2>1, PlaceStep DEF find, PlaceType, Places
  <2>3. TableType' /\ QueueType' /\ ClockType'
    BY <1>t, <1>11 DEF find, TableType, QueueType, ClockType
  <2>4. CASE address[t] \in m_expSet
    <3>1. LocalType'
      BY <1>t, <1>11, <2>4 DEF find, LocalType
    <3>2. Located'
      BY <1>t, <1>11, <2>4 DEF find, Located, PlaceType
    <3> QED
      BY <2>2, <2>3, <3>1, <3>2
  <2>5. CASE address[t] \notin m_expSet
    <3>1. LocalType'
      BY <1>t, <1>11, <2>5 DEF find, LocalType
    <3>2. Located'
      BY <1>t, <1>11, <2>5 DEF find, Located, LocalType, PlaceType
    <3> QED
      BY <2>2, <2>3, <3>1, <3>2
  <2> QED
    BY <2>4, <2>5
<1>12. CASE expire(t)
  <2>1. /\ pc[t] = "expire" /\ pc' = [pc EXCEPT ![t] = "pop"]
        /\ address' = [address EXCEPT ![t] = None]
    BY <1>12, ExpireEffect
  <2>2. PlaceType'
    BY <1>12, <2>1, PlaceStep DEF expire, PlaceType, Places
  <2>3. ClockType' /\ LocalType' /\ Located'
    BY <1>t, <1>12, <2>1 DEF expire, Release, ClockType, LocalType, Located, PlaceType
  <2>4. TableType' /\ QueueType'
    <3>1. CASE UNCHANGED <<tableVars, expVars>>
      BY <1>t, <3>1 DEF TableType, QueueType
    <3>2. CASE /\ UNCHANGED <<m_vars, string, m_expSet>> /\ QueueType'
               /\ m_hotMap' \in [Keys -> Strings \cup {None}]
      BY <1>t, <3>2 DEF TableType
    <3>3. ASSUME NEW k \in Keys, Present(k), m_hotMap' = clearValue(k),
                 m_vars' = [m_vars EXCEPT ![k] = None],
                 string' = [string EXCEPT ![m_vars[k].first] = None],
                 m_expSet' \subseteq m_expSet, m_expQueue' = m_expQueue
          PROVE  TableType' /\ QueueType'
      <4>1. /\ m_vars' \in [Keys -> StoreValues \cup {None}]
            /\ m_hotMap' \in [Keys -> Strings \cup {None}]
        BY <3>3, UnlinkEffect
      <4> QED
        BY <1>t, <3>3, <4>1 DEF TableType, QueueType
    <3> QED
      BY <1>12, <3>1, <3>2, <3>3, ExpireEffect
  <2> QED
    BY <2>2, <2>3, <2>4
<1>13. CASE dumpEnds(t)
  <2>1. PlaceType'
    BY <1>t, <1>13 DEF dumpEnds, PlaceType, DumpsAlone, Places
  <2> QED
    BY <1>t, <1>13, <2>1 DEF dumpEnds, TableType, QueueType, ClockType, LocalType,
      Located, PlaceType
<1> QED
  BY <1>1, <1>2, <1>3, <1>4, <1>5, <1>6, <1>7, <1>8, <1>9, <1>10, <1>11, <1>12, <1>13
     DEF Continue

\* Every step keeps the types and what the threads remember.
LEMMA TypeStep == TypeOK /\ Located /\ HotKnown /\ [Next]_vars => TypeOK' /\ Located'
<1> SUFFICES ASSUME TypeOK, Located, HotKnown, [Next]_vars PROVE TypeOK' /\ Located'
  OBVIOUS
<1>1. CASE Tick
  BY <1>1 DEF Tick, TypeOK, Located, tableVars, expVars, localVars
<1>2. CASE UNCHANGED vars
  BY <1>2 DEF vars, TypeOK, Located, tableVars, expVars, localVars
<1> QED
  BY <1>1, <1>2, RequestType, ContinueType DEF Next

-----------------------------------------------------------------------------
\* The HotCache.

\* A new entry, of which nothing or its value is in the HotCache, or none.
LEMMA HotEntry ==
  ASSUME TypeOK, HotKnown, NEW k \in Keys, NEW v, m_vars' = [m_vars EXCEPT ![k] = v],
         m_hotMap'[k] # None => v # None /\ v.hotIndex /\ m_hotMap'[k] = v.data,
         \A j \in Keys \ {k} : m_hotMap'[j] = m_hotMap[j]
  PROVE  HotKnown'
BY DEF TypeOK, HotKnown, Present

\* Clearing copies does no harm.
LEMMA HotCleared ==
  ASSUME HotKnown, UNCHANGED m_vars,
         \A j \in Keys : m_hotMap'[j] \in {None, m_hotMap[j]}
  PROVE  HotKnown'
BY DEF HotKnown, Present

\* Every step keeps the HotCache in line with the table.
LEMMA HotStep == TypeOK /\ Located /\ HotKnown /\ [Next]_vars => HotKnown'
<1> SUFFICES ASSUME TypeOK, Located, HotKnown, [Next]_vars PROVE HotKnown'
  OBVIOUS
<1> USE DEF tableVars
<1>1. CASE UNCHANGED <<m_vars, m_hotMap>>
  BY <1>1 DEF HotKnown, Present
<1>2. ASSUME NEW t \in Threads, NEW k \in Keys, NEW data \in Values, NEW ttl \in Ttls,
             NEW overwrite \in BOOLEAN,
             storeImpl(t, k, data, ttls(ttl[1], ttl[2]), overwrite)
      PROVE  HotKnown'
  <2>1. PICK v \in StoreValues :
           /\ m_vars' = [m_vars EXCEPT ![k] = v]
           /\ m_hotMap'[k] = None
           /\ \A j \in Keys \ {k} : m_hotMap'[j] = m_hotMap[j]
    BY <1>2, StoreEffect
  <2> QED
    BY <2>1, HotEntry
<1>3. ASSUME NEW t \in Threads, NEW k \in Keys, NEW data \in Ints, incOrCas(t, k, data)
      PROVE  HotKnown'
  <2>1. Present(k) /\ m_hotMap' = clearValue(k)
    BY <1>3 DEF incOrCas
  <2>2. m_hotMap'[k] = None /\ \A j \in Keys \ {k} : m_hotMap'[j] = m_hotMap[j]
    BY <2>1, ClearEffect
  <2>3. CASE m_vars' = m_vars
    BY <2>2, <2>3, HotCleared
  <2>4. CASE m_vars' = [m_vars EXCEPT ![k] = [@ EXCEPT !.data = data]]
    BY <2>2, <2>4, HotEntry
  <2> QED
    BY <1>3, <2>3, <2>4 DEF incOrCas
<1>4. ASSUME NEW t \in Threads, NEW k \in Keys, NEW ttl \in {p[1] : p \in Ttls},
             extendTTL(t, k, ttl)
      PROVE  HotKnown'
  <2>1. /\ ttl \in Nat /\ Present(k) /\ m_hotMap' = m_hotMap
        /\ m_vars' = [m_vars EXCEPT ![k] = withTTL(m_vars[k], ttl)]
    BY <1>4 DEF extendTTL
  <2>2. m_vars[k] \in StoreValues /\ now \in Nat
    BY <2>1, Entry
  <2>3. /\ withTTL(m_vars[k], ttl) \in StoreValues
        /\ withTTL(m_vars[k], ttl).data = m_vars[k].data
        /\ withTTL(m_vars[k], ttl).hotIndex = m_vars[k].hotIndex
    BY <2>1, <2>2, WithTTLFields
  <2>4. m_hotMap[k] # None => m_vars[k].hotIndex /\ m_hotMap[k] = m_vars[k].data
    BY DEF HotKnown
  <2> QED
    BY <2>1, <2>3, <2>4, HotEntry
<1>5. ASSUME NEW t \in Threads, fetchHits(t) PROVE HotKnown'
  <2>1. PICK v \in StoreValues :
           /\ key[t] \in Keys
           /\ m_vars' = [m_vars EXCEPT ![key[t]] = v]
           /\ v.data = m_vars[key[t]].data
           /\ m_vars[key[t]].hotIndex => v.hotIndex
           /\ \/ m_hotMap' = m_hotMap
              \/ /\ v.data \in Strings /\ v.hotIndex
                 /\ m_hotMap' = [m_hotMap EXCEPT ![key[t]] = v.data]
    BY <1>5, HitEffect
  <2>2. /\ m_hotMap'[key[t]] # None => v.hotIndex /\ m_hotMap'[key[t]] = v.data
        /\ \A j \in Keys \ {key[t]} : m_hotMap'[j] = m_hotMap[j]
    BY <2>1 DEF HotKnown, TypeOK
  <2> QED
    BY <2>1, <2>2, HotEntry
<1>6. ASSUME NEW t \in Threads, fetchExpires(t) PROVE HotKnown'
  <2>1. /\ key[t] \in Keys /\ Present(key[t]) /\ m_hotMap' = m_hotMap
        /\ m_vars' = [m_vars EXCEPT ![key[t]] = expiredFor(m_vars[key[t]], t)]
    BY <1>6 DEF fetchExpires, Located, Goto
  <2>2. /\ expiredFor(m_vars[key[t]], t) \in StoreValues
        /\ expiredFor(m_vars[key[t]], t).data = m_vars[key[t]].data
        /\ expiredFor(m_vars[key[t]], t).hotIndex = m_vars[key[t]].hotIndex
    BY <2>1, Entry, ExpiredForFields
  <2>3. m_hotMap[key[t]] # None =>
          m_vars[key[t]].hotIndex /\ m_hotMap[key[t]] = m_vars[key[t]].data
    BY <2>1 DEF HotKnown
  <2> QED
    BY <2>1, <2>2, <2>3, HotEntry
<1>7. ASSUME NEW k \in Keys, Present(k), m_hotMap' = clearValue(k),
             m_vars' = [m_vars EXCEPT ![k] = None]
      PROVE  HotKnown'
  <2>1. m_hotMap'[k] = None /\ \A j \in Keys \ {k} : m_hotMap'[j] = m_hotMap[j]
    BY <1>7, ClearEffect
  <2> QED
    BY <1>7, <2>1, HotEntry
<1>8. ASSUME NEW t \in Threads, NEW k \in Keys, eraseKey(t, k) PROVE HotKnown'
  BY <1>7, <1>8 DEF eraseKey, Unlink
<1>9. ASSUME NEW t \in Threads, NEW k \in Keys, purgeDeferred(t, k) PROVE HotKnown'
  BY <1>7, <1>9, PurgeDeferredEffect, HotCleared DEF Unlink
<1>10. ASSUME NEW t \in Threads, expire(t) PROVE HotKnown'
  BY <1>1, <1>7, <1>10, ExpireEffect, HotCleared
<1> QED
  BY <1>1, <1>2, <1>3, <1>4, <1>5, <1>6, <1>8, <1>9, <1>10
     DEF Next, Request, Continue, vars, Tick, get, dump, requestShutdown, fetchMisses,
         deferErase, deferWaitEnds, unqueue, requestExitEnds, purgeExpired, try_pop,
         find, dumpEnds

-----------------------------------------------------------------------------
\* The marks of expiration.

\* One entry changes, and the claims on the others stay.
LEMMA MarkEntry ==
  ASSUME TypeOK, Marks, NEW k \in Keys, NEW v, m_vars' = [m_vars EXCEPT ![k] = v],
         v # None => \/ v.expireTime # 1 /\ v.expireRequestId = None
                     \/ /\ v.expireTime = 1 /\ v.expireRequestId \in Threads
                        /\ Claims(v.expireRequestId, k)',
         \A u \in Threads, j \in Keys \ {k} : Claims(u, j) => Claims(u, j)'
  PROVE  Marks'
BY DEF TypeOK, Marks, Marked, Present

\* No entry changes, and the claims stay.
LEMMA MarkSame ==
  ASSUME Marks, UNCHANGED m_vars,
         \A u \in Threads, j \in Keys : Claims(u, j) => Claims(u, j)'
  PROVE  Marks'
BY DEF Marks, Marked, Present

\* Every step leaves each mark with a request that will erase the entry.
LEMMA MarkStep ==
  TypeOK /\ Located /\ HotKnown /\ Marks /\ [Next]_vars => Marks'
<1> SUFFICES ASSUME TypeOK, Located, HotKnown, Marks, [Next]_vars PROVE Marks'
  OBVIOUS
<1> USE DEF tableVars, expVars, localVars, Goto
\* A value that has not expired is not marked.
<1>n. \A k \in Keys : (Present(k) /\ ~(expired(m_vars[k]) /\ m_vars[k].expireTime # 0))
        => m_vars[k].expireTime # 1 /\ m_vars[k].expireRequestId = None
  <2> SUFFICES ASSUME NEW k \in Keys, Present(k),
                      ~(expired(m_vars[k]) /\ m_vars[k].expireTime # 0)
               PROVE  m_vars[k].expireTime # 1 /\ m_vars[k].expireRequestId = None
    OBVIOUS
  <2>1. m_vars[k].expireTime # 1
    BY Entry DEF expired
  <2> QED
    BY <2>1 DEF Marks, Marked
<1>1. CASE UNCHANGED <<m_vars, pc, key, deferred>>
  BY <1>1, MarkSame DEF Claims
<1>2. ASSUME NEW t \in Threads, NEW k \in Keys, NEW data \in Values, NEW ttl \in Ttls,
             NEW overwrite \in BOOLEAN,
             storeImpl(t, k, data, ttls(ttl[1], ttl[2]), overwrite)
      PROVE  Marks'
  <2>1. PICK v \in StoreValues :
           /\ m_vars' = [m_vars EXCEPT ![k] = v]
           /\ v.expireRequestId = None /\ v.expireTime # 1
    BY <1>2, StoreEffect
  <2>2. \A u \in Threads, j \in Keys : Claims(u, j) => Claims(u, j)'
    BY <1>2 DEF storeImpl, TypeOK, Claims
  <2> QED
    BY <2>1, <2>2, MarkEntry
<1>3. ASSUME NEW t \in Threads, NEW k \in Keys, NEW data \in Ints, incOrCas(t, k, data)
      PROVE  Marks'
  <2>1. /\ Present(k) /\ UNCHANGED <<pc, key, deferred>>
        /\ \/ m_vars' = m_vars
           \/ m_vars' = [m_vars EXCEPT ![k] = [m_vars[k] EXCEPT !.data = data]]
    BY <1>3 DEF incOrCas
  <2>2. CASE m_vars' = [m_vars EXCEPT ![k] = [m_vars[k] EXCEPT !.data = data]]
    <3>1. m_vars[k] \in StoreValues
      BY <2>1, Entry
    <3> DEFINE w == [m_vars[k] EXCEPT !.data = data]
    <3>0. /\ w.expireTime = m_vars[k].expireTime
          /\ w.expireRequestId = m_vars[k].expireRequestId
      BY <3>1 DEF StoreValues
    <3>2. PICK v :
            /\ m_vars' = [m_vars EXCEPT ![k] = v]
            /\ v.expireTime = m_vars[k].expireTime
            /\ v.expireRequestId = m_vars[k].expireRequestId
      <4>1. m_vars' = [m_vars EXCEPT ![k] = w]
        BY <2>2
      <4> HIDE DEF w
      <4> QED
        BY <3>0, <4>1
    <3>3. \A u \in Threads, j \in Keys : Claims(u, j) => Claims(u, j)'
      BY <2>1 DEF Claims
    <3>4. \/ v.expireTime # 1 /\ v.expireRequestId = None
          \/ /\ v.expireTime = 1 /\ v.expireRequestId \in Threads
             /\ Claims(v.expireRequestId, k)'
      BY <2>1, <3>2, <3>3 DEF Marks, Marked
    <3> QED
      BY <3>2, <3>3, <3>4, MarkEntry
  <2> QED
    BY <1>1, <2>1, <2>2
<1>4. ASSUME NEW t \in Threads, NEW k \in Keys, NEW ttl \in {p[1] : p \in Ttls},
             extendTTL(t, k, ttl)
      PROVE  Marks'
  <2>1. /\ ttl \in Nat /\ Present(k) /\ ~expired(m_vars[k])
        /\ m_vars' = [m_vars EXCEPT ![k] = withTTL(m_vars[k], ttl)]
        /\ UNCHANGED <<pc, key, deferred>>
    BY <1>4 DEF extendTTL
  <2>2. m_vars[k] \in StoreValues /\ now \in Nat /\ now >= 2
    BY <2>1, Entry
  <2>3. /\ withTTL(m_vars[k], ttl).expireRequestId = m_vars[k].expireRequestId
        /\ withTTL(m_vars[k], ttl).expireTime = Deadline(ttl)
    BY <2>1, <2>2, WithTTLFields
  <2>4. Deadline(ttl) # 1 /\ m_vars[k].expireRequestId = None
    BY <1>n, <2>1, <2>2 DEF Deadline
  <2>5. \A u \in Threads, j \in Keys : Claims(u, j) => Claims(u, j)'
    BY <2>1 DEF Claims
  <2> QED
    BY <2>1, <2>3, <2>4, <2>5, MarkEntry
<1>5. ASSUME NEW t \in Threads, fetchHits(t) PROVE Marks'
  <2>1. PICK v \in StoreValues, k \in Keys :
           /\ k = key[t] /\ Present(k)
           /\ m_vars' = [m_vars EXCEPT ![k] = v]
           /\ v.expireRequestId = m_vars[k].expireRequestId
           /\ v.expireTime = 1 <=> m_vars[k].expireTime = 1
    BY <1>5, HitEffect
  <2>2. \A u \in Threads, j \in Keys : Claims(u, j) => Claims(u, j)'
    <3>1. Return(t) /\ pc[t] = "fetch" /\ UNCHANGED deferred
      BY <1>5 DEF fetchHits
    <3> QED
      BY <3>1, ReturnEffect DEF Claims
  <2>3. \/ v.expireTime # 1 /\ v.expireRequestId = None
        \/ /\ v.expireTime = 1 /\ v.expireRequestId \in Threads
           /\ Claims(v.expireRequestId, k)'
    BY <2>1, <2>2 DEF Marks, Marked
  <2> QED
    BY <2>1, <2>2, <2>3, MarkEntry
<1>6. ASSUME NEW t \in Threads, fetchExpires(t) PROVE Marks'
  <2>1. PICK k \in Keys :
          /\ k = key[t] /\ Present(k) /\ pc[t] = "fetch"
          /\ m_vars' = [m_vars EXCEPT ![k] = expiredFor(m_vars[k], t)]
          /\ pc' = [pc EXCEPT ![t] = "defer"] /\ UNCHANGED <<key, deferred>>
    BY <1>6 DEF fetchExpires, Located
  <2>2. PICK v : /\ v = expiredFor(m_vars[k], t)
                 /\ v.expireRequestId = t /\ v.expireTime = 1
    BY <2>1, Entry, ExpiredForFields
  <2>3. /\ \A u \in Threads, j \in Keys : Claims(u, j) => Claims(u, j)'
        /\ Claims(v.expireRequestId, k)'
    BY <2>1, <2>2 DEF Claims, TypeOK
  <2> QED
    BY <2>1, <2>2, <2>3, MarkEntry
<1>7. ASSUME NEW t \in Threads, deferErase(t) \/ deferWaitEnds(t) PROVE Marks'
  <2>1. /\ pc[t] \in {"defer", "deferWait"} /\ key[t] \in Keys /\ UNCHANGED m_vars
        /\ \/ Return(t) /\ deferred' = [deferred EXCEPT ![t] = @ \cup {key[t]}]
           \/ pc' = [pc EXCEPT ![t] = "deferWait"] /\ UNCHANGED <<key, deferred>>
    BY <1>7 DEF deferErase, deferWaitEnds, Located
  <2>2. \A u \in Threads, j \in Keys : Claims(u, j) => Claims(u, j)'
    <3>1. CASE Return(t) /\ deferred' = [deferred EXCEPT ![t] = @ \cup {key[t]}]
      BY <2>1, <3>1, ReturnEffect DEF Claims, TypeOK
    <3>2. CASE pc' = [pc EXCEPT ![t] = "deferWait"] /\ UNCHANGED <<key, deferred>>
      BY <2>1, <3>2 DEF Claims, TypeOK
    <3> QED
      BY <2>1, <3>1, <3>2
  <2> QED
    BY <2>1, <2>2, MarkSame
<1>8. ASSUME NEW t \in Threads, NEW k \in Keys, eraseKey(t, k) PROVE Marks'
  <2>1. /\ m_vars' = [m_vars EXCEPT ![k] = None]
        /\ pc[t] = "run" /\ pc' = [pc EXCEPT ![t] = "unqueue"]
        /\ key' = [key EXCEPT ![t] = k] /\ UNCHANGED deferred
    BY <1>8 DEF eraseKey, Unlink
  <2>2. \A u \in Threads, j \in Keys : Claims(u, j) => Claims(u, j)'
    BY <2>1 DEF Claims, TypeOK
  <2> QED
    BY <2>1, <2>2, MarkEntry
<1>9. ASSUME NEW t \in Threads, NEW k \in Keys, purgeDeferred(t, k) PROVE Marks'
  <2>1. pc[t] = "deferred" /\ deferred' = [deferred EXCEPT ![t] = @ \ {k}]
    BY <1>9, PurgeDeferredEffect
  <2>2. CASE /\ m_vars' = [m_vars EXCEPT ![k] = None]
             /\ key' = [key EXCEPT ![t] = k]
             /\ pc' = [pc EXCEPT ![t] = "unqueue"]
    <3>1. \A u \in Threads, j \in Keys \ {k} : Claims(u, j) => Claims(u, j)'
      BY <2>1, <2>2 DEF Claims, TypeOK
    <3> QED
      BY <2>2, <3>1, MarkEntry
  <2>3. CASE /\ ~(Present(k) /\ expired(m_vars[k]))
             /\ UNCHANGED <<m_vars, key, pc>>
    <3>1. \A u \in Threads, j \in Keys \ {k} : Claims(u, j) => Claims(u, j)'
      BY <2>1, <2>3 DEF Claims, TypeOK
    <3>2. m_vars' = [m_vars EXCEPT ![k] = m_vars[k]]
      BY <2>3 DEF TypeOK
    <3>3. m_vars[k] # None =>
            m_vars[k].expireTime # 1 /\ m_vars[k].expireRequestId = None
      BY <1>n, <2>3 DEF Present
    <3> QED
      BY <3>1, <3>2, <3>3, MarkEntry
  <2> QED
    BY <1>9, <2>2, <2>3, PurgeDeferredEffect DEF Unlink
<1>10. ASSUME NEW t \in Threads, expire(t) PROVE Marks'
  <2>1. \A u \in Threads, j \in Keys : Claims(u, j) => Claims(u, j)'
    <3>1. /\ pc[t] = "expire" /\ pc' = [pc EXCEPT ![t] = "pop"]
          /\ UNCHANGED <<key, deferred>>
      BY <1>10, ExpireEffect DEF expire
    <3> QED
      BY <3>1 DEF Claims, TypeOK
  <2>2. m_vars' = m_vars \/ \E k \in Keys : m_vars' = [m_vars EXCEPT ![k] = None]
    BY <1>10, ExpireEffect
  <2> QED
    BY <2>1, <2>2, MarkSame, MarkEntry
<1>11. ASSUME NEW t \in Threads, pc[t] \notin {"defer", "deferWait"},
              UNCHANGED <<m_vars, deferred>>,
              \A u \in Threads \ {t} : pc'[u] = pc[u] /\ key'[u] = key[u]
       PROVE  Marks'
  BY <1>11, MarkSame DEF Claims
<1>12. ASSUME NEW t \in Threads, fetchMisses(t) \/ unqueue(t) PROVE Marks'
  <2>1. /\ Return(t) /\ pc[t] \notin {"defer", "deferWait"}
        /\ UNCHANGED <<m_vars, deferred>>
    BY <1>12 DEF fetchMisses, unqueue
  <2> QED
    BY <1>11, <2>1, ReturnEffect
<1>13. ASSUME NEW t \in Threads, purgeExpired(t) PROVE Marks'
  <2>1. /\ pc[t] = "purge" /\ UNCHANGED <<m_vars, deferred>>
        /\ Return(t) \/ (pc' = [pc EXCEPT ![t] = "pop"] /\ UNCHANGED key)
    BY <1>13 DEF purgeExpired
  <2>2. \A u \in Threads \ {t} : pc'[u] = pc[u] /\ key'[u] = key[u]
    BY <2>1, ReturnEffect DEF TypeOK
  <2> QED
    BY <1>11, <2>1, <2>2
<1>14. ASSUME NEW t \in Threads, try_pop(t) PROVE Marks'
  <2>1. /\ pc[t] = "pop" /\ UNCHANGED <<m_vars, deferred>>
        /\ Return(t) \/ (pc' = [pc EXCEPT ![t] = "find"] /\ UNCHANGED key)
    BY <1>14 DEF try_pop
  <2>2. \A u \in Threads \ {t} : pc'[u] = pc[u] /\ key'[u] = key[u]
    BY <2>1, ReturnEffect DEF TypeOK
  <2> QED
    BY <1>11, <2>1, <2>2
<1>15. ASSUME NEW t \in Threads,
              \/ dump(t) \/ requestShutdown(t) \/ requestExitEnds(t) \/ find(t)
              \/ dumpEnds(t) \/ \E k \in Keys : get(t, k)
       PROVE  Marks'
  <2>1. /\ pc[t] \notin {"defer", "deferWait"} /\ UNCHANGED <<m_vars, deferred>>
        /\ \A u \in Threads \ {t} : pc'[u] = pc[u] /\ key'[u] = key[u]
    BY <1>15 DEF dump, requestShutdown, requestExitEnds, find, dumpEnds, get, TypeOK
  <2> QED
    BY <1>11, <2>1
<1> QED
  BY <1>1, <1>2, <1>3, <1>4, <1>5, <1>6, <1>7, <1>8, <1>9, <1>10, <1>12, <1>13, <1>14,
     <1>15 DEF Next, Request, Continue, vars, Tick

-----------------------------------------------------------------------------
\* The strings of keys.

\* The threads that will free a string are the same, with the same strings.
FreersSame ==
  \A t \in Threads : /\ pc'[t] = "unqueue" <=> pc[t] = "unqueue"
                     /\ pc[t] = "unqueue" => address'[t] = address[t]

\* Entries keep their strings.
FirstsSame ==
  \A k \in Keys : /\ Present(k)' <=> Present(k)
                  /\ Present(k) => m_vars'[k].first = m_vars[k].first

\* Nothing that Owned speaks of changes.
LEMMA OwnedSame ==
  ASSUME TypeOK, Owned, FreersSame, FirstsSame, string' = string
  PROVE  Owned'
<1>1. \A k \in Keys : Present(k)' => string'[m_vars'[k].first] = k
  BY DEF Owned, FirstsSame
<1>2. \A t \in Threads : pc'[t] = "unqueue" =>
        /\ string'[address'[t]] # None
        /\ \A k \in Keys : Present(k)' => m_vars'[k].first # address'[t]
        /\ \A u \in Threads : (pc'[u] = "unqueue" /\ address'[u] = address'[t]) => u = t
  BY DEF Owned, FirstsSame, FreersSame
<1>3. \A a \in Addrs : string'[a] # None =>
        \/ Present(string[a])' /\ m_vars'[string[a]].first = a
        \/ \E t \in Threads : pc'[t] = "unqueue" /\ address'[t] = a
  <2> SUFFICES ASSUME NEW a \in Addrs, string[a] # None
               PROVE  \/ Present(string[a])' /\ m_vars'[string[a]].first = a
                      \/ \E t \in Threads : pc'[t] = "unqueue" /\ address'[t] = a
    OBVIOUS
  <2>1. PICK k \in Keys : k = string[a]
    BY DEF TypeOK
  <2>2. CASE Present(k) /\ m_vars[k].first = a
    BY <2>1, <2>2 DEF FirstsSame, Present
  <2>3. CASE \E t \in Threads : pc[t] = "unqueue" /\ address[t] = a
    BY <2>3 DEF FreersSame
  <2> QED
    BY <2>1, <2>2, <2>3 DEF Owned
<1> QED
  BY <1>1, <1>2, <1>3 DEF Owned, Present

\* An entry is stored at a string that is its own already, or was free.
LEMMA OwnedStored ==
  ASSUME TypeOK, Owned, FreersSame, NEW k \in Keys, NEW v \in StoreValues,
         m_vars' = [m_vars EXCEPT ![k] = v],
         string' = [string EXCEPT ![v.first] = k],
         IF Present(k) THEN v.first = m_vars[k].first ELSE string[v.first] = None
  PROVE  Owned'
<1>0. /\ v.first \in Addrs /\ v # None /\ k # None
      /\ \A j \in Keys : Present(j) => m_vars[j].first \in Addrs
  BY Entry DEF StoreValues
<1>1. /\ m_vars'[k] = v /\ \A j \in Keys \ {k} : m_vars'[j] = m_vars[j]
      /\ string'[v.first] = k /\ \A a \in Addrs \ {v.first} : string'[a] = string[a]
  BY <1>0 DEF TypeOK
<1>2. \A j \in Keys \ {k} : Present(j) => m_vars[j].first # v.first
  BY <1>0 DEF Owned
<1>3. \A t \in Threads : pc[t] = "unqueue" => address[t] # v.first
  BY <1>0 DEF Owned
<1>a. \A j \in Keys : Present(j)' => string'[m_vars'[j].first] = j
  BY <1>0, <1>1, <1>2 DEF Owned, Present
<1>b. \A t \in Threads : pc'[t] = "unqueue" =>
        /\ string'[address'[t]] # None
        /\ \A j \in Keys : Present(j)' => m_vars'[j].first # address'[t]
        /\ \A u \in Threads : (pc'[u] = "unqueue" /\ address'[u] = address'[t]) => u = t
  <2> SUFFICES ASSUME NEW t \in Threads, pc[t] = "unqueue", address'[t] = address[t]
               PROVE  /\ string'[address[t]] # None
                      /\ \A j \in Keys : Present(j)' => m_vars'[j].first # address[t]
                      /\ \A u \in Threads :
                           (pc'[u] = "unqueue" /\ address'[u] = address[t]) => u = t
    BY DEF FreersSame
  <2>1. string'[address[t]] = string[address[t]] /\ string[address[t]] # None
    BY <1>3 DEF Owned, TypeOK
  <2>2. \A j \in Keys : Present(j)' => m_vars'[j].first # address[t]
    BY <1>1, <1>3 DEF Owned, Present
  <2>3. \A u \in Threads : (pc'[u] = "unqueue" /\ address'[u] = address[t]) => u = t
    BY DEF Owned, FreersSame
  <2> QED
    BY <2>1, <2>2, <2>3
<1>c. \A a \in Addrs : string'[a] # None =>
        \/ m_vars'[string'[a]] # None /\ m_vars'[string'[a]].first = a
        \/ \E t \in Threads : pc'[t] = "unqueue" /\ address'[t] = a
  <2> SUFFICES ASSUME NEW a \in Addrs, string'[a] # None
               PROVE  \/ m_vars'[string'[a]] # None /\ m_vars'[string'[a]].first = a
                      \/ \E t \in Threads : pc'[t] = "unqueue" /\ address'[t] = a
    OBVIOUS
  <2>1. CASE a = v.first
    BY <1>0, <1>1, <2>1
  <2>2. CASE a # v.first
    <3>1. PICK j \in Keys : j = string[a] /\ j = string'[a] /\ j # None
      BY <1>1, <2>2 DEF TypeOK
    <3>2. CASE Present(j) /\ m_vars[j].first = a
      <4>1. j # k
        BY <2>2, <3>2
      <4> QED
        BY <1>1, <3>1, <3>2, <4>1 DEF Present
    <3>3. CASE \E t \in Threads : pc[t] = "unqueue" /\ address[t] = a
      BY <3>3 DEF FreersSame
    <3> QED
      BY <3>1, <3>2, <3>3 DEF Owned
  <2> QED
    BY <2>1, <2>2
<1> QED
  BY <1>a, <1>b, <1>c DEF Owned, Present

\* An entry is unlinked, and its string becomes the thread's to free.
LEMMA OwnedUnlinked ==
  ASSUME TypeOK, Owned, NEW t \in Threads, NEW k \in Keys, Present(k),
         pc[t] # "unqueue", pc' = [pc EXCEPT ![t] = "unqueue"],
         m_vars' = [m_vars EXCEPT ![k] = None],
         address' = [address EXCEPT ![t] = m_vars[k].first], string' = string
  PROVE  Owned'
<1>0. PICK f \in Addrs : f = m_vars[k].first /\ string[f] = k /\ k # None
  BY Entry DEF StoreValues, Owned
<1>1. /\ m_vars'[k] = None /\ \A j \in Keys \ {k} : m_vars'[j] = m_vars[j]
      /\ pc'[t] = "unqueue" /\ address'[t] = f
      /\ \A u \in Threads \ {t} : pc'[u] = pc[u] /\ address'[u] = address[u]
  BY <1>0 DEF TypeOK
<1>2. \A j \in Keys \ {k} : Present(j) => m_vars[j].first # f
  BY <1>0 DEF Owned
<1>3. \A u \in Threads : pc[u] = "unqueue" => address[u] # f
  BY <1>0 DEF Owned
<1>a. \A j \in Keys : Present(j)' => string'[m_vars'[j].first] = j
  BY <1>1 DEF Owned, Present
<1>b. \A u \in Threads : pc'[u] = "unqueue" =>
        /\ string'[address'[u]] # None
        /\ \A j \in Keys : Present(j)' => m_vars'[j].first # address'[u]
        /\ \A w \in Threads : (pc'[w] = "unqueue" /\ address'[w] = address'[u]) => w = u
  <2> SUFFICES ASSUME NEW u \in Threads, pc'[u] = "unqueue"
               PROVE  /\ string'[address'[u]] # None
                      /\ \A j \in Keys : Present(j)' => m_vars'[j].first # address'[u]
                      /\ \A w \in Threads :
                           (pc'[w] = "unqueue" /\ address'[w] = address'[u]) => w = u
    OBVIOUS
  <2>1. CASE u = t
    BY <1>0, <1>1, <1>2, <1>3, <2>1 DEF Present
  <2>2. CASE u # t
    BY <1>1, <1>3, <2>2 DEF Owned, Present
  <2> QED
    BY <2>1, <2>2
<1>c. \A a \in Addrs : string[a] # None =>
        \/ m_vars'[string[a]] # None /\ m_vars'[string[a]].first = a
        \/ \E u \in Threads : pc'[u] = "unqueue" /\ address'[u] = a
  <2> SUFFICES ASSUME NEW a \in Addrs, string[a] # None
               PROVE  \/ m_vars'[string[a]] # None /\ m_vars'[string[a]].first = a
                      \/ \E u \in Threads : pc'[u] = "unqueue" /\ address'[u] = a
    OBVIOUS
  <2>1. PICK j \in Keys : j = string[a]
    BY DEF TypeOK
  <2>2. CASE a = f
    BY <1>1, <2>2
  <2>3. CASE a # f /\ Present(j) /\ m_vars[j].first = a
    BY <1>0, <1>1, <2>1, <2>3 DEF Present
  <2>4. CASE \E u \in Threads : pc[u] = "unqueue" /\ address[u] = a
    BY <1>1, <2>4
  <2> QED
    BY <2>1, <2>2, <2>3, <2>4 DEF Owned
<1> QED
  BY <1>a, <1>b, <1>c DEF Owned, Present

\* A thread frees the string of the entry that it has unlinked.
LEMMA OwnedFreed ==
  ASSUME TypeOK, Located, Owned, NEW t \in Threads, pc[t] = "unqueue", pc'[t] # "unqueue",
         \A u \in Threads \ {t} : pc'[u] = pc[u] /\ address'[u] = address[u],
         m_vars' = m_vars, string' = [string EXCEPT ![address[t]] = None]
  PROVE  Owned'
<1>0. PICK f \in Addrs : f = address[t]
  BY DEF Located
<1>1. string'[f] = None /\ \A a \in Addrs \ {f} : string'[a] = string[a]
  BY <1>0 DEF TypeOK
<1>2. /\ \A j \in Keys : Present(j) => m_vars[j].first # f /\ m_vars[j].first \in Addrs
      /\ \A u \in Threads \ {t} : pc[u] = "unqueue" =>
           address[u] # f /\ address[u] \in Addrs
  <2>1. \A j \in Keys : Present(j) => m_vars[j].first \in Addrs
    BY Entry DEF StoreValues
  <2> QED
    BY <1>0, <2>1 DEF Owned, Located
<1>a. \A j \in Keys : Present(j)' => string'[m_vars'[j].first] = j
  BY <1>1, <1>2 DEF Owned, Present
<1>b. \A u \in Threads : pc'[u] = "unqueue" =>
        /\ string'[address'[u]] # None
        /\ \A j \in Keys : Present(j)' => m_vars'[j].first # address'[u]
        /\ \A w \in Threads : (pc'[w] = "unqueue" /\ address'[w] = address'[u]) => w = u
  BY <1>1, <1>2 DEF Owned, Present
<1>c. \A a \in Addrs : string'[a] # None =>
        \/ m_vars'[string'[a]] # None /\ m_vars'[string'[a]].first = a
        \/ \E u \in Threads : pc'[u] = "unqueue" /\ address'[u] = a
  <2> SUFFICES ASSUME NEW a \in Addrs, string'[a] # None
               PROVE  \/ m_vars[string[a]] # None /\ m_vars[string[a]].first = a
                      \/ \E u \in Threads : pc'[u] = "unqueue" /\ address'[u] = a
    BY <1>1
  <2>1. a # f /\ string[a] # None
    BY <1>1
  <2>2. CASE \E u \in Threads : pc[u] = "unqueue" /\ address[u] = a
    BY <1>0, <2>1, <2>2
  <2> QED
    BY <2>1, <2>2 DEF Owned, Present
<1> QED
  BY <1>a, <1>b, <1>c DEF Owned, Present

\* A purge removes an entry and frees the entry's string.
LEMMA OwnedExpired ==
  ASSUME TypeOK, Owned, FreersSame, NEW k \in Keys, Present(k),
         m_vars' = [m_vars EXCEPT ![k] = None],
         string' = [string EXCEPT ![m_vars[k].first] = None]
  PROVE  Owned'
<1>0. PICK f \in Addrs : f = m_vars[k].first /\ string[f] = k /\ k # None
  BY Entry DEF StoreValues, Owned
<1>1. /\ m_vars'[k] = None /\ \A j \in Keys \ {k} : m_vars'[j] = m_vars[j]
      /\ string'[f] = None /\ \A a \in Addrs \ {f} : string'[a] = string[a]
  BY <1>0 DEF TypeOK
<1>2. /\ \A j \in Keys \ {k} : Present(j) => m_vars[j].first # f
      /\ \A j \in Keys : Present(j) => m_vars[j].first \in Addrs
  <2>1. \A j \in Keys : Present(j) => m_vars[j].first \in Addrs
    BY Entry DEF StoreValues
  <2> QED
    BY <1>0, <2>1 DEF Owned
<1>3. \A u \in Threads : pc[u] = "unqueue" => address[u] # f
  BY <1>0 DEF Owned
<1>a. \A j \in Keys : Present(j)' => string'[m_vars'[j].first] = j
  BY <1>1, <1>2 DEF Owned, Present
<1>b. \A u \in Threads : pc'[u] = "unqueue" =>
        /\ string'[address'[u]] # None
        /\ \A j \in Keys : Present(j)' => m_vars'[j].first # address'[u]
        /\ \A w \in Threads : (pc'[w] = "unqueue" /\ address'[w] = address'[u]) => w = u
  <2> SUFFICES ASSUME NEW u \in Threads, pc[u] = "unqueue", address'[u] = address[u]
               PROVE  /\ string'[address[u]] # None
                      /\ \A j \in Keys : Present(j)' => m_vars'[j].first # address[u]
                      /\ \A w \in Threads :
                           (pc'[w] = "unqueue" /\ address'[w] = address[u]) => w = u
    BY DEF FreersSame
  <2>1. string'[address[u]] = string[address[u]]
    BY <1>0, <1>3 DEF TypeOK
  <2> QED
    BY <1>1, <2>1 DEF Owned, Present, FreersSame
<1>c. \A a \in Addrs : string'[a] # None =>
        \/ m_vars'[string'[a]] # None /\ m_vars'[string'[a]].first = a
        \/ \E u \in Threads : pc'[u] = "unqueue" /\ address'[u] = a
  <2> SUFFICES ASSUME NEW a \in Addrs, string'[a] # None
               PROVE  \/ m_vars'[string[a]] # None /\ m_vars'[string[a]].first = a
                      \/ \E u \in Threads : pc'[u] = "unqueue" /\ address'[u] = a
    BY <1>1
  <2>1. a # f /\ string[a] # None
    BY <1>1
  <2>2. PICK j \in Keys : j = string[a]
    BY <2>1 DEF TypeOK
  <2>3. CASE Present(j) /\ m_vars[j].first = a
    BY <1>0, <1>1, <2>1, <2>2, <2>3 DEF Present
  <2>4. CASE \E u \in Threads : pc[u] = "unqueue" /\ address[u] = a
    BY <2>4 DEF FreersSame
  <2> QED
    BY <2>1, <2>2, <2>3, <2>4 DEF Owned
<1> QED
  BY <1>a, <1>b, <1>c DEF Owned, Present

\* A step of a thread that neither has nor gets a string to free.
LEMMA FreersKept ==
  ASSUME NEW t \in Threads, pc[t] # "unqueue", pc'[t] # "unqueue",
         \A u \in Threads \ {t} : pc'[u] = pc[u] /\ address'[u] = address[u]
  PROVE  FreersSame
BY DEF FreersSame

\* An entry changes and keeps its string.
LEMMA FirstsKept ==
  ASSUME TypeOK, NEW k \in Keys, Present(k), NEW v \in StoreValues,
         m_vars' = [m_vars EXCEPT ![k] = v], v.first = m_vars[k].first
  PROVE  FirstsSame
BY DEF FirstsSame, Present, TypeOK

\* Every step leaves each string with one owner.
LEMMA OwnedStep ==
  TypeOK /\ Located /\ HotKnown /\ Owned /\ [Next]_vars => Owned'
<1> SUFFICES ASSUME TypeOK, Located, HotKnown, Owned, [Next]_vars PROVE Owned'
  OBVIOUS
<1> USE DEF tableVars, expVars, localVars, Goto
<1>1. CASE UNCHANGED <<m_vars, string, pc, address>>
  BY <1>1, OwnedSame DEF FreersSame, FirstsSame, Present
<1>2. ASSUME NEW t \in Threads, NEW k \in Keys, NEW data \in Values, NEW ttl \in Ttls,
             NEW overwrite \in BOOLEAN,
             storeImpl(t, k, data, ttls(ttl[1], ttl[2]), overwrite)
      PROVE  Owned'
  <2>1. PICK v \in StoreValues :
           /\ m_vars' = [m_vars EXCEPT ![k] = v]
           /\ IF Present(k) THEN v.first = m_vars[k].first ELSE string[v.first] = None
           /\ string' = [string EXCEPT ![v.first] = k]
    BY <1>2, StoreEffect
  <2>2. FreersSame
    BY <1>2, FreersKept DEF storeImpl, TypeOK
  <2> QED
    BY <2>1, <2>2, OwnedStored
<1>3. ASSUME NEW t \in Threads, NEW k \in Keys, NEW data \in Ints, incOrCas(t, k, data)
      PROVE  Owned'
  <2>1. /\ Present(k) /\ UNCHANGED <<string, pc, address>>
        /\ \/ m_vars' = m_vars
           \/ m_vars' = [m_vars EXCEPT ![k] = [m_vars[k] EXCEPT !.data = data]]
    BY <1>3 DEF incOrCas
  <2>2. CASE m_vars' = [m_vars EXCEPT ![k] = [m_vars[k] EXCEPT !.data = data]]
    <3>1. m_vars[k] \in StoreValues
      BY <2>1, Entry
    <3> DEFINE w == [m_vars[k] EXCEPT !.data = data]
    <3>2. w \in StoreValues /\ w.first = m_vars[k].first
      BY <3>1 DEF StoreValues, Values
    <3>3. m_vars' = [m_vars EXCEPT ![k] = w]
      BY <2>2
    <3> HIDE DEF w
    <3>4. FirstsSame
      BY <2>1, <3>2, <3>3, FirstsKept
    <3> QED
      BY <2>1, <3>4, OwnedSame DEF FreersSame
  <2> QED
    BY <1>1, <2>1, <2>2
<1>4. ASSUME NEW t \in Threads, NEW k \in Keys, NEW ttl \in {p[1] : p \in Ttls},
             extendTTL(t, k, ttl)
      PROVE  Owned'
  <2>1. /\ ttl \in Nat /\ Present(k) /\ UNCHANGED <<string, pc, address>>
        /\ m_vars' = [m_vars EXCEPT ![k] = withTTL(m_vars[k], ttl)]
    BY <1>4 DEF extendTTL
  <2>2. /\ withTTL(m_vars[k], ttl) \in StoreValues
        /\ withTTL(m_vars[k], ttl).first = m_vars[k].first
    BY <2>1, Entry, WithTTLFields
  <2>3. FirstsSame
    BY <2>1, <2>2, FirstsKept
  <2> QED
    BY <2>1, <2>3, OwnedSame DEF FreersSame
<1>5. ASSUME NEW t \in Threads, fetchHits(t) PROVE Owned'
  <2>1. PICK v \in StoreValues, k \in Keys :
           /\ Present(k) /\ m_vars' = [m_vars EXCEPT ![k] = v]
           /\ v.first = m_vars[k].first
    BY <1>5, HitEffect
  <2>2. FirstsSame
    BY <2>1, FirstsKept
  <2>3. Return(t) /\ pc[t] = "fetch" /\ string' = string
    BY <1>5 DEF fetchHits
  <2>4. FreersSame
    BY <2>3, ReturnEffect, FreersKept
  <2> QED
    BY <2>2, <2>3, <2>4, OwnedSame
<1>6. ASSUME NEW t \in Threads, fetchExpires(t) PROVE Owned'
  <2>1. PICK k \in Keys :
          /\ Present(k) /\ pc[t] = "fetch" /\ string' = string
          /\ m_vars' = [m_vars EXCEPT ![k] = expiredFor(m_vars[k], t)]
          /\ pc' = [pc EXCEPT ![t] = "defer"]
          /\ address' = [address EXCEPT ![t] = m_vars[k].first]
    BY <1>6 DEF fetchExpires, Located
  <2>2. /\ expiredFor(m_vars[k], t) \in StoreValues
        /\ expiredFor(m_vars[k], t).first = m_vars[k].first
    BY <2>1, Entry, ExpiredForFields
  <2>3. FirstsSame
    BY <2>1, <2>2, FirstsKept
  <2>4. FreersSame
    BY <2>1, FreersKept DEF TypeOK
  <2> QED
    BY <2>1, <2>3, <2>4, OwnedSame
<1>7. ASSUME NEW t \in Threads, NEW k \in Keys, eraseKey(t, k) PROVE Owned'
  BY <1>7, OwnedUnlinked DEF eraseKey, Unlink
<1>8. ASSUME NEW t \in Threads, NEW k \in Keys, purgeDeferred(t, k) PROVE Owned'
  <2>1. CASE /\ pc[t] = "deferred" /\ Present(k) /\ Unlink(t, k) /\ UNCHANGED string
             /\ pc' = [pc EXCEPT ![t] = "unqueue"]
    BY <2>1, OwnedUnlinked DEF Unlink
  <2> QED
    BY <1>1, <1>8, <2>1, PurgeDeferredEffect
<1>9. ASSUME NEW t \in Threads, unqueue(t) PROVE Owned'
  <2>1. /\ pc[t] = "unqueue" /\ Return(t) /\ UNCHANGED m_vars
        /\ string' = [string EXCEPT ![address[t]] = None]
    BY <1>9 DEF unqueue
  <2> QED
    BY <2>1, ReturnEffect, OwnedFreed
<1>10. ASSUME NEW t \in Threads, expire(t) PROVE Owned'
  <2>1. /\ pc[t] = "expire" /\ pc' = [pc EXCEPT ![t] = "pop"]
        /\ address' = [address EXCEPT ![t] = None]
        /\ \/ UNCHANGED <<m_vars, string>>
           \/ \E k \in Keys :
                /\ Present(k)
                /\ m_vars' = [m_vars EXCEPT ![k] = None]
                /\ string' = [string EXCEPT ![m_vars[k].first] = None]
    BY <1>10, ExpireEffect
  <2>2. FreersSame
    BY <2>1, FreersKept DEF TypeOK
  <2>3. CASE UNCHANGED <<m_vars, string>>
    BY <2>2, <2>3, OwnedSame DEF FirstsSame, Present
  <2> QED
    BY <2>1, <2>2, <2>3, OwnedExpired
\* The steps that leave the table alone.
<1>11. ASSUME NEW t \in Threads, pc[t] # "unqueue", pc'[t] # "unqueue",
              \A u \in Threads \ {t} : pc'[u] = pc[u] /\ address'[u] = address[u],
              UNCHANGED <<m_vars, string>>
       PROVE  Owned'
  BY <1>11, FreersKept, OwnedSame DEF FirstsSame, Present
<1>12. ASSUME NEW t \in Threads, Return(t), pc[t] # "unqueue", UNCHANGED <<m_vars, string>>
       PROVE  Owned'
  BY <1>11, <1>12, ReturnEffect
<1>13. ASSUME NEW t \in Threads,
              \/ fetchMisses(t) \/ deferErase(t) \/ deferWaitEnds(t)
              \/ purgeExpired(t) \/ try_pop(t)
       PROVE  Owned'
  <2>1. CASE Return(t)
    BY <1>12, <1>13, <2>1 DEF fetchMisses, deferErase, deferWaitEnds, purgeExpired, try_pop
  <2>2. CASE ~Return(t)
    <3>1. /\ pc[t] # "unqueue" /\ UNCHANGED <<m_vars, string>>
          /\ \E q \in {"deferWait", "pop", "find"} : pc' = [pc EXCEPT ![t] = q]
          /\ \A u \in Threads \ {t} : address'[u] = address[u]
      BY <1>13, <2>2 DEF fetchMisses, deferErase, deferWaitEnds, purgeExpired, try_pop,
        TypeOK
    <3> QED
      BY <1>11, <3>1 DEF TypeOK
  <2> QED
    BY <2>1, <2>2
<1>14. ASSUME NEW t \in Threads,
              \/ dump(t) \/ requestShutdown(t) \/ requestExitEnds(t) \/ find(t)
              \/ dumpEnds(t) \/ \E k \in Keys : get(t, k)
       PROVE  Owned'
  <2>1. /\ pc[t] # "unqueue" /\ pc'[t] # "unqueue" /\ UNCHANGED <<m_vars, string>>
        /\ \A u \in Threads \ {t} : pc'[u] = pc[u] /\ address'[u] = address[u]
    BY <1>14 DEF dump, requestShutdown, requestExitEnds, find, dumpEnds, get, TypeOK
  <2> QED
    BY <1>11, <2>1
<1> QED
  BY <1>1, <1>2, <1>3, <1>4, <1>5, <1>6, <1>7, <1>8, <1>9, <1>10, <1>13, <1>14
     DEF Next, Request, Continue, vars, Tick

-----------------------------------------------------------------------------
\* The invariant and what it says.

\* It holds at first.
LEMMA InitIInv == Init => IInv
<1> SUFFICES ASSUME Init PROVE IInv
  OBVIOUS
<1>1. TypeOK
  <2>1. BagToSet(m_expQueue) \subseteq Addrs \X Nat
    BY DEF Init, EmptyBag, BagToSet, SetToBag
  <2>2. {t \in Threads : pc[t] = "dump"} = {writer} \ {None}
    BY DEF Init
  <2> QED
    BY <2>1, <2>2 DEF Init, TypeOK
<1>2. Located /\ HotKnown /\ Marks /\ Owned
  BY DEF Init, Located, HotKnown, Marks, Owned, Present
<1> QED
  BY <1>1, <1>2 DEF IInv

\* It is inductive.
LEMMA Invariance == IInv /\ [Next]_vars => IInv'
<1> SUFFICES ASSUME IInv, [Next]_vars PROVE IInv'
  OBVIOUS
<1>1. TypeOK' /\ Located'
  BY TypeStep DEF IInv
<1>2. HotKnown' /\ Marks' /\ Owned'
  BY HotStep, MarkStep, OwnedStep DEF IInv
<1> QED
  BY <1>1, <1>2 DEF IInv

\* Every reachable state satisfies it.
THEOREM Invariant == Spec => []IInv
BY InitIInv, Invariance, PTL DEF Spec

\* Every variable keeps its type, only values the HotCache supports get into
\* it, and only the thread that m_lock belongs to dumps.
THEOREM TypeCorrect == Spec => []TypeOK
<1>1. IInv => TypeOK
  BY DEF IInv
<1> QED
  BY <1>1, Invariant, PTL

\* The HotCache, which fetches read without a lock, never has a value that
\* the table does not have.
THEOREM HotIsCoherent == Spec => []HotMatchesStore
<1>1. IInv => HotMatchesStore
  BY DEF IInv, HotKnown, HotMatchesStore
<1> QED
  BY <1>1, Invariant, PTL

\* An entry that checkExpire has marked is on the list of the request that
\* marked it, or that request is about to put it there; no other entry is
\* marked.
THEOREM MarkedIsDeferred == Spec => []DeferredHasOwner
<1>1. IInv => DeferredHasOwner
  BY DEF IInv, Marks, Marked, Claims, DeferredHasOwner
<1> QED
  BY <1>1, Invariant, PTL

\* The image of a finite set under a function that is one to one.
LEMMA ImageCardinality ==
  ASSUME NEW S, IsFiniteSet(S), NEW f, f \in [S -> {f[x] : x \in S}],
         \A x, y \in S : f[x] = f[y] => x = y
  PROVE  /\ IsFiniteSet({f[x] : x \in S})
         /\ Cardinality({f[x] : x \in S}) = Cardinality(S)
<1> DEFINE T == {f[x] : x \in S}
<1>0. \A y \in T : \E x \in S : f[x] = y
  OBVIOUS
<1>1. f \in Surjection(S, T) /\ f \in Injection(S, T)
  <2> HIDE DEF T
  <2>1. f \in [S -> T]
    BY DEF T
  <2> QED
    BY <1>0, <2>1 DEF Surjection, Injection, IsInjective
<1> HIDE DEF T
<1>2. IsFiniteSet(T) /\ Cardinality(T) = Cardinality(S)
  BY <1>1, FS_Surjection
<1> QED
  BY <1>2 DEF T

\* The strings that are allocated are those of the entries and those that
\* threads are about to free, each counted once.
LEMMA OwnedAccounts == IInv => KeysAccounted
<1> SUFFICES ASSUME IInv PROVE KeysAccounted
  OBVIOUS
<1> USE DEF IInv
<1> DEFINE Freeing == {t \in Threads : pc[t] = "unqueue"}
           Entries == {k \in Keys : Present(k)}
           Used == {a \in Addrs : string[a] # None}
           Firsts == {m_vars[k].first : k \in Entries}
           Freed == {address[t] : t \in Freeing}
<1>1. /\ \A k \in Entries : m_vars[k].first \in Addrs /\ string[m_vars[k].first] = k
      /\ \A t \in Freeing : address[t] \in Addrs /\ string[address[t]] # None
  <2>1. \A k \in Entries : m_vars[k].first \in Addrs
    BY Entry DEF StoreValues
  <2> QED
    BY <2>1 DEF Owned, Located
<1>2. Used = Firsts \cup Freed
  <2>1. Firsts \cup Freed \subseteq Used
    BY <1>1
  <2>2. ASSUME NEW a \in Used PROVE a \in Firsts \cup Freed
    <3>1. PICK k \in Keys : k = string[a]
      BY DEF TypeOK
    <3> QED
      BY <3>1 DEF Owned
  <2> QED
    BY <2>1, <2>2
<1>3. Firsts \cap Freed = {}
  BY DEF Owned
<1>4. IsFiniteSet(Firsts) /\ Cardinality(Firsts) = Cardinality(Entries)
  <2>1. IsFiniteSet(Entries)
    BY FS_Subset
  <2> DEFINE f == [k \in Entries |-> m_vars[k].first]
  <2>2. \A x, y \in Entries : f[x] = f[y] => x = y
    BY <1>1
  <2>3. Firsts = {f[x] : x \in Entries}
    OBVIOUS
  <2>4. f \in [Entries -> {f[x] : x \in Entries}]
    OBVIOUS
  <2> HIDE DEF f, Entries, Firsts
  <2> QED
    BY <2>1, <2>2, <2>3, <2>4, ImageCardinality
<1>5. IsFiniteSet(Freed) /\ Cardinality(Freed) = Cardinality(Freeing)
  <2>1. IsFiniteSet(Freeing)
    BY FS_Subset
  <2> DEFINE f == [t \in Freeing |-> address[t]]
  <2>2. \A x, y \in Freeing : f[x] = f[y] => x = y
    BY DEF Owned
  <2>3. Freed = {f[x] : x \in Freeing}
    OBVIOUS
  <2>4. f \in [Freeing -> {f[x] : x \in Freeing}]
    OBVIOUS
  <2> HIDE DEF f, Freeing, Freed
  <2> QED
    BY <2>1, <2>2, <2>3, <2>4, ImageCardinality
<1>6. Cardinality(Firsts \cup Freed) = Cardinality(Firsts) + Cardinality(Freed)
  <2> HIDE DEF Firsts, Freed
  <2>1. Cardinality(Firsts \cap Freed) = 0
    BY <1>3, FS_EmptySet
  <2>2. Cardinality(Firsts) \in Nat /\ Cardinality(Freed) \in Nat
    BY <1>4, <1>5, FS_CardinalityType
  <2>3. Cardinality(Firsts \cup Freed) =
          Cardinality(Firsts) + Cardinality(Freed) - Cardinality(Firsts \cap Freed)
    BY <1>4, <1>5, FS_Union
  <2> QED
    BY <2>1, <2>2, <2>3
<1> HIDE DEF Freeing, Entries, Used, Firsts, Freed
<1>7. Used = Firsts \cup Freed /\ Cardinality(Used) = Cardinality(Entries) + Cardinality(Freeing)
  BY <1>2, <1>4, <1>5, <1>6
<1> QED
  BY <1>7 DEF KeysAccounted, Freeing, Entries, Used, Firsts, Freed

\* A key's string is freed once, by whoever takes its entry out of the table,
\* and is not freed while the entry is there: however purges, erasures and
\* stores interleave.
THEOREM StringsAreAccounted == Spec => []KeysAccounted
BY Invariant, OwnedAccounts, PTL
=============================================================================
