------------------------ MODULE ConcurrentSharedStore ------------------------
(***************************************************************************)
(* APC's table of shared values                                            *)
(* (hphp/runtime/base/concurrent-shared-store.cpp): the map from keys to   *)
(* values with their expiration times, the lock-free HotCache in front of  *)
(* it, and the set and queue by which expired entries are found.           *)
(*                                                                         *)
(* m_vars and m_expSet are TBB hash maps whose elements are locked by      *)
(* accessors.  An accessor of m_vars is never kept while its thread waits  *)
(* for anything, so what is done under it is one step; an accessor of      *)
(* m_expSet is kept, and so is m_lock, which operations share and dumps    *)
(* take for themselves.  m_lock is a folly::SharedMutex: it lets nobody in *)
(* while a writer waits.                                                   *)
(*                                                                         *)
(* Each thread runs one request after the other.  A step reads the clock   *)
(* once.  TTLs are not limited by the configuration, nobody primes values, *)
(* and objects, which only differ in that a fetch may replace them by an   *)
(* equal value, are left out.                                              *)
(***************************************************************************)
EXTENDS Integers, FiniteSets, Bags

CONSTANTS
  Threads,
  Operations,    \* which operations the requests of each thread ask for
  Keys,
  Addrs,         \* where key strings are allocated
  Strings,       \* values the HotCache takes (uncounted)
  Ints,          \* values it does not take
  Ttls,          \* pairs <<max_ttl, bump_ttl>> that values are stored with
  MaxBumpTTL,    \* the largest bumpTTL (a uint16_t)
  ExpireOnSets,  \* does a store purge (ExpireOnSets without UseUncounted)?
  PurgeInterval, \* seconds between two purges
  StartTime,     \* the clock at first; 1 is what marks deferred expiration
  MaxTime,       \* bound: the clock, in seconds
  MaxQueued,     \* bound: items in m_expQueue
  None

Values == Strings \cup Ints

\* StoreValue and its key: where the key's string is, the value, when it is
\* given up, and which request has seen it expired.
StoreValues ==
  [first : Addrs, data : Values, expireTime : Nat, bumpTTL : Nat,
   maxExpireTime : Nat, expireRequestId : Threads \cup {None},
   hotIndex : BOOLEAN]

ASSUME StoreAssumption ==
  /\ Operations \in [Threads -> SUBSET {"store", "update", "extend", "get",
                                       "erase", "dump", "end"}]
  /\ Ttls \subseteq Nat \X Nat
  /\ MaxBumpTTL \in Nat
  /\ ExpireOnSets \in BOOLEAN
  /\ PurgeInterval \in Nat \ {0}
  /\ StartTime \in Nat \ {0, 1}
  /\ MaxTime \in Nat /\ StartTime <= MaxTime
  /\ MaxQueued \in Nat
  /\ None \notin Keys \cup Addrs \cup Values \cup Threads
  /\ None \notin StoreValues
  /\ IsFiniteSet(Keys) /\ IsFiniteSet(Threads)

VARIABLES
  m_vars,          \* each key's StoreValue, or None
  m_hotMap,        \* each key's value in the HotCache, or None
  string,          \* the string at each address, None if it is free
  m_expSet,        \* addresses of keys that are to be expired
  m_expQueue,      \* bag of <<address, time>>, the earliest first
  m_lastPurgeTime,
  now,             \* the clock
  writer,          \* the thread that has or wants m_lock for itself
  pc,              \* where each thread is
  exiting,         \* is its request in requestShutdown or requestExit?
  deferred,        \* its request's m_apcDeferredExpire
  key,             \* the key it works on
  address,         \* the address of the key it works on
  purgeTime,       \* now, as purgeExpired read it
  accessor,        \* its ExpSet::accessor: is the element still in the set?
  waitsFor         \* the thread whose accessor m_expSet.erase waits for

tableVars == <<m_vars, m_hotMap, string>>
expVars == <<m_expSet, m_expQueue>>
localVars == <<key, address, purgeTime>>
vars == <<tableVars, expVars, m_lastPurgeTime, now, writer, pc, exiting,
          deferred, localVars, accessor, waitsFor>>

Present(k) == m_vars[k] # None

Goto(t, from, to) == pc[t] = from /\ pc' = [pc EXCEPT ![t] = to]

\* Back to the request, or to the rest of its end.
Return(t) ==
  /\ pc' = [pc EXCEPT ![t] = IF exiting[t] THEN "deferred" ELSE "run"]
  /\ key' = [key EXCEPT ![t] = None]
  /\ address' = [address EXCEPT ![t] = None]
  /\ purgeTime' = [purgeTime EXCEPT ![t] = 0]

-----------------------------------------------------------------------------
\* StoreValue

expired(sval) == sval.expireTime # 0 /\ now >= sval.expireTime

\* Mutant: the halfway point counts although it is over.
queueExpireHalf(sval) ==
  IF sval.expireTime = 0 \/ sval.bumpTTL = 0 THEN sval.expireTime
  ELSE sval.expireTime - (sval.bumpTTL \div 2)

\* When the entry is to be looked at: halfway before it expires if a fetch may
\* then prolong it, but not in the past.
queueExpire(sval) ==
  LET half == sval.expireTime - (sval.bumpTTL \div 2)
  IN IF sval.expireTime = 0 \/ sval.bumpTTL = 0 \/ half <= now
     THEN sval.expireTime ELSE half

\* What storeImpl makes of the TTLs it is given.
ttls(max, bump) ==
  LET bumpTTL == IF max # 0 /\ bump >= max THEN 0
                 ELSE IF bump <= MaxBumpTTL THEN bump ELSE MaxBumpTTL
  IN [max |-> max, bump |-> bumpTTL,
      expire |-> IF bumpTTL = 0 THEN max ELSE bumpTTL]

Deadline(ttl) == IF ttl = 0 THEN 0 ELSE now + ttl

\* Mutant: the request that expired the old value stays on record.
setKeepsRequest(sval, data, ttl) ==
  [sval EXCEPT !.data = data,
               !.expireTime = Deadline(ttl.expire),
               !.bumpTTL = ttl.bump,
               !.maxExpireTime = Deadline(ttl.max)]

set(sval, data, ttl) ==
  [sval EXCEPT !.data = data,
               !.expireRequestId = None,
               !.expireTime = Deadline(ttl.expire),
               !.bumpTTL = ttl.bump,
               !.maxExpireTime = Deadline(ttl.max)]

\* A new StoreValue at address a.
New(a) == [first |-> a, data |-> None, expireTime |-> 0, bumpTTL |-> 0,
           maxExpireTime |-> 0, expireRequestId |-> None, hotIndex |-> FALSE]

\* HotCache::clearValue: hotIndex tells whether the value was ever stored.
clearValue(k) ==
  IF m_vars[k].hotIndex THEN [m_hotMap EXCEPT ![k] = None] ELSE m_hotMap

-----------------------------------------------------------------------------
\* m_lock, and the accessors of m_expSet.

\* Threads that wait for an element of m_expSet with m_lock shared.
Sharing == {t \in Threads : pc[t] \in {"unqueue", "defer", "deferWait"}}

\* Threads that keep an accessor to k's entry while they wait: none, since
\* m_vars.erase and acc.release come before the wait for m_expSet.
MapHolders(k) == {}

\* The entry of k can be used: m_lock can be shared, since no writer has it or
\* waits for it, and the entry is not locked.
CanUse(k) == writer = None /\ MapHolders(k) = {}

\* The thread whose accessor locks a's element of m_expSet.
Holders(a) ==
  {t \in Threads : pc[t] = "expire" /\ address[t] = a /\ accessor[t]}

\* Dumps and samples only read the table, but nobody else may use it.
dump(t) ==
  /\ writer = None
  /\ Goto(t, "run", "dump")
  /\ writer' = t
  /\ UNCHANGED <<tableVars, expVars, m_lastPurgeTime, now, exiting, deferred,
                 localVars, accessor, waitsFor>>

dumpEnds(t) ==
  /\ Goto(t, "dump", "run")
  /\ Sharing = {}
  /\ writer' = None
  /\ UNCHANGED <<tableVars, expVars, m_lastPurgeTime, now, exiting, deferred,
                 localVars, accessor, waitsFor>>

Tick ==
  /\ now < MaxTime
  /\ now' = now + 1
  /\ UNCHANGED <<tableVars, expVars, m_lastPurgeTime, writer, pc, exiting,
                 deferred, localVars, accessor, waitsFor>>

-----------------------------------------------------------------------------
\* Storing.

\* An entry with a deadline is queued unless it is queued already.
Queue(sval) ==
  LET item == <<sval.first, queueExpire(sval)>>
  IN IF item[2] # 0 /\ sval.first \notin m_expSet
     THEN /\ BagCardinality(m_expQueue) < MaxQueued
          /\ m_expSet' = m_expSet \cup {sval.first}
          /\ m_expQueue' = m_expQueue (+) SetToBag({item})
     ELSE UNCHANGED expVars

\* add (not overwrite) and set.  A key that is new gets a string of its own.
storeImpl(t, k, data, ttl, overwrite) ==
  /\ pc[t] = "run"
  /\ CanUse(k)
  /\ \E sval \in IF Present(k) THEN {m_vars[k]}
                 ELSE {New(a) : a \in {b \in Addrs : string[b] = None}} :
       /\ Present(k) => overwrite \/ expired(sval)
       /\ m_hotMap' = IF Present(k) THEN clearValue(k) ELSE m_hotMap
       /\ string' = [string EXCEPT ![sval.first] = k]
       /\ m_vars' = [m_vars EXCEPT ![k] = set(sval, data, ttl)]
       /\ Queue(set(sval, data, ttl))
  /\ pc' = [pc EXCEPT ![t] = IF ExpireOnSets THEN "purge" ELSE "run"]
  /\ UNCHANGED <<m_lastPurgeTime, now, writer, exiting, deferred, localVars,
                 accessor, waitsFor>>

\* inc and cas; cas clears the HotCache before it looks at the value.
incOrCas(t, k, data) ==
  /\ pc[t] = "run"
  /\ CanUse(k)
  /\ Present(k) /\ ~expired(m_vars[k])
  /\ m_hotMap' = clearValue(k)
  /\ m_vars' = IF m_vars[k].data \in Ints
               THEN [m_vars EXCEPT ![k] = [@ EXCEPT !.data = data]] ELSE m_vars
  /\ UNCHANGED <<string, expVars, m_lastPurgeTime, now, writer, pc, exiting,
                 deferred, localVars, accessor, waitsFor>>

\* The entry with a deadline that fetches do not prolong, or with none.
withTTL(sval, ttl) ==
  [sval EXCEPT !.expireTime = Deadline(ttl),
               !.bumpTTL = 0,
               !.maxExpireTime = Deadline(ttl)]

\* A deadline can only be moved to later, or be lifted.
extendTTL(t, k, ttl) ==
  /\ pc[t] = "run"
  /\ CanUse(k)
  /\ Present(k) /\ ~expired(m_vars[k])
  /\ m_vars[k].expireTime # 0
  /\ ttl = 0 \/ now + ttl > m_vars[k].expireTime
  /\ m_vars' = [m_vars EXCEPT ![k] = withTTL(@, ttl)]
  /\ UNCHANGED <<m_hotMap, string, expVars, m_lastPurgeTime, now, writer, pc,
                 exiting, deferred, localVars, accessor, waitsFor>>

-----------------------------------------------------------------------------
\* Fetching: get and exists.

\* Not in the HotCache.
get(t, k) ==
  /\ m_hotMap[k] = None
  /\ Goto(t, "run", "fetch")
  /\ key' = [key EXCEPT ![t] = k]
  /\ UNCHANGED <<tableVars, expVars, m_lastPurgeTime, now, writer, exiting,
                 deferred, address, purgeTime, accessor, waitsFor>>

\* The first fetch of an entry that has expired; the request that made it is
\* the only one that is told so, and has to store a new value.
FirstToExpire(sval) ==
  sval.expireTime > 1 /\ now >= sval.expireTime /\ sval.expireRequestId = None

\* Did request t expire the value?
ExpiredBy(t, sval) == sval.expireTime = 1 /\ sval.expireRequestId = t

\* A fetch in the second half of bumpTTL prolongs the entry.
bump(sval) ==
  IF /\ sval.expireTime > 1 /\ now < sval.expireTime
     /\ sval.bumpTTL # 0
     /\ sval.expireTime - now <= sval.bumpTTL \div 2
     /\ sval.expireTime < sval.maxExpireTime
  THEN LET later == now + sval.bumpTTL
       IN [sval EXCEPT !.expireTime =
             IF later < sval.maxExpireTime THEN later ELSE sval.maxExpireTime]
  ELSE sval

\* There is no value.
fetchMisses(t) ==
  /\ pc[t] = "fetch"
  /\ CanUse(key[t])
  /\ Present(key[t]) => ExpiredBy(t, m_vars[key[t]])
  /\ Return(t)
  /\ UNCHANGED <<tableVars, expVars, m_lastPurgeTime, now, writer, exiting,
                 deferred, accessor, waitsFor>>

\* Mutant: every kind of value is cached.
supportedKindAny(data) == TRUE

supportedKind(data) == data \in Strings

\* Mutant: the entry does not know of its place in the HotCache.
hotStoreUnrecorded(sval) == sval

\* HotCache::store records the place in the entry.
hotStore(sval) == [sval EXCEPT !.hotIndex = TRUE]

\* There is one; get then puts it in the HotCache, if that has room.
fetchHits(t) ==
  LET k == key[t]
      sval == m_vars[k]
  IN /\ pc[t] = "fetch"
     /\ CanUse(k)
     /\ Present(k) /\ ~ExpiredBy(t, sval) /\ ~FirstToExpire(sval)
     /\ Return(t)
     /\ \/ /\ supportedKind(sval.data)
           /\ m_vars' = [m_vars EXCEPT ![k] = hotStore(bump(sval))]
           /\ m_hotMap' = [m_hotMap EXCEPT ![k] = sval.data]
        \/ /\ m_vars' = [m_vars EXCEPT ![k] = bump(sval)]
           /\ UNCHANGED m_hotMap
  /\ UNCHANGED <<string, expVars, m_lastPurgeTime, now, writer, exiting,
                 deferred, accessor, waitsFor>>

\* The entry with the mark of the request t that is to erase it.
expiredFor(sval, t) ==
  [sval EXCEPT !.expireRequestId = t, !.expireTime = 1]

\* The entry has expired and this request is the first to see it.
fetchExpires(t) ==
  LET k == key[t]
  IN /\ Goto(t, "fetch", "defer")
     /\ CanUse(k)
     /\ Present(k) /\ FirstToExpire(m_vars[k])
     /\ m_vars' = [m_vars EXCEPT ![k] = expiredFor(@, t)]
     /\ address' = [address EXCEPT ![t] = m_vars[k].first]
  /\ UNCHANGED <<m_hotMap, string, expVars, m_lastPurgeTime, now, writer,
                 exiting, deferred, key, purgeTime, accessor, waitsFor>>

\* m_expSet.erase(key) takes the element out and only then waits for the
\* thread that has an accessor to it; after that the key is noted for the
\* request's end.
deferErase(t) ==
  LET a == address[t]
  IN /\ pc[t] = "defer"
     /\ m_expSet' = m_expSet \ {a}
     /\ IF Holders(a) = {}
        THEN /\ Return(t)
             /\ deferred' = [deferred EXCEPT ![t] = @ \cup {key[t]}]
             /\ UNCHANGED <<accessor, waitsFor>>
        ELSE /\ Goto(t, "defer", "deferWait")
             /\ \E p \in Holders(a) :
                  /\ accessor' = [accessor EXCEPT ![p] = FALSE]
                  /\ waitsFor' = [waitsFor EXCEPT ![t] = p]
             /\ UNCHANGED <<deferred, localVars>>
  /\ UNCHANGED <<tableVars, m_expQueue, m_lastPurgeTime, now, writer, exiting>>

deferWaitEnds(t) ==
  /\ pc[t] = "deferWait"
  /\ waitsFor[t] = None
  /\ Return(t)
  /\ deferred' = [deferred EXCEPT ![t] = @ \cup {key[t]}]
  /\ UNCHANGED <<tableVars, expVars, m_lastPurgeTime, now, writer, exiting,
                 accessor, waitsFor>>

-----------------------------------------------------------------------------
\* Erasing: eraseImpl as eraseKey and purgeDeferred call it.

\* Take the entry out of the table; its key is freed once it is out of
\* m_expSet as well.
Unlink(t, k) ==
  /\ m_hotMap' = clearValue(k)
  /\ m_vars' = [m_vars EXCEPT ![k] = None]
  /\ key' = [key EXCEPT ![t] = k]
  /\ address' = [address EXCEPT ![t] = m_vars[k].first]

eraseKey(t, k) ==
  /\ CanUse(k)
  /\ Present(k)
  /\ Goto(t, "run", "unqueue")
  /\ Unlink(t, k)
  /\ UNCHANGED <<string, expVars, m_lastPurgeTime, now, writer, exiting,
                 deferred, purgeTime, accessor, waitsFor>>

\* m_expSet.find waits for who has an accessor to the element.
unqueue(t) ==
  /\ pc[t] = "unqueue"
  /\ Holders(address[t]) = {}
  /\ m_expSet' = m_expSet \ {address[t]}
  /\ string' = [string EXCEPT ![address[t]] = None]
  /\ Return(t)
  /\ UNCHANGED <<m_vars, m_hotMap, m_expQueue, m_lastPurgeTime, now, writer,
                 exiting, deferred, accessor, waitsFor>>

\* One of the keys that fetches of this request expired, unless somebody has
\* stored or erased it since.
purgeDeferred(t, k) ==
  /\ pc[t] = "deferred"
  /\ k \in deferred[t]
  /\ CanUse(k)
  /\ deferred' = [deferred EXCEPT ![t] = @ \ {k}]
  /\ IF Present(k) /\ expired(m_vars[k])
     THEN Goto(t, "deferred", "unqueue") /\ Unlink(t, k)
     ELSE /\ m_hotMap' = IF Present(k) /\ queueExpire(m_vars[k]) # 0
                         THEN clearValue(k) ELSE m_hotMap
          /\ UNCHANGED <<m_vars, key, address, pc>>
  /\ UNCHANGED <<string, expVars, m_lastPurgeTime, now, writer, exiting,
                 purgeTime, accessor, waitsFor>>

\* The end of a request: requestShutdown purges, requestExit erases what the
\* request's fetches expired.
requestShutdown(t) ==
  /\ Goto(t, "run", "purge")
  /\ exiting' = [exiting EXCEPT ![t] = TRUE]
  /\ UNCHANGED <<tableVars, expVars, m_lastPurgeTime, now, writer, deferred,
                 localVars, accessor, waitsFor>>

requestExitEnds(t) ==
  /\ deferred[t] = {}
  /\ Goto(t, "deferred", "run")
  /\ exiting' = [exiting EXCEPT ![t] = FALSE]
  /\ UNCHANGED <<tableVars, expVars, m_lastPurgeTime, now, writer, deferred,
                 localVars, accessor, waitsFor>>

-----------------------------------------------------------------------------
\* Purging: purgeExpired, and eraseImpl as it calls it.

purgeExpired(t) ==
  /\ pc[t] = "purge"
  /\ IF now < m_lastPurgeTime + PurgeInterval
     THEN Return(t) /\ UNCHANGED m_lastPurgeTime
     ELSE /\ Goto(t, "purge", "pop")
          /\ m_lastPurgeTime' = now
          /\ purgeTime' = [purgeTime EXCEPT ![t] = now]
          /\ UNCHANGED <<key, address>>
  /\ UNCHANGED <<tableVars, expVars, now, writer, exiting, deferred, accessor,
                 waitsFor>>

\* The items try_pop may return.
Earliest ==
  {i \in BagToSet(m_expQueue) :
     \A j \in BagToSet(m_expQueue) : i[2] <= j[2]}

\* An item whose time has not come is put back and ends the purge.
try_pop(t) ==
  /\ pc[t] = "pop"
  /\ IF \A i \in Earliest : i[2] > purgeTime[t]
     THEN Return(t) /\ UNCHANGED m_expQueue
     ELSE \E i \in Earliest :
            /\ m_expQueue' = m_expQueue (-) SetToBag({i})
            /\ address' = [address EXCEPT ![t] = i[1]]
            /\ Goto(t, "pop", "find")
            /\ UNCHANGED <<key, purgeTime>>
  /\ UNCHANGED <<tableVars, m_expSet, m_lastPurgeTime, now, writer, exiting,
                 deferred, accessor, waitsFor>>

\* m_expSet.find: an item whose key is no longer in the set is dropped, one
\* that somebody has an accessor to is waited for.
find(t) ==
  /\ pc[t] = "find"
  /\ Holders(address[t]) = {}
  /\ IF address[t] \in m_expSet
     THEN /\ accessor' = [accessor EXCEPT ![t] = TRUE]
          /\ Goto(t, "find", "expire")
          /\ UNCHANGED address
     ELSE /\ address' = [address EXCEPT ![t] = None]
          /\ Goto(t, "find", "pop")
          /\ UNCHANGED accessor
  /\ UNCHANGED <<tableVars, expVars, m_lastPurgeTime, now, writer, exiting,
                 deferred, key, purgeTime, waitsFor>>

\* Let go of the element, whether or not it is still in the set.
Release(t) ==
  /\ Goto(t, "expire", "pop")
  /\ accessor' = [accessor EXCEPT ![t] = FALSE]
  /\ waitsFor' = [u \in Threads |->
                    IF waitsFor[u] = t THEN None ELSE waitsFor[u]]
  /\ address' = [address EXCEPT ![t] = None]

\* What (char*)tmp.first reads as: anything, if the key has been freed.
KeysAt(a) == IF string[a] = None THEN Keys \cup {None} ELSE {string[a]}

Absent(k) == k \in Keys => ~Present(k)

\* No such entry.
expireNothing(t, k) ==
  /\ Absent(k)
  /\ UNCHANGED <<tableVars, expVars>>

\* The entry has been given a later time, or has none any more.
expireLater(t, k) ==
  /\ ~Absent(k)
  /\ LET sval == m_vars[k]
         expiry == queueExpire(sval)
     IN /\ ~expired(sval)
        /\ IF expiry = 0 THEN UNCHANGED <<m_hotMap, m_expQueue>>
           ELSE /\ m_hotMap' = clearValue(k)
                /\ m_expQueue' =
                     m_expQueue (+) SetToBag({<<sval.first, expiry>>})
  /\ UNCHANGED <<m_vars, string, m_expSet>>

\* Mutant: the key that was popped is freed, not the entry's.
expireNowFreesPopped(t, k) ==
  /\ ~Absent(k)
  /\ expired(m_vars[k])
  /\ m_hotMap' = clearValue(k)
  /\ m_vars' = [m_vars EXCEPT ![k] = None]
  /\ m_expSet' = m_expSet \ (IF accessor[t] THEN {address[t]} ELSE {})
  /\ string' = [string EXCEPT ![address[t]] = None]
  /\ UNCHANGED m_expQueue

\* The entry has expired.  If the key was stored again since its address was
\* queued, the element of m_expSet and the key freed are not the same address.
expireNow(t, k) ==
  /\ ~Absent(k)
  /\ expired(m_vars[k])
  /\ m_hotMap' = clearValue(k)
  /\ m_vars' = [m_vars EXCEPT ![k] = None]
  /\ m_expSet' = m_expSet \ (IF accessor[t] THEN {address[t]} ELSE {})
  /\ string' = [string EXCEPT ![m_vars[k].first] = None]
  /\ UNCHANGED m_expQueue

\* eraseImpl with the accessor.
expire(t) ==
  /\ pc[t] = "expire"
  /\ writer = None
  /\ \E k \in KeysAt(address[t]) :
       /\ MapHolders(k) = {}
       /\ expireNothing(t, k) \/ expireLater(t, k) \/ expireNow(t, k)
  /\ Release(t)
  /\ UNCHANGED <<m_lastPurgeTime, now, writer, exiting, deferred, key,
                 purgeTime>>

-----------------------------------------------------------------------------
Init ==
  /\ m_vars = [k \in Keys |-> None]
  /\ m_hotMap = [k \in Keys |-> None]
  /\ string = [a \in Addrs |-> None]
  /\ m_expSet = {}
  /\ m_expQueue = EmptyBag
  /\ m_lastPurgeTime = 0
  /\ now = StartTime
  /\ writer = None
  /\ pc = [t \in Threads |-> "run"]
  /\ exiting = [t \in Threads |-> FALSE]
  /\ deferred = [t \in Threads |-> {}]
  /\ key = [t \in Threads |-> None]
  /\ address = [t \in Threads |-> None]
  /\ purgeTime = [t \in Threads |-> 0]
  /\ accessor = [t \in Threads |-> FALSE]
  /\ waitsFor = [t \in Threads |-> None]

\* What a request asks for.
Request(t) ==
  \/ /\ "store" \in Operations[t]
     /\ \E k \in Keys, data \in Values, ttl \in Ttls, overwrite \in BOOLEAN :
          storeImpl(t, k, data, ttls(ttl[1], ttl[2]), overwrite)
  \/ /\ "update" \in Operations[t]
     /\ \E k \in Keys, data \in Ints : incOrCas(t, k, data)
  \/ /\ "extend" \in Operations[t]
     /\ \E k \in Keys, ttl \in {p[1] : p \in Ttls} : extendTTL(t, k, ttl)
  \/ "get" \in Operations[t] /\ \E k \in Keys : get(t, k)
  \/ "erase" \in Operations[t] /\ \E k \in Keys : eraseKey(t, k)
  \/ "dump" \in Operations[t] /\ dump(t)
  \/ "end" \in Operations[t] /\ requestShutdown(t)

\* The rest of what it has asked for.
Continue(t) ==
  \/ fetchMisses(t) \/ fetchHits(t) \/ fetchExpires(t)
  \/ deferErase(t) \/ deferWaitEnds(t)
  \/ unqueue(t)
  \/ \E k \in Keys : purgeDeferred(t, k)
  \/ requestExitEnds(t)
  \/ purgeExpired(t) \/ try_pop(t) \/ find(t) \/ expire(t)
  \/ dumpEnds(t)

Next == Tick \/ \E t \in Threads : Request(t) \/ Continue(t)

Spec == Init /\ [][Next]_vars

\* Threads go on with what they have begun.
FairSpec == Spec /\ \A t \in Threads : WF_vars(Continue(t))

-----------------------------------------------------------------------------
\* Properties.

\* Types; nobody but the thread that has asked for m_lock dumps, and only
\* values that the HotCache takes get there.
TypeOK ==
  /\ m_vars \in [Keys -> StoreValues \cup {None}]
  /\ m_hotMap \in [Keys -> Strings \cup {None}]
  /\ string \in [Addrs -> Keys \cup {None}]
  /\ m_expSet \subseteq Addrs
  /\ BagToSet(m_expQueue) \subseteq Addrs \X Nat
  /\ m_lastPurgeTime \in 0 .. MaxTime
  /\ now \in StartTime .. MaxTime
  /\ pc \in [Threads -> {"run", "fetch", "defer", "deferWait", "unqueue",
                         "purge", "pop", "find", "expire", "deferred",
                         "dump"}]
  /\ {t \in Threads : pc[t] = "dump"} = {writer} \ {None}
  /\ exiting \in [Threads -> BOOLEAN]
  /\ deferred \in [Threads -> SUBSET Keys]
  /\ key \in [Threads -> Keys \cup {None}]
  /\ address \in [Threads -> Addrs \cup {None}]
  /\ purgeTime \in [Threads -> 0 .. MaxTime]
  /\ accessor \in [Threads -> BOOLEAN]
  /\ waitsFor \in [Threads -> Threads \cup {None}]

\* The HotCache, which is read without any lock and knows nothing of
\* expiration, only has values that the table has: whoever replaces or removes
\* an entry finds and clears its copy.
HotMatchesStore ==
  \A k \in Keys :
    m_hotMap[k] # None => Present(k) /\ m_hotMap[k] = m_vars[k].data

\* An entry that a fetch has expired is refilled or goes with that fetch's
\* request: the request has it on its list or is about to, and no entry keeps
\* a mark of an expiration that is over.
DeferredHasOwner ==
  \A k \in Keys : Present(k) =>
    LET owner == m_vars[k].expireRequestId
    IN IF m_vars[k].expireTime = 1
       THEN /\ owner # None
            /\ \/ k \in deferred[owner]
               \/ pc[owner] \in {"defer", "deferWait"} /\ key[owner] = k
       ELSE owner = None

\* A key's string is freed once, and with its entry: a string belongs to one
\* entry, or to one thread that has unlinked the entry and will free it,
\* however purging, erasing and storing interleave.
KeysAccounted ==
  LET Freeing == {t \in Threads : pc[t] = "unqueue"}
      Entries == {k \in Keys : Present(k)}
  IN /\ {a \in Addrs : string[a] # None} =
          {m_vars[k].first : k \in Entries} \cup {address[t] : t \in Freeing}
     /\ Cardinality({a \in Addrs : string[a] # None}) =
          Cardinality(Entries) + Cardinality(Freeing)

\* What the header says of m_expSet: "We ensure that the m_expSet entry is
\* removed before the apc key is freed, and guarantee that the key is valid as
\* a char* if it exists in m_expSet."
ExpSetKeysAreValid == \A a \in m_expSet : string[a] # None

\* A dump waits for thread t, which shares m_lock and waits for p's accessor,
\* and p waits for m_lock, which nobody gets while the dump waits for it.
DumpDeadlock ==
  /\ writer # None
  /\ \E t \in Sharing, p \in Threads :
       /\ pc[p] = "expire"
       /\ waitsFor[t] = p \/ (pc[t] = "unqueue" /\ p \in Holders(address[t]))

\* Unless dumps follow one another for ever, or one of them meets an eraser and
\* a purge as above, every operation returns: a purge does not chase the items
\* it puts back, erasers and purges alone do not wait in a circle, and no wait
\* for an element is forever.
OperationsReturn ==
  <>[][\A t \in Threads : ~dump(t)]_vars =>
    \A t \in Threads : pc[t] # "run" ~> pc[t] = "run" \/ DumpDeadlock

\* Claim of the comment in eraseImpl, on the order in which it and purgeExpired
\* take their accessors: "This does not result in deadlock".
EraseReturns ==
  \A t \in Threads : pc[t] = "unqueue" ~> pc[t] # "unqueue"
=============================================================================
