------------------------- MODULE AgentTimingProofs --------------------------
(***************************************************************************)
(* Proofs about AgentTiming, for every set of keys, every idle timeout,    *)
(* prune interval and scheduling latency, and every bound on the clock.    *)
(***************************************************************************)
EXTENDS AgentTiming, TLAPS

-----------------------------------------------------------------------------
(***************************************************************************)
(* The inductive invariant.  Neither staleness nor idleness is inductive:  *)
(* both rest on how late the goroutine that ends it can be, so the         *)
(* invariant bounds the deadline of each goroutine on both sides.          *)
(***************************************************************************)

\* The prune goroutine is never more than Latency late, and its deadline is
\* never further away than the interval.
PrunerOnTime ==
    ~shutdownStarted =>
        /\ pruner # "done"
        /\ now <= pruneDue + Latency
        /\ pruner = "waiting" => pruneDue <= now + Max2(PruneInterval, 0)
        /\ pruner = "pruned" => pruneDue <= now

\* Every entry was still good, or not yet stored, at the last pass.
EntriesFresh ==
    (~shutdownStarted /\ PruneInterval >= 0) =>
        \A k \in Keys : cache[k] # Absent =>
            /\ pruner = "waiting" =>
                pruneDue <= StaleFrom(cache[k], storedAt[k]) + PruneInterval + Latency
            /\ pruner = "pruned" => pruneDue <= StaleFrom(cache[k], storedAt[k])

\* The idle goroutine is never more than Latency late.
IdlerOnTime ==
    (~shutdownStarted /\ IdleTimeout >= 0) =>
        /\ idler # "done"
        /\ now <= idleDue + Latency
        /\ lastRequest <= now
        /\ idler = "waiting" => idleDue = lastRequest + IdleTimeout
        /\ idler = "fired" =>
            /\ idleDue <= now
            /\ idleDue <= lastRequest + IdleTimeout + Latency
            /\ idleDue >= lastRequest + IdleTimeout \/ lastRequest >= idleDue

IInv ==
    /\ TypeOK
    /\ PrunerOnTime
    /\ EntriesFresh
    /\ IdlerOnTime
    /\ BoundedStaleness

-----------------------------------------------------------------------------
(***************************************************************************)
(* Facts about the operators of MemCache and AgentTiming.                  *)
(***************************************************************************)

\* Max2 is the larger of two integers.
LEMMA Max2Fact ==
    ASSUME NEW a \in Int, NEW b \in Int
    PROVE  /\ Max2(a, b) \in Int
           /\ Max2(a, b) >= a
           /\ Max2(a, b) >= b
           /\ Max2(a, b) = a \/ Max2(a, b) = b
  BY DEF Max2

\* A deadline is not in the past (time.NewTimer and Timer.Reset).
LEMMA DeadlineFact ==
    ASSUME now \in Nat, NEW d \in Int
    PROVE  Deadline(d) \in Nat /\ Deadline(d) >= now
  BY DEF Deadline, Max2

\* Store keeps the map well formed (MemCache.Store).
LEMMA StoreType ==
    ASSUME NEW c \in Caches, NEW v \in CachableResponse
    PROVE  Store(c, v) \in Caches
  <1>1. CASE Storable(v)
    <2>1. v.cacheKey \in Keys
      BY <1>1 DEF Storable, CachableResponse
    <2>2. v.response \in StorableResponse
      BY <1>1 DEF Storable, CachableResponse, Response, StorableResponse, Expiries
    <2> QED
      BY <1>1, <2>1, <2>2 DEF Store, Caches
  <1>2. CASE ~Storable(v)
    BY <1>2 DEF Store
  <1> QED
    BY <1>1, <1>2

\* Prune keeps the map well formed; what it leaves is an entry that was there
\* and has not expired, and what it removes can be evicted (MemCache.Prune).
LEMMA PruneFact ==
    ASSUME NEW c \in Caches, NEW t \in Nat
    PROVE  /\ Prune(c, t) \in Caches
           /\ \A k \in Keys : Prune(c, t)[k] # Absent =>
                /\ Prune(c, t)[k] = c[k]
                /\ c[k] \in StorableResponse
                /\ c[k].expires \in Nat
                /\ t <= c[k].expires
           /\ \A k \in Keys : (c[k] # Absent /\ Prune(c, t)[k] = Absent)
                => Evictable(c[k], t)
  <1>1. \A k \in Keys : c[k] \in StorableResponse \cup {Absent}
    BY DEF Caches
  <1>2. Prune(c, t) \in Caches
    BY <1>1 DEF Prune, Caches
  <1>3. ASSUME NEW k \in Keys, Prune(c, t)[k] # Absent
        PROVE  /\ Prune(c, t)[k] = c[k]
               /\ c[k] \in StorableResponse
               /\ c[k].expires \in Nat
               /\ t <= c[k].expires
    <2>1. c[k] # Absent /\ ~Evictable(c[k], t) /\ Prune(c, t)[k] = c[k]
      BY <1>3 DEF Prune
    <2>2. c[k].expires \in Nat
      BY <1>1, <2>1 DEF Evictable, StorableResponse
    <2> QED
      BY <1>1, <2>1, <2>2 DEF Evictable
  <1>4. ASSUME NEW k \in Keys, c[k] # Absent, Prune(c, t)[k] = Absent
        PROVE  Evictable(c[k], t)
    BY <1>4 DEF Prune
  <1> QED
    BY <1>2, <1>3, <1>4

\* An entry is stale from a moment not before it was stored.
LEMMA StaleFromFact ==
    ASSUME NEW r \in StorableResponse, NEW s \in Nat
    PROVE  /\ StaleFrom(r, s) \in Nat
           /\ s <= StaleFrom(r, s)
           /\ r.expires # Malformed => r.expires <= StaleFrom(r, s)
  <1>1. r.expires \in Nat \cup {Malformed}
    BY DEF StorableResponse
  <1> QED
    BY <1>1 DEF StaleFrom, Max2

\* A cached response is not the miss sentinel.
LEMMA StorableNotAbsent == Absent \notin StorableResponse
  BY AbsentAssumption DEF StorableResponse, Response, Expiries

-----------------------------------------------------------------------------
(***************************************************************************)
(* Type correctness.                                                       *)
(***************************************************************************)

\* KeepAlive, the first statement of every request, keeps the types.
LEMMA KeepAliveType ==
    ASSUME TypeOK, KeepAlive
    PROVE  idleDue' \in Nat /\ lastRequest' \in Nat
  <1>1. idleTimeout \in Int
    BY TimingAssumption DEF idleTimeout
  <1> QED
    BY <1>1, DeadlineFact DEF TypeOK, KeepAlive

\* The values that the model's requests carry are cachable responses.
LEMMA RequestType ==
    ASSUME NEW key \in Keys \cup {NoKey}, NEW headers \in Headers,
           NEW expires \in Instants \cup {Malformed, NoExpiry}
    PROVE  [cacheKey |-> key, response |-> [expires |-> expires, headers |-> headers]]
                \in CachableResponse
  <1>1. expires \in Expiries
    BY TimingAssumption DEF Instants, Expiries
  <1> QED
    BY <1>1 DEF CachableResponse, Response

\* Every step keeps the types.
LEMMA TypeStep ==
    ASSUME TypeOK, [Next]_vars
    PROVE  TypeOK'
  <1> USE TimingAssumption
  <1>1. CASE Tick
    BY <1>1 DEF TypeOK, Tick
  <1>2. ASSUME NEW key \in Keys \cup {NoKey}, HandleRetrieve(key)
        PROVE  TypeOK'
    <2>1. served' \in Hits \cup {Absent}
      <3>1. CASE Retrieve(cache, key) # Absent
        <4>1. key \in Keys /\ cache[key] \in StorableResponse
          BY <3>1 DEF Retrieve, TypeOK, Caches
        <4> QED
          BY <1>2, <3>1, <4>1 DEF HandleRetrieve, Retrieve, Hits, TypeOK
      <3>2. CASE Retrieve(cache, key) = Absent
        BY <1>2, <3>2 DEF HandleRetrieve, TypeOK
      <3> QED
        BY <3>1, <3>2
    <2> QED
      BY <1>2, <2>1, KeepAliveType DEF HandleRetrieve, TypeOK
  <1>3. ASSUME NEW v \in CachableResponse, HandleStore(v)
        PROVE  TypeOK'
    <2>1. cache' \in Caches
      BY <1>3, StoreType DEF HandleStore, TypeOK
    <2>2. storedAt' \in [Keys -> Nat]
      BY <1>3 DEF HandleStore, TypeOK
    <2> QED
      BY <1>3, <2>1, <2>2, KeepAliveType DEF HandleStore, TypeOK
  <1>4. CASE HandlePrune
    <2>1. cache' \in Caches
      BY <1>4, PruneFact DEF HandlePrune, TypeOK
    <2> QED
      BY <1>4, <2>1, KeepAliveType DEF HandlePrune, TypeOK
  <1>5. CASE HandleUnknown
    BY <1>5, KeepAliveType DEF HandleUnknown, TypeOK
  <1>6. CASE HandleShutdown
    BY <1>6 DEF HandleShutdown, StartShutdown, TypeOK
  <1>7. CASE ScheduledPrune
    <2>1. cache' \in Caches
      BY <1>7, PruneFact DEF ScheduledPrune, TypeOK
    <2> QED
      BY <1>7, <2>1 DEF ScheduledPrune, TypeOK
  <1>8. CASE RearmPrune
    <2>1. pruneInterval \in Int
      BY DEF pruneInterval
    <2>2. pruneDue' \in Nat
      BY <1>8, <2>1, DeadlineFact DEF RearmPrune, TypeOK
    <2> QED
      BY <1>8, <2>2 DEF RearmPrune, TypeOK
  <1>9. CASE IdleFire
    BY <1>9 DEF IdleFire, TypeOK
  <1>10. CASE IdleShutdown
    BY <1>10 DEF IdleShutdown, StartShutdown, TypeOK
  <1>11. CASE UNCHANGED vars
    BY <1>11 DEF vars, TypeOK
  <1> QED
    BY <1>1, <1>2, <1>3, <1>4, <1>5, <1>6, <1>7, <1>8, <1>9, <1>10, <1>11, RequestType
       DEF Next

-----------------------------------------------------------------------------
(***************************************************************************)
(* The prune goroutine.                                                    *)
(***************************************************************************)

\* The initial state satisfies the inductive invariant.
LEMMA InitIInv == Init => IInv
  <1> SUFFICES ASSUME Init
               PROVE  IInv
    OBVIOUS
  <1>1. TypeOK
    <2>1. idleDue \in Nat
      BY TimingAssumption DEF Init, Max2
    <2>2. cache \in Caches
      BY DEF Init, EmptyCache, Caches
    <2> QED
      BY <2>1, <2>2 DEF Init, TypeOK
  <1>2. PrunerOnTime
    BY TimingAssumption DEF Init, PrunerOnTime, Max2
  <1>3. EntriesFresh
    BY DEF Init, EntriesFresh, EmptyCache
  <1>4. IdlerOnTime
    BY TimingAssumption DEF Init, IdlerOnTime, Max2
  <1>5. BoundedStaleness
    BY DEF Init, BoundedStaleness
  <1> QED
    BY <1>1, <1>2, <1>3, <1>4, <1>5 DEF IInv

\* No step makes the prune goroutine late.
LEMMA PrunerStep ==
    ASSUME TypeOK, PrunerOnTime, [Next]_vars
    PROVE  PrunerOnTime'
  <1> USE TimingAssumption DEF PrunerOnTime, TypeOK
  <1> SUFFICES ASSUME ~shutdownStarted'
               PROVE  PrunerOnTime'
    OBVIOUS
  <1>1. CASE Tick
    BY <1>1 DEF Tick, Max2
  <1>2. CASE UNCHANGED <<now, shutdownStarted, pruner, pruneDue>>
    BY <1>2
  <1>3. CASE HandleShutdown
    BY <1>3 DEF HandleShutdown, StartShutdown
  <1>4. CASE ScheduledPrune
    BY <1>4 DEF ScheduledPrune
  <1>5. CASE RearmPrune
    BY <1>5 DEF RearmPrune, Deadline, pruneInterval, Max2
  <1>6. CASE IdleShutdown
    BY <1>6 DEF IdleShutdown, StartShutdown
  <1> QED
    BY <1>1, <1>2, <1>3, <1>4, <1>5, <1>6
       DEF Next, vars, HandleRetrieve, HandleStore, HandlePrune, HandleUnknown, IdleFire

\* No step leaves an entry that the next pass would come too late for.
LEMMA EntriesStep ==
    ASSUME TypeOK, TypeOK', PrunerOnTime, EntriesFresh, [Next]_vars
    PROVE  EntriesFresh'
  <1> USE TimingAssumption
  <1> SUFFICES ASSUME ~shutdownStarted', PruneInterval >= 0,
                      NEW k \in Keys, cache'[k] # Absent
               PROVE  /\ pruner' = "waiting" => pruneDue' <=
                            StaleFrom(cache'[k], storedAt'[k]) + PruneInterval + Latency
                      /\ pruner' = "pruned" =>
                            pruneDue' <= StaleFrom(cache'[k], storedAt'[k])
    BY DEF EntriesFresh, StaleFrom
  <1> DEFINE stale == StaleFrom(cache[k], storedAt[k])
  <1>1. cache'[k] \in StorableResponse /\ storedAt'[k] \in Nat
    BY DEF TypeOK, Caches
  <1>2. /\ StaleFrom(cache'[k], storedAt'[k]) \in Nat
        /\ storedAt'[k] <= StaleFrom(cache'[k], storedAt'[k])
    BY <1>1, StaleFromFact
  <1>3. ~shutdownStarted
    BY DEF Next, vars, Tick, HandleRetrieve, HandleStore, HandlePrune, HandleUnknown,
           HandleShutdown, StartShutdown, ScheduledPrune, RearmPrune, IdleFire, IdleShutdown,
           TypeOK
  <1>4. ASSUME cache'[k] = cache[k], storedAt'[k] = storedAt[k]
        PROVE  /\ pruner = "waiting" => pruneDue <= stale + PruneInterval + Latency
               /\ pruner = "pruned" => pruneDue <= stale
               /\ stale \in Nat
               /\ stale = StaleFrom(cache'[k], storedAt'[k])
    BY <1>2, <1>3, <1>4 DEF EntriesFresh
  <1>5. CASE UNCHANGED <<cache, storedAt, pruner, pruneDue>>
    BY <1>4, <1>5
  <1>6. ASSUME NEW v \in CachableResponse, HandleStore(v)
        PROVE  /\ pruner' = "waiting" => pruneDue' <=
                        StaleFrom(cache'[k], storedAt'[k]) + PruneInterval + Latency
               /\ pruner' = "pruned" => pruneDue' <= StaleFrom(cache'[k], storedAt'[k])
    <2>1. CASE Storable(v) /\ v.cacheKey = k
      <3>1. storedAt'[k] = now
        BY <1>6, <2>1 DEF HandleStore, TypeOK
      <3> QED
        BY <1>2, <1>3, <1>6, <3>1 DEF HandleStore, PrunerOnTime, TypeOK, Max2
    <2>2. CASE ~(Storable(v) /\ v.cacheKey = k)
      <3>1. cache'[k] = cache[k] /\ storedAt'[k] = storedAt[k]
        BY <1>6, <2>2 DEF HandleStore, Store, TypeOK, Caches
      <3> QED
        BY <1>4, <1>6, <3>1 DEF HandleStore
    <2> QED
      BY <2>1, <2>2
  <1>7. CASE HandlePrune
    <2>1. cache'[k] = cache[k]
      BY <1>7, PruneFact DEF HandlePrune, TypeOK
    <2> QED
      BY <1>4, <1>7, <2>1 DEF HandlePrune
  <1>8. CASE ScheduledPrune
    <2>1. cache' = Prune(cache, now)
      BY <1>3, <1>8 DEF ScheduledPrune, pruneInterval
    <2>2. cache'[k] = cache[k] /\ cache[k].expires \in Nat /\ now <= cache[k].expires
      BY <2>1, PruneFact DEF TypeOK
    <2>3. now <= StaleFrom(cache'[k], storedAt'[k])
      BY <1>1, <1>2, <2>2, StaleFromFact, SentinelAssumption DEF TypeOK
    <2> QED
      BY <1>8, <2>3 DEF ScheduledPrune
  <1>9. CASE RearmPrune
    <2>1. pruneDue <= stale /\ stale \in Nat /\ stale = StaleFrom(cache'[k], storedAt'[k])
      BY <1>4, <1>9 DEF RearmPrune
    <2>2. pruneDue' = now + PruneInterval /\ now <= pruneDue + Latency
      BY <1>3, <1>9 DEF RearmPrune, Deadline, pruneInterval, Max2, PrunerOnTime
    <2> QED
      BY <1>3, <1>9, <2>1, <2>2 DEF RearmPrune, TypeOK
  <1> QED
    BY <1>3, <1>5, <1>6, <1>7, <1>8, <1>9, RequestType
       DEF Next, vars, Tick, HandleRetrieve, HandleUnknown, HandleShutdown, StartShutdown,
           IdleFire, IdleShutdown, TypeOK

-----------------------------------------------------------------------------
(***************************************************************************)
(* The idle goroutine, and what is served.                                 *)
(***************************************************************************)

\* No step makes the idle goroutine late or takes a keep-alive back.
LEMMA IdlerStep ==
    ASSUME TypeOK, IdlerOnTime, [Next]_vars
    PROVE  IdlerOnTime'
  <1> USE TimingAssumption DEF IdlerOnTime, TypeOK
  <1> SUFFICES ASSUME ~shutdownStarted', IdleTimeout >= 0
               PROVE  IdlerOnTime'
    OBVIOUS
  <1>1. CASE Tick
    BY <1>1 DEF Tick
  <1>2. CASE UNCHANGED <<now, shutdownStarted, idler, idleDue, lastRequest>>
    BY <1>2
  <1>3. CASE KeepAlive /\ UNCHANGED <<now, shutdownStarted, idler>>
    BY <1>3 DEF KeepAlive, Deadline, idleTimeout, Max2
  <1>4. CASE HandleShutdown
    BY <1>4 DEF HandleShutdown, StartShutdown
  <1>5. CASE IdleFire
    BY <1>5 DEF IdleFire
  <1>6. CASE IdleShutdown
    BY <1>6 DEF IdleShutdown, StartShutdown, idleTimeout
  <1> QED
    BY <1>1, <1>2, <1>3, <1>4, <1>5, <1>6
       DEF Next, vars, HandleRetrieve, HandleStore, HandlePrune, HandleUnknown,
           ScheduledPrune, RearmPrune

\* A hit returns an entry, and entries are fresh enough.
LEMMA StalenessStep ==
    ASSUME TypeOK, PrunerOnTime, EntriesFresh, BoundedStaleness, [Next]_vars
    PROVE  BoundedStaleness'
  <1> USE TimingAssumption
  <1>1. CASE UNCHANGED served
    BY <1>1 DEF BoundedStaleness, StaleFrom
  <1>2. ASSUME NEW key \in Keys \cup {NoKey}, HandleRetrieve(key),
               Retrieve(cache, key) # Absent, PruneInterval >= 0, ~served'.draining
        PROVE  BoundedStaleness'
    <2>1. key \in Keys /\ cache[key] # Absent /\ cache[key] \in StorableResponse
      BY <1>2 DEF Retrieve, TypeOK, Caches
    <2>2. served' = [key |-> key, response |-> cache[key], storedAt |-> storedAt[key],
                     at |-> now, draining |-> shutdownStarted]
      BY <1>2, <2>1 DEF HandleRetrieve, Retrieve
    <2>3. ~shutdownStarted
      BY <1>2, <2>2
    <2> DEFINE stale == StaleFrom(cache[key], storedAt[key])
    <2>4. stale \in Nat
      BY <2>1, StaleFromFact DEF TypeOK
    <2>5. pruneDue <= stale + PruneInterval + Latency
      <3>1. CASE pruner = "waiting"
        BY <1>2, <2>1, <2>3, <3>1 DEF EntriesFresh
      <3>2. CASE pruner = "pruned"
        <4>1. pruneDue <= stale
          BY <1>2, <2>1, <2>3, <3>2 DEF EntriesFresh
        <4> HIDE DEF stale
        <4> QED
          BY <1>2, <2>4, <4>1 DEF TypeOK
      <3> QED
        BY <2>3, <3>1, <3>2 DEF PrunerOnTime, TypeOK
    <2>6. now <= pruneDue + Latency
      BY <2>3 DEF PrunerOnTime
    <2>7. now <= stale + PruneInterval + 2 * Latency
      <3> HIDE DEF stale
      <3> QED
        BY <2>4, <2>5, <2>6 DEF TypeOK
    <2>8. StaleFrom(served'.response, served'.storedAt) = stale /\ served'.at = now
      BY <2>2 DEF StaleFrom
    <2> QED
      BY <2>7, <2>8 DEF BoundedStaleness, StaleFrom
  <1>3. ASSUME NEW key \in Keys \cup {NoKey}, HandleRetrieve(key)
        PROVE  BoundedStaleness'
    <2>1. CASE Retrieve(cache, key) = Absent
      BY <1>1, <1>3, <2>1 DEF HandleRetrieve
    <2>2. CASE ~(PruneInterval >= 0) \/ served'.draining
      BY <2>2 DEF BoundedStaleness
    <2> QED
      BY <1>2, <1>3, <2>1, <2>2
  <1> QED
    BY <1>1, <1>3
       DEF Next, vars, Tick, HandleStore, HandlePrune, HandleUnknown, HandleShutdown,
           ScheduledPrune, RearmPrune, IdleFire, IdleShutdown

\* The invariant is inductive.
LEMMA IInvStep == IInv /\ [Next]_vars => IInv'
  BY TypeStep, PrunerStep, EntriesStep, IdlerStep, StalenessStep DEF IInv

\* The invariant holds in every reachable state.
THEOREM Invariance == Spec => []IInv
  BY InitIInv, IInvStep, PTL DEF Spec

-----------------------------------------------------------------------------
\* Every variable of the timing model keeps its type.
THEOREM TypeCorrect == Spec => []TypeOK
  <1>1. IInv => TypeOK
    BY DEF IInv
  <1> QED
    BY <1>1, Invariance, PTL

\* With pruning switched on, an agent that is not shutting down serves no
\* credential later than one prune interval and two scheduling delays after
\* it expired (MemCache.Retrieve, MemCache.Prune and the prune goroutine).
THEOREM Staleness == Spec => []BoundedStaleness
  <1>1. IInv => BoundedStaleness
    BY DEF IInv
  <1> QED
    BY <1>1, Invariance, PTL

\* With the idle timeout switched on, an agent that is not shutting down got
\* a request within the timeout and two scheduling delays (the idle goroutine).
THEOREM Idleness == Spec => []IdleAgentStops
  <1>1. IInv => IdleAgentStops
    BY TimingAssumption DEF IInv, TypeOK, IdlerOnTime, IdleAgentStops
  <1> QED
    BY <1>1, Invariance, PTL

\* An idle shutdown starts an idle timeout after the last request, unless that
\* request arrived when the timer had already fired (handleConn's Reset).
THEOREM KeepAliveHonoured == Spec => KeptAlive
  <1> DEFINE Honoured ==
        (idler = "fired" /\ idler' = "done" /\ shutdownStarted' # shutdownStarted)
            => \/ now >= lastRequest + IdleTimeout
               \/ lastRequest >= idleDue
  <1>1. ASSUME IInv, [Next]_vars
        PROVE  [Honoured]_vars
    <2>1. CASE UNCHANGED idler \/ UNCHANGED shutdownStarted
      BY <1>1, <2>1 DEF IInv, TypeOK
    <2>2. CASE IdleShutdown
      <3> SUFFICES ASSUME shutdownStarted' # shutdownStarted, idler = "fired"
                   PROVE  now >= lastRequest + IdleTimeout \/ lastRequest >= idleDue
        OBVIOUS
      <3>1. IdleTimeout >= 0 /\ ~shutdownStarted
        BY <1>1, <2>2, TimingAssumption
           DEF IdleShutdown, StartShutdown, idleTimeout, IInv, TypeOK
      <3> QED
        BY <1>1, <3>1, TimingAssumption DEF IInv, TypeOK, IdlerOnTime
    <2> QED
      BY <1>1, <2>1, <2>2
         DEF Next, vars, Tick, HandleRetrieve, HandleStore, HandlePrune, HandleUnknown,
             HandleShutdown, ScheduledPrune, RearmPrune, IdleFire
  <1> QED
    BY <1>1, Invariance, PTL DEF Spec, KeptAlive

-----------------------------------------------------------------------------
(***************************************************************************)
(* The agent's cache implements CacheContract: one lemma per way a step    *)
(* can change what the contract sees.                                      *)
(***************************************************************************)

\* A store puts the response under its key, or changes nothing.
LEMMA StoreIsPut ==
    ASSUME TypeOK, NEW v \in [cacheKey : Keys \cup {NoKey},
                              response : [expires : Instants \cup {Malformed, NoExpiry},
                                          headers : Headers]],
           HandleStore(v)
    PROVE  [Contract!Next]_(Contract!vars)
  <1>1. UNCHANGED <<now, LastHit>>
    BY DEF HandleStore, LastHit
  <1>2. CASE Storable(v)
    <2>1. v.cacheKey \in Keys /\ v.response \in Stored
      BY <1>2 DEF Storable, Stored
    <2>2. Contract!Put(v.cacheKey, v.response)
      BY <1>1, <1>2 DEF HandleStore, Store, Contract!Put
    <2> QED
      BY <2>1, <2>2 DEF Contract!Next
  <1>3. CASE ~Storable(v)
    BY <1>1, <1>3 DEF HandleStore, Store, Contract!vars
  <1> QED
    BY <1>2, <1>3

\* A retrieve hands out the entry of its key, or nothing.
LEMMA RetrieveIsServe ==
    ASSUME TypeOK, NEW key \in Keys \cup {NoKey}, HandleRetrieve(key)
    PROVE  [Contract!Next]_(Contract!vars)
  <1>1. UNCHANGED <<now, cache>>
    BY DEF HandleRetrieve
  <1>2. CASE Retrieve(cache, key) = Absent
    BY <1>1, <1>2 DEF HandleRetrieve, Contract!vars, LastHit
  <1>3. CASE Retrieve(cache, key) # Absent
    <2>1. key \in Keys /\ Retrieve(cache, key) = cache[key]
      BY <1>3 DEF Retrieve
    <2>2. served' \in Hits /\ served'.key = key /\ served'.response = cache[key]
      BY <1>3, <2>1 DEF HandleRetrieve, TypeOK, Hits, Caches
    <2>3. served' # Absent
      BY <2>2, HitAssumption
    <2>4. Contract!Serve(key)
      BY <1>1, <1>3, <2>1, <2>2, <2>3 DEF Contract!Serve, LastHit
    <2> QED
      BY <2>1, <2>4 DEF Contract!Next
  <1> QED
    BY <1>2, <1>3

\* A pass of Prune evicts the entries that are spent.
LEMMA PruneIsEvict ==
    ASSUME TypeOK, cache' = Prune(cache, now), UNCHANGED <<now, served>>
    PROVE  [Contract!Next]_(Contract!vars)
  <1> DEFINE gone == {k \in Keys : cache[k] # Absent /\ Evictable(cache[k], now)}
  <1>1. Contract!Evict(gone)
    BY DEF Contract!Evict, Contract!Spent, Prune, Evictable, LastHit
  <1>2. gone \in SUBSET Keys
    OBVIOUS
  <1> QED
    BY <1>1, <1>2 DEF Contract!Next

\* Every behaviour of the agent's requests, timers and shutdown is one that
\* docs/plugins.md allows a cache: MemCache behind handleConn and the prune
\* goroutine loses no live entry and hands out only what was stored.
THEOREM KeepsContract == Spec => ContractKept
  <1>1. Init => Contract!Init
    BY DEF Init, Contract!Init, LastHit, EmptyCache
  <1>2. ASSUME TypeOK, [Next]_vars
        PROVE  [Contract!Next]_(Contract!vars)
    <2>1. CASE UNCHANGED <<now, cache, served>>
      BY <2>1 DEF Contract!vars, LastHit
    <2>2. CASE Tick
      BY <2>2 DEF Tick, Contract!Tick, Contract!Next, LastHit
    <2>3. ASSUME NEW key \in Keys \cup {NoKey}, NEW headers \in Headers,
                 NEW expires \in Instants \cup {Malformed, NoExpiry},
                 HandleStore([cacheKey |-> key,
                              response |-> [expires |-> expires, headers |-> headers]])
          PROVE  [Contract!Next]_(Contract!vars)
      BY <1>2, <2>3, StoreIsPut
    <2>4. CASE HandlePrune
      BY <1>2, <2>4, PruneIsEvict DEF HandlePrune
    <2>5. CASE ScheduledPrune
      BY <1>2, <2>1, <2>5, PruneIsEvict DEF ScheduledPrune
    <2> QED
      BY <1>2, <2>1, <2>2, <2>3, <2>4, <2>5, RetrieveIsServe
         DEF Next, vars, HandleUnknown, HandleShutdown, RearmPrune, IdleFire, IdleShutdown
  <1>3. IInv => TypeOK
    BY DEF IInv
  <1> QED
    BY <1>1, <1>2, <1>3, Invariance, PTL DEF Spec, ContractKept, Contract!Spec

=============================================================================
