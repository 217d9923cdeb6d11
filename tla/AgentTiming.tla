---------------------------- MODULE AgentTiming -----------------------------
(***************************************************************************)
(* The agent's two timers against the clock (agent/service.go): the prune  *)
(* goroutine that evicts expired credentials, the idle goroutine that      *)
(* shuts an unused agent down, and the requests that go on while they run. *)
(*                                                                         *)
(* Time is discrete.  A goroutine whose timer has fired, or that is        *)
(* between two statements, takes its next step at most Latency later: that *)
(* is the only assumption on the scheduler.  A request is one atomic step  *)
(* here; CachingAgent.tla splits it.                                       *)
(***************************************************************************)
EXTENDS MemCache

CONSTANTS
    IdleTimeout,    \* $CREDENTIAL_HELPER_IDLE_TIMEOUT; negative: never
    PruneInterval,  \* $CREDENTIAL_HELPER_PRUNE_INTERVAL; negative: never
    Latency,        \* longest delay of a goroutine that can run
    MaxTime         \* bound on the clock

ASSUME TimingAssumption ==
    /\ IdleTimeout \in Int
    /\ PruneInterval \in Int
    /\ Latency \in Nat \ {0}
    /\ MaxTime \in Nat

VARIABLES
    now,              \* the clock
    cache,            \* CachingAgent.cache
    storedAt,         \* history: when the entry of a key was stored
    shutdownStarted,  \* CachingAgent.shutdownStarted
    pruner,           \* where the prune goroutine is
    pruneDue,         \* when its next step is due
    idler,            \* where the idle goroutine is
    idleDue,          \* when its next step is due
    lastRequest,      \* history: when the last request was decoded
    served            \* history: the last hit, Absent before the first

vars == <<now, cache, storedAt, shutdownStarted, pruner, pruneDue, idler,
          idleDue, lastRequest, served>>

Max2(a, b) == IF a >= b THEN a ELSE b

\* A timer set to a duration that is not positive fires at once.
Deadline(duration) == now + Max2(duration, 0)

(***************************************************************************)
(* a.idleTimeout and a.pruneInterval: handleShutdown makes them negative.  *)
(***************************************************************************)
idleTimeout == IF shutdownStarted THEN -1 ELSE IdleTimeout
pruneInterval == IF shutdownStarted THEN -1 ELSE PruneInterval

Hits == [key : Keys, response : StorableResponse, storedAt : Nat, at : Nat, draining : BOOLEAN]

ASSUME HitAssumption == Absent \notin Hits

\* Types of all the variables.
TypeOK ==
    /\ now \in Nat
    /\ cache \in Caches
    /\ storedAt \in [Keys -> Nat]
    /\ shutdownStarted \in BOOLEAN
    /\ pruner \in {"waiting", "pruned", "done"}
    /\ pruneDue \in Nat
    /\ idler \in {"waiting", "fired", "done"}
    /\ idleDue \in Nat
    /\ lastRequest \in Nat
    /\ served \in Hits \cup {Absent}

Init ==
    /\ now = 0
    /\ cache = EmptyCache
    /\ storedAt = [k \in Keys |-> 0]
    /\ shutdownStarted = FALSE
    /\ pruner = "waiting"
    /\ pruneDue = 0
    /\ idler = "waiting"
    /\ idleDue = Max2(IdleTimeout, 0)
    /\ lastRequest = 0
    /\ served = Absent

-----------------------------------------------------------------------------
(***************************************************************************)
(* Requests on an open connection.  handleConn resets the idle timer first *)
(* (a reset after the idle goroutine has received from the timer has no    *)
(* effect), then dispatches on the method.                                 *)
(***************************************************************************)
KeepAliveMissing ==
    /\ lastRequest' = now
    /\ UNCHANGED idleDue

KeepAlive ==
    /\ lastRequest' = now
    /\ idleDue' = IF idler = "waiting" THEN Deadline(idleTimeout) ELSE idleDue

HandleRetrieve(key) ==
    /\ KeepAlive
    /\ served' = IF Retrieve(cache, key) # Absent
                 THEN [key |-> key, response |-> Retrieve(cache, key),
                       storedAt |-> storedAt[key], at |-> now, draining |-> shutdownStarted]
                 ELSE served
    /\ UNCHANGED <<now, cache, storedAt, shutdownStarted, pruner, pruneDue, idler>>

HandleStore(value) ==
    /\ KeepAlive
    /\ cache' = Store(cache, value)
    /\ storedAt' = IF Storable(value) THEN [storedAt EXCEPT ![value.cacheKey] = now]
                                      ELSE storedAt
    /\ UNCHANGED <<now, shutdownStarted, pruner, pruneDue, idler, served>>

HandlePrune ==
    /\ KeepAlive
    /\ cache' = Prune(cache, now)
    /\ UNCHANGED <<now, storedAt, shutdownStarted, pruner, pruneDue, idler, served>>

\* A request whose method is none of the four.
HandleUnknown ==
    /\ KeepAlive
    /\ UNCHANGED <<now, cache, storedAt, shutdownStarted, pruner, pruneDue, idler, served>>

\* The first caller of handleShutdown makes both waiting goroutines due.
StartShutdown ==
    /\ shutdownStarted' = TRUE
    /\ pruneDue' = IF ~shutdownStarted /\ pruner = "waiting" THEN now ELSE pruneDue

HandleShutdown ==
    /\ StartShutdown
    /\ lastRequest' = now
    /\ idleDue' = IF idler = "waiting" THEN now ELSE idleDue
    /\ UNCHANGED <<now, cache, storedAt, pruner, idler, served>>

-----------------------------------------------------------------------------
(***************************************************************************)
(* The prune goroutine: receive from the timer and prune, then reset the   *)
(* timer and loop while no shutdown has started.                           *)
(***************************************************************************)
ScheduledPrune ==
    /\ pruner = "waiting"
    /\ now >= pruneDue
    /\ cache' = IF pruneInterval >= 0 THEN Prune(cache, now) ELSE cache
    /\ pruner' = "pruned"
    /\ pruneDue' = now
    /\ UNCHANGED <<now, storedAt, shutdownStarted, idler, idleDue, lastRequest, served>>

RearmPrune ==
    /\ pruner = "pruned"
    /\ pruner' = IF shutdownStarted THEN "done" ELSE "waiting"
    /\ pruneDue' = Deadline(pruneInterval)
    /\ UNCHANGED <<now, cache, storedAt, shutdownStarted, idler, idleDue, lastRequest,
                   served>>

-----------------------------------------------------------------------------
(***************************************************************************)
(* The idle goroutine: receive from the timer, then shut the agent down    *)
(* unless that has started or the timeout is switched off.                 *)
(***************************************************************************)
IdleFire ==
    /\ idler = "waiting"
    /\ now >= idleDue
    /\ idler' = "fired"
    /\ idleDue' = now
    /\ UNCHANGED <<now, cache, storedAt, shutdownStarted, pruner, pruneDue, lastRequest,
                   served>>

IdleShutdownInverted ==
    /\ idler = "fired"
    /\ idler' = "done"
    /\ IF idleTimeout < 0 THEN StartShutdown ELSE UNCHANGED <<shutdownStarted, pruneDue>>
    /\ UNCHANGED <<now, cache, storedAt, pruner, idleDue, lastRequest, served>>

IdleShutdown ==
    /\ idler = "fired"
    /\ idler' = "done"
    /\ IF idleTimeout >= 0 THEN StartShutdown ELSE UNCHANGED <<shutdownStarted, pruneDue>>
    /\ UNCHANGED <<now, cache, storedAt, pruner, idleDue, lastRequest, served>>

-----------------------------------------------------------------------------
\* Time passes as long as no goroutine's step is overdue.
Tick ==
    /\ now < MaxTime
    /\ pruner # "done" => now < pruneDue + Latency
    /\ idler # "done" => now < idleDue + Latency
    /\ now' = now + 1
    /\ UNCHANGED <<cache, storedAt, shutdownStarted, pruner, pruneDue, idler, idleDue,
                   lastRequest, served>>

Instants == 0..MaxTime

Next ==
    \/ Tick
    \/ \E key \in Keys \cup {NoKey} : HandleRetrieve(key)
    \/ \E key \in Keys \cup {NoKey}, headers \in Headers,
          expires \in Instants \cup {Malformed, NoExpiry} :
            HandleStore([cacheKey |-> key,
                         response |-> [expires |-> expires, headers |-> headers]])
    \/ HandlePrune
    \/ HandleUnknown
    \/ HandleShutdown
    \/ ScheduledPrune
    \/ RearmPrune
    \/ IdleFire
    \/ IdleShutdown

Spec == Init /\ [][Next]_vars

-----------------------------------------------------------------------------
(***************************************************************************)
(* Refinement: what the agent's requests and timers do to the cache.       *)
(***************************************************************************)
LastHit ==
    IF served = Absent THEN Absent ELSE [key |-> served.key, response |-> served.response]

\* The responses of stores up to the bound on the clock.
Stored == [expires : Instants \cup {Malformed}, headers : Headers]

Contract ==
    INSTANCE CacheContract WITH
        Keys <- Keys, Responses <- Stored, Malformed <- Malformed, Absent <- Absent,
        now <- now, cache <- cache, hit <- LastHit

-----------------------------------------------------------------------------
(***************************************************************************)
(* Properties                                                              *)
(***************************************************************************)

\* The instant from which a stored response should no longer be handed out:
\* its expiry, or the moment it was stored if it was useless by then.
StaleFrom(response, stored) ==
    IF response.expires = Malformed THEN stored ELSE Max2(response.expires, stored)

\* Retrieve does not look at Expires, so an expired credential can be served;
\* with scheduled pruning switched on and no shutdown under way it is served
\* for at most one prune interval and two scheduling delays after it expired
\* (MemCache.Retrieve and Prune, and the prune goroutine of Serve).
BoundedStaleness ==
    (PruneInterval >= 0 /\ served # Absent /\ ~served.draining)
        => served.at <= StaleFrom(served.response, served.storedAt)
                            + PruneInterval + 2 * Latency

\* An agent that gets no requests stops: while no shutdown has started, the
\* last request is at most the idle timeout and two scheduling delays ago
\* (the idle goroutine of Serve and the Reset in handleConn).
IdleAgentStops ==
    (IdleTimeout >= 0 /\ ~shutdownStarted)
        => now <= lastRequest + IdleTimeout + 2 * Latency

\* A request decoded before the idle timer fires keeps the agent up for
\* another idle timeout: the idle goroutine starts a shutdown only that long
\* after the last request, or when the request came after the timer fired.
KeptAlive ==
    [][(idler = "fired" /\ idler' = "done" /\ shutdownStarted' # shutdownStarted)
            => \/ now >= lastRequest + IdleTimeout
               \/ lastRequest >= idleDue]_vars

\* Requests, scheduled passes and shutdowns in any order leave the agent a
\* cache in the sense of CacheContract: no entry is lost before it expires,
\* none is handed out that was not the last one stored under the key asked for
\* (MemCache behind handleConn and the prune goroutine).
ContractKept == Contract!Spec

=============================================================================
