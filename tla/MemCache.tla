------------------------------ MODULE MemCache ------------------------------
(***************************************************************************)
(* The in-memory credential cache of the agent (cache/memcache.go) as      *)
(* operators on its map.  Every operation holds the cache's mutex for the  *)
(* whole of its body, so each is one atomic step of the modules that use   *)
(* it.  The map is a total function: a key without an entry is mapped to   *)
(* Absent.  A timestamp is a natural number; Malformed stands for every    *)
(* Expires string that time.Parse(time.RFC3339) refuses and NoExpiry for   *)
(* the empty string.                                                       *)
(***************************************************************************)
EXTENDS Integers

CONSTANTS
    Keys,       \* the non-empty cache keys
    Headers,    \* the header maps of a response (the credential itself)
    NoKey,      \* the empty cache key
    NoExpiry,   \* the empty Expires string
    Malformed,  \* an Expires string that is not RFC 3339
    Absent      \* no entry, and the answer to a cache miss

ASSUME NoKeyAssumption == NoKey \notin Keys
ASSUME SentinelAssumption ==
    /\ NoExpiry \notin Nat
    /\ Malformed \notin Nat
    /\ NoExpiry # Malformed

Expiries == Nat \cup {Malformed, NoExpiry}

\* api.GetCredentialsResponse
Response == [expires : Expiries, headers : Headers]

\* api.CachableGetCredentialsResponse
CachableResponse == [cacheKey : Keys \cup {NoKey}, response : Response]

\* The responses that Store keeps: the ones with an Expires.
StorableResponse == [expires : Nat \cup {Malformed}, headers : Headers]

ASSUME AbsentAssumption == Absent \notin Response

Caches == [Keys -> StorableResponse \cup {Absent}]

\* NewMemCache
EmptyCache == [k \in Keys |-> Absent]

\* A hit returns whatever is stored, expired or not; the empty key never
\* has an entry.
Retrieve(cache, key) == IF key \in Keys THEN cache[key] ELSE Absent

Storable(value) ==
    /\ value.cacheKey # NoKey
    /\ value.response.expires # NoExpiry

StoreWithoutExpiry(cache, value) ==
    IF value.cacheKey # NoKey
    THEN [cache EXCEPT ![value.cacheKey] = value.response]
    ELSE cache

Store(cache, value) ==
    IF Storable(value)
    THEN [cache EXCEPT ![value.cacheKey] = value.response]
    ELSE cache

\* ts.Before(time.Now()) is strict: an entry survives the instant it expires at.
Evictable(response, now) ==
    \/ response.expires = Malformed
    \/ response.expires < now

PruneTooEager(cache, now) ==
    [k \in Keys |->
        IF cache[k] # Absent /\ (Evictable(cache[k], now) \/ cache[k].expires = now)
        THEN Absent
        ELSE cache[k]]

PruneKeepsMalformed(cache, now) ==
    [k \in Keys |->
        IF cache[k] # Absent /\ cache[k].expires # Malformed /\ cache[k].expires < now
        THEN Absent
        ELSE cache[k]]

Prune(cache, now) ==
    [k \in Keys |->
        IF cache[k] # Absent /\ Evictable(cache[k], now) THEN Absent ELSE cache[k]]

=============================================================================
