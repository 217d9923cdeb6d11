--------------------------- MODULE CacheContract ----------------------------
(***************************************************************************)
(* What docs/plugins.md asks of an api.Cache, whatever keeps the entries:  *)
(* a hit is the last response stored under the key, a store replaces it,   *)
(* and only credentials that have expired (or whose expiry nobody can      *)
(* read) are evicted.  Nothing obliges a cache to keep what it is given.   *)
(***************************************************************************)
EXTENDS Naturals

CONSTANTS
    Keys,       \* the non-empty cache keys
    Responses,  \* the responses that can be kept
    Malformed,  \* an Expires string that is not a time
    Absent      \* no entry

VARIABLES
    now,    \* the clock
    cache,  \* key -> the response kept for it, or Absent
    hit     \* the last key asked for and the response handed out, Absent before

vars == <<now, cache, hit>>

Init ==
    /\ now = 0
    /\ cache = [k \in Keys |-> Absent]
    /\ hit = Absent

Spent(response) == response.expires = Malformed \/ response.expires < now

Put(k, response) ==
    /\ cache' = [cache EXCEPT ![k] = response]
    /\ UNCHANGED <<now, hit>>

Serve(k) ==
    /\ cache[k] # Absent
    /\ hit' = [key |-> k, response |-> cache[k]]
    /\ UNCHANGED <<now, cache>>

Evict(gone) ==
    /\ \A k \in gone : cache[k] # Absent /\ Spent(cache[k])
    /\ cache' = [k \in Keys |-> IF k \in gone THEN Absent ELSE cache[k]]
    /\ UNCHANGED <<now, hit>>

Tick ==
    /\ now' = now + 1
    /\ UNCHANGED <<cache, hit>>

Next ==
    \/ \E k \in Keys, response \in Responses : Put(k, response)
    \/ \E k \in Keys : Serve(k)
    \/ \E gone \in SUBSET Keys : Evict(gone)
    \/ Tick

Spec == Init /\ [][Next]_vars

=============================================================================
