----------------------------- MODULE GetService -----------------------------
(***************************************************************************)
(* What `get` promises, without agents, sockets and locks: every client    *)
(* ends up with at most one credential, and that credential was resolved   *)
(* for its own cache key, by itself or by a client that had printed it     *)
(* before.                                                                 *)
(***************************************************************************)
CONSTANTS
    Getters,  \* `get` processes
    Keys,     \* cache keys
    NoKey,    \* the empty cache key: do not cache
    Nobody    \* no credential

VARIABLES
    key,      \* client -> the cache key of its request
    printed   \* client -> the client that resolved what it printed, or Nobody

vars == <<key, printed>>

Init ==
    /\ key \in [Getters -> Keys \cup {NoKey}]
    /\ printed = [c \in Getters |-> Nobody]

\* The client resolves the credential itself.
Resolve(c) ==
    /\ printed[c] = Nobody
    /\ printed' = [printed EXCEPT ![c] = c]
    /\ UNCHANGED key

\* The client prints what another one resolved for the same key.
Reuse(c, d) ==
    /\ printed[c] = Nobody
    /\ key[c] # NoKey
    /\ key[d] = key[c]
    /\ printed[d] = d
    /\ printed' = [printed EXCEPT ![c] = d]
    /\ UNCHANGED key

Next ==
    \/ \E c \in Getters : Resolve(c)
    \/ \E c, d \in Getters : Reuse(c, d)

Spec == Init /\ [][Next]_vars

=============================================================================
