--------------------------- MODULE MCCachingAgent ---------------------------
(* Instances of CachingAgent for TLC: the requests that clients send. *)
EXTENDS CachingAgent, TLC

Request(method, payload) == [method |-> method, payload |-> payload]
Key(k) == [kind |-> "key", key |-> k]
Value(k) == [kind |-> "value", key |-> k]

\* The client commands of this repository, fully specified.
Retrieves == {Request("retrieve", Key(k)) : k \in Keys}
Stores == {Request("store", Value(k)) : k \in Keys}
Shutdown == Request("shutdown", Unset)
Prune == Request("prune", Unset)

ShutdownOnly == {Shutdown}

\* Every branch of handleConn.
AllRequests ==
    Retrieves \cup Stores \cup
    {Shutdown, Prune, NoFields, Garbage, Request("other", Unset),
     Request("store", Unset), Request("retrieve", Unset)}

=============================================================================
