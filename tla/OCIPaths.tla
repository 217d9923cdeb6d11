------------------------------ MODULE OCIPaths ------------------------------
(***************************************************************************)
(* Which repository of which registry a URI asks for                       *)
(* (deriveRepository in authenticate/oci/oci.go).  Paths are sequences of  *)
(* segments, so "/v2/" is <<"v2", "">>.                                    *)
(***************************************************************************)
EXTENDS Uris, Naturals

\* A URI that is refused, and one that is answered with an empty response.
Refused == [registry |-> <<>>, repository |-> <<>>, verdict |-> "error"]
Ignored(registry) == [registry |-> registry, repository |-> <<>>, verdict |-> "ignore"]

Pull(registry, repository) ==
    [registry |-> registry, repository |-> repository, verdict |-> "pull"]

\* strings.TrimSuffix
TrimSuffix(s, suffix) ==
    IF IsSuffix(suffix, s) THEN SubSeq(s, 1, Len(s) - Len(suffix)) ELSE s

deriveRepository(u) ==
    LET endpoint == Tail(u.path)
        n == Len(endpoint)
        kind == endpoint[n - 1]
    IN IF u.scheme # "https" \/ u.host = <<>> THEN Refused
       \* the path does not start with "/v2/"
       ELSE IF Len(u.path) < 2 \/ u.path[1] # "v2" THEN Ignored(<<>>)
       ELSE IF n > 2 /\ IsSuffix(<<"tags", "list">>, endpoint)
       THEN Pull(Host(u), TrimSuffix(endpoint, <<"tags", "list">>))
       \* "/v2/" itself is among the endpoints that are too short
       ELSE IF n < 3 \/ kind \notin {"blobs", "manifests"} THEN Ignored(Host(u))
       ELSE Pull(Host(u), TrimSuffix(endpoint, <<kind, endpoint[n]>>))

=============================================================================
