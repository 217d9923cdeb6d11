------------------------------- MODULE MCOCI --------------------------------
(* Two processes, two registries, two repositories, every exchange method. *)
EXTENDS OCI

MCURIs ==
    {Https(GhcrIo, <<"v2", "org", "a", "blobs", "sha256">>),
     Https(GhcrIo, <<"v2", "org", "b", "tags", "list">>),
     Https(IndexDockerIo, <<"v2", "org", "a", "manifests", "latest">>),
     Https(GhcrIo, <<"v2", "">>),
     Uri("http", GhcrIo, "", <<"v2", "org", "a", "blobs", "sha256">>, {})}

MCKeys == {CacheKey(u) : u \in MCURIs} \ {NoKey}

MCItem(key, form) == [key |-> key, value |-> key, form |-> form]

MCChallenges ==
    {<<MCItem("realm", "quoted"), MCItem("service", "quoted"), MCItem("scope", "token")>>,
     <<MCItem("realm", "token"), MCItem("service", "quoted")>>}

MCResponses == {[issuedAt |-> "none", expiresIn |-> 0], [issuedAt |-> "told", expiresIn |-> 2]}

MCPairs == "dXNlcjpwYXNz" :> <<"user", "pass">>

MCEntry(auth) == [NoAuth EXCEPT !.auth = auth]

MCDockerFiles ==
    ("login" :> [EmptyDocker EXCEPT !.auths = (GhcrIo :> AuthConfig("", "", "identity", ""))
                                              @@ (IndexDockerIo :> MCEntry("dXNlcjpwYXNz"))])
    @@ ("garbage" :> [EmptyDocker EXCEPT !.auths = IndexDockerIo :> MCEntry("garbage")])
    @@ ("store" :> [EmptyDocker EXCEPT !.credsStore = TRUE])

MCDockers == {<<"missing", "login">>, <<"garbage", "login">>, <<"store", "missing">>,
              <<"unreadable", "login">>, <<"missing", "missing">>}

MCBase ==
    [env |-> NoEnv, keyring |-> NoEnv, locked |-> FALSE, config |-> NoEnv, helper |-> "none",
     custom |-> NoEnv]

MCSetups ==
    {MCBase,
     [MCBase EXCEPT !.config = [parse_docker_configs |-> TRUE]],
     [MCBase EXCEPT !.env = ("GITHUB_ACTOR" :> "") @@ ("GH_TOKEN" :> "token"), !.helper = "<token>"],
     [MCBase EXCEPT !.keyring = "gh:github.com" :> "token", !.helper = "broken",
                    !.config = [token_exchange_method |-> "oauth2"]],
     [MCBase EXCEPT !.config = [parse_docker_config |-> FALSE, token_exchange_method |-> "basic",
                                lookup_chain |-> <<Static("token", "password")>>]],
     [MCBase EXCEPT !.config = [token_exchange_method |-> "none",
                                lookup_chain |-> <<Static("token", "registrytoken")>>],
                    !.custom = (GhcrIo :> NoAuth)
                               @@ (IndexDockerIo :> [AuthConfig("u", "p", "", "") EXCEPT !.method = "x"])]}

MCSymmetry == Permutations(Getters)

=============================================================================
