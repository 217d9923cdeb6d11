------------------------------- MODULE OCIAuth ------------------------------
(***************************************************************************)
(* The sources of the credentials for a registry and the formats of its    *)
(* answers (authenticate/oci): the docker config, the docker credential    *)
(* helpers, the lookup chain, the WWW-Authenticate challenge and the token *)
(* responses.  The empty string is a field that is not set.                *)
(***************************************************************************)
EXTENDS OCIPaths, LookupChain

CONSTANTS
    DefaultLife  \* life of a token whose response has no expires_in

AuthConfig(username, password, identityToken, registryToken) ==
    [username |-> username, password |-> password, auth |-> "", identityToken |-> identityToken,
     registryToken |-> registryToken, method |-> ""]

NoAuth == AuthConfig("", "", "", "")

(***************************************************************************)
(* The docker config.  An entry of auths has the fields of an AuthConfig;  *)
(* its auth is "", "garbage" or a pair written as base64.                  *)
(***************************************************************************)
NoEnv == [n \in {} |-> n]

EmptyDocker == [credHelpers |-> {}, credsStore |-> FALSE, auths |-> [r \in {} |-> r]]

\* DockerAuthConfig.toAuthConfig; Pairs says what a base64 string decodes to.
toAuthConfig(entry, Pairs) ==
    IF entry.password = "" /\ entry.auth # ""
    THEN [entry EXCEPT !.username = Pairs[entry.auth][1], !.password = Pairs[entry.auth][2]]
    ELSE IF entry.auth = "" /\ entry.username # "" /\ entry.password # ""
    THEN [entry EXCEPT !.auth = CHOOSE a \in DOMAIN Pairs : Pairs[a] = <<entry.username, entry.password>>]
    ELSE entry

decodesAuthField(entry, Pairs) ==
    entry.password = "" /\ entry.auth # "" => entry.auth \in DOMAIN Pairs

\* loadDockerConfig: the first location that exists decides, readable or not.
loadDockerConfig(locations) ==
    LET there == {i \in DOMAIN locations : locations[i] # "missing"}
    IN IF there = {} THEN "none" ELSE locations[CHOOSE i \in there : \A j \in there : i <= j]

(***************************************************************************)
(* authForHost: a credential helper of the registry, else the credentials  *)
(* store, else auths.  helper is what docker-credential-... answers: it    *)
(* has no credentials ("none"), it is "broken", or it is the user name of  *)
(* the login it has, "<token>" among them.                                 *)
(***************************************************************************)
authForHost(docker, registry, helper, Pairs) ==
    IF registry \in docker.credHelpers \/ docker.credsStore
    THEN CASE helper = "none" -> [ok |-> TRUE, auth |-> NoAuth]
           [] helper = "broken" -> [ok |-> FALSE, auth |-> NoAuth]
           [] helper \notin {"none", "broken"} ->
                [ok |-> TRUE, auth |-> AuthConfig(helper, "stored", "", "")]
    ELSE IF registry \notin DOMAIN docker.auths
    THEN [ok |-> TRUE, auth |-> NoAuth]
    ELSE IF ~decodesAuthField(docker.auths[registry], Pairs)
    THEN [ok |-> FALSE, auth |-> NoAuth]
    ELSE [ok |-> TRUE, auth |-> toAuthConfig(docker.auths[registry], Pairs)]

-----------------------------------------------------------------------------
(***************************************************************************)
(* The lookup chain: what it finds replaces what the docker config says.   *)
(***************************************************************************)
lookupChainByRegistry(registry) ==
    IF registry = GhcrIo
    THEN <<Env("GITHUB_ACTOR", "username"),
           Misdeclared(Static("unset", "username"), "env"),
           Env("GHCR_TOKEN", "password"), Env("GH_TOKEN", "password"),
           Env("GITHUB_TOKEN", "password"), Keyring("gh:github.com", "password")>>
    ELSE <<>>

OCIDefault(registry) ==
    [parse_docker_config |-> TRUE, token_exchange_method |-> "auto",
     lookup_chain |-> Default(lookupChainByRegistry(registry))]

FoundOr(world, chain, binding, other) ==
    IF Lookup(world, chain, binding) \in Errors THEN other ELSE Lookup(world, chain, binding)

OverridesWithoutUsername(world, config, auth) ==
    LET chain == config.lookup_chain IN
    [auth EXCEPT !.username = FoundOr(world, chain, "username", @),
                 !.password = FoundOr(world, chain, "password", @),
                 !.auth = FoundOr(world, chain, "auth", @),
                 !.identityToken = FoundOr(world, chain, "identitytoken", @),
                 !.registryToken = FoundOr(world, chain, "registrytoken", @),
                 !.method = config.token_exchange_method]

\* A password of the chain gets a user name if there is none.
Overrides(world, config, auth) ==
    LET merged == OverridesWithoutUsername(world, config, auth)
        named == Lookup(world, config.lookup_chain, "password") \notin Errors
    IN [merged EXCEPT !.username = IF named /\ @ = "" THEN "unset" ELSE @]

-----------------------------------------------------------------------------
(***************************************************************************)
(* The challenge: a sequence of [key, value, form].  An unquoted token     *)
(* swallows the comma after it and a value whose quotes do not close stops *)
(* the parser, so the pairs behind either are lost.                        *)
(***************************************************************************)
parseWWWAuthenticate(challenge) ==
    LET ends == {i \in DOMAIN challenge : challenge[i].form # "quoted"}
        last == IF ends = {} THEN Len(challenge) ELSE CHOOSE i \in ends : \A j \in ends : i <= j
        read == 1..last
        value(i) == IF challenge[i].form = "unclosed" THEN "" ELSE challenge[i].value
    IN [k \in {challenge[i].key : i \in read} |->
            value(CHOOSE i \in read : /\ challenge[i].key = k
                                      /\ \A j \in read : challenge[j].key = k => j <= i)]

(***************************************************************************)
(* Convert of both token types: when a token expires that is handled at    *)
(* now.  issuedAt is "none", "unparsable" or the time it was issued at.    *)
(***************************************************************************)
ConvertFromNow(issued, response, now) ==
    now + (IF response.expiresIn = 0 THEN DefaultLife ELSE response.expiresIn)

Convert(issued, response, now) ==
    LET issuesAt == IF response.issuedAt = "told" THEN issued ELSE now
    IN issuesAt + (IF response.expiresIn = 0 THEN DefaultLife ELSE response.expiresIn)

=============================================================================
