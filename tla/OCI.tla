--------------------------------- MODULE OCI --------------------------------
(***************************************************************************)
(* `get` processes that ask container registries for pull tokens           *)
(* (authenticate/oci) and share the agent's cache.  A Get is a             *)
(* conversation: challenge, docker config, lookup chain, token request,    *)
(* and, if the OAuth endpoint is missing, a second token request.  Docker  *)
(* logins and logouts, the clock and other processes go on in between.     *)
(*                                                                         *)
(* Every process makes a resolver and calls its Get once, so the           *)
(* resolver's mutex is never contended and its maps start empty.           *)
(***************************************************************************)
EXTENDS OCIAuth, MemCache

CONSTANTS
    Getters,     \* the `get` processes
    URIs,        \* their requests
    Setups,      \* environment, configuration and credential helpers
    Challenges,  \* answers of a registry to the unauthenticated request
    Responses,   \* token responses: [issuedAt, expiresIn]
    DockerFiles, \* name -> docker config file
    Dockers,     \* what is at its locations: names, "missing" or "unreadable"
    Pairs,       \* base64 string -> <<user name, password>>
    MaxLogins,   \* bound on the changes of the docker config
    MaxTime      \* bound on the clock

ASSUME OCIAssumption == MaxLogins \in Nat /\ MaxTime \in Nat /\ DefaultLife \in Nat \ {0}

\* The fields of an AuthConfig, whatever is in them.
IsAuth(a) ==
    a = [username |-> a.username, password |-> a.password, auth |-> a.auth,
         identityToken |-> a.identityToken, registryToken |-> a.registryToken, method |-> a.method]

ASSUME InputAssumption ==
    /\ \A u \in URIs : u.path \in Seq(STRING)
    /\ \A response \in Responses : response.expiresIn \in Nat
    /\ \A s \in Setups : \A r \in DOMAIN s.custom : IsAuth(s.custom[r])
    /\ \A d \in Dockers : d \in Seq(DOMAIN DockerFiles \cup {"missing", "unreadable"})
    /\ \A f \in DOMAIN DockerFiles :
          \A r \in DOMAIN DockerFiles[f].auths : IsAuth(DockerFiles[f].auths[r])

VARIABLES
    setup,     \* what does not change in a behaviour
    docker,    \* the files at the locations of the docker config
    logins,    \* changes of the docker config so far
    now,       \* the clock
    cache,     \* the agent's cache
    get        \* process -> where its Get is

vars == <<setup, docker, logins, now, cache, get>>

World == [env |-> setup.env, keyring |-> setup.keyring, locked |-> setup.locked, google |-> {}]

\* configFromContext: an unknown field, or a chain that is refused, is an error.
Config(registry) == Overlay(setup.config, OCIDefault(registry))
ConfigFits(registry) ==
    /\ DOMAIN setup.config \subseteq DOMAIN OCIDefault(registry)
    /\ Unmarshals(Config(registry).lookup_chain)

\* Types of all the variables.
TypeOK ==
    /\ setup \in Setups
    /\ docker \in Dockers
    /\ logins \in 0..MaxLogins
    /\ now \in 0..MaxTime
    /\ \A k \in Keys : cache[k] # Absent => cache[k].expires \in Nat
    /\ \A c \in Getters :
          get[c].pc \in {"idle", "challenge", "docker", "chain", "exchange", "oauth", "basic",
                         "answered", "printed", "done", "failed"}

Init ==
    /\ setup \in Setups
    /\ docker \in Dockers
    /\ logins = 0
    /\ now = 0
    /\ cache = EmptyCache
    /\ get = [c \in Getters |-> [pc |-> "idle"]]

-----------------------------------------------------------------------------
\* CacheKey: registry, repository and the action; none for other endpoints.
CacheKeyOfRegistry(u) ==
    IF deriveRepository(u).verdict = "pull"
    THEN [deriveRepository(u) EXCEPT !.repository = <<>>]
    ELSE NoKey

CacheKey(u) == IF deriveRepository(u).verdict = "pull" THEN deriveRepository(u) ELSE NoKey

Goto(c, pc) == get' = [get EXCEPT ![c].pc = pc]

Fail(c) == Goto(c, "failed")

\* What proves to the registry or its token server who asks.
Evidence(kind, secret) == [kind |-> kind, secret |-> secret]
Anonymous == Evidence("nothing", "")

\* Nobody's token: the answer to an endpoint that is not authenticated.
NoToken == [scope |-> Ignored(<<>>), sent |-> Anonymous, ends |-> 0, delay |-> 0]

Request(c, pc, u, auth, expires, token) ==
    get' = [get EXCEPT ![c] =
               [pc |-> pc, uri |-> u, auth |-> auth, expires |-> expires, token |-> token]]

\* foreground up to Get: a cached answer is printed, an endpoint that is not
\* one of a repository gets an empty one.
Start(c, u) ==
    /\ get[c].pc = "idle"
    /\ LET hit == Retrieve(cache, CacheKey(u))
           verdict == deriveRepository(u).verdict
       IN IF hit # Absent THEN Request(c, "done", u, NoAuth, NoExpiry, hit.headers)
          ELSE CASE verdict = "error" -> Request(c, "failed", u, NoAuth, NoExpiry, NoToken)
                 [] verdict = "ignore" -> Request(c, "printed", u, NoAuth, NoExpiry, NoToken)
                 [] verdict = "pull" -> Request(c, "challenge", u, NoAuth, NoExpiry, NoToken)
    /\ UNCHANGED <<setup, docker, logins, now, cache>>

Registry(c) == deriveRepository(get[c].uri).registry

\* WWWAuthenticate: no answer, no 401 or no realm and service is an error.
WWWAuthenticate(c) ==
    /\ get[c].pc = "challenge"
    /\ \/ Fail(c)
       \/ \E challenge \in Challenges :
             IF {"realm", "service"} \subseteq DOMAIN parseWWWAuthenticate(challenge)
             THEN Goto(c, "docker")
             ELSE Fail(c)
    /\ UNCHANGED <<setup, docker, logins, now, cache>>

(***************************************************************************)
(* deriveAuthConfig.  A custom authenticator that fails or returns a       *)
(* config decides alone; otherwise the docker config is read, then the     *)
(* lookup chain.                                                           *)
(***************************************************************************)
ReadDocker(c) ==
    /\ get[c].pc = "docker"
    /\ LET registry == Registry(c)
           file == loadDockerConfig(docker)
           entry == authForHost(IF file = "none" THEN EmptyDocker ELSE DockerFiles[file],
                                registry, setup.helper, Pairs)
       IN \/ registry \in DOMAIN setup.custom /\ Fail(c)
          \/ IF registry \in DOMAIN setup.custom /\ setup.custom[registry] # NoAuth
             THEN get' = [get EXCEPT ![c].pc = "exchange", ![c].auth = setup.custom[registry]]
             ELSE IF ~ConfigFits(registry) THEN Fail(c)
             ELSE IF ~Config(registry).parse_docker_config THEN Goto(c, "chain")
             ELSE IF file = "unreadable" \/ ~entry.ok THEN Fail(c)
             ELSE get' = [get EXCEPT ![c].pc = "chain", ![c].auth = entry.auth]
    /\ UNCHANGED <<setup, docker, logins, now, cache>>

ReadChain(c) ==
    /\ get[c].pc = "chain"
    /\ get' = [get EXCEPT ![c].pc = "exchange",
                          ![c].auth = Overrides(World, Config(Registry(c)), @)]
    /\ UNCHANGED <<setup, docker, logins, now, cache>>

-----------------------------------------------------------------------------
(***************************************************************************)
(* Exchange: a registry token is used as it is, the method or, for "auto", *)
(* the kind of credentials selects the endpoint.                           *)
(***************************************************************************)
HasPassword(auth) == auth.username # "" /\ auth.password # ""

\* oauthToken without anything to send is an anonymous basicToken.
Endpoint(auth) ==
    LET oauth == auth.method = "oauth2"
                   \/ (auth.method = "auto" /\ (auth.username = "<token>" \/ auth.identityToken # ""))
    IN IF oauth /\ (auth.identityToken # "" \/ HasPassword(auth)) THEN "oauth" ELSE "basic"

Exchange(c) ==
    LET auth == get[c].auth
        scope == deriveRepository(get[c].uri)
        token == [scope |-> scope, sent |-> Evidence("registry token", auth.registryToken),
                  ends |-> 0, delay |-> 0]
    IN /\ get[c].pc = "exchange"
       /\ IF auth.registryToken # ""
          THEN get' = [get EXCEPT ![c].pc = "printed", ![c].token = token]
          ELSE IF auth.method \notin {"auto", "oauth2", "basic"} THEN Fail(c)
          ELSE Goto(c, Endpoint(auth))
       /\ UNCHANGED <<setup, docker, logins, now, cache>>

\* oauthToken prefers the identity token, basicToken knows only the password.
Sent(pc, auth) ==
    IF pc = "oauth" /\ auth.identityToken # "" THEN Evidence("identity token", auth.identityToken)
    ELSE IF HasPassword(auth) THEN Evidence("password", auth.password)
    ELSE Anonymous

\* The token server issues a token for the requested scope.  The clock may tick
\* before the answer is handled.
Issue(c, response) ==
    LET g == get[c] IN
    get' = [get EXCEPT ![c] =
        [pc |-> "answered", uri |-> g.uri, auth |-> g.auth, response |-> response, issued |-> now,
         token |-> [scope |-> deriveRepository(g.uri),
                    sent |-> Sent(g.pc, g.auth),
                    ends |-> now + (IF response.expiresIn = 0 THEN DefaultLife
                                                              ELSE response.expiresIn),
                    delay |-> 0]]]

\* basicToken: any answer but 200 is an error.
BasicToken(c) ==
    /\ get[c].pc = "basic"
    /\ Fail(c) \/ \E response \in Responses : Issue(c, response)
    /\ UNCHANGED <<setup, docker, logins, now, cache>>

OAuthTokenRetries(c) ==
    /\ get[c].pc = "oauth"
    /\ \/ Fail(c)
       \/ Goto(c, "exchange")
       \/ \E response \in Responses : Issue(c, response)
    /\ UNCHANGED <<setup, docker, logins, now, cache>>

\* oauthToken: after a 404 the basic endpoint is tried.
OAuthToken(c) ==
    /\ get[c].pc = "oauth"
    /\ \/ Fail(c)
       \/ Goto(c, "basic")
       \/ \E response \in Responses : Issue(c, response)
    /\ UNCHANGED <<setup, docker, logins, now, cache>>

\* The answer is decoded, converted and printed.
Receive(c) ==
    LET g == get[c] IN
    /\ g.pc = "answered"
    /\ Request(c, "printed", g.uri, g.auth, Convert(g.issued, g.response, now),
               [g.token EXCEPT !.delay = IF g.response.issuedAt = "told" THEN 0 ELSE now - g.issued])
    /\ UNCHANGED <<setup, docker, logins, now, cache>>

StoreAnswer(c) ==
    LET g == get[c] IN
    /\ g.pc = "printed"
    /\ cache' = Store(cache, [cacheKey |-> CacheKey(g.uri),
                              response |-> [expires |-> g.expires, headers |-> g.token]])
    /\ Goto(c, "done")
    /\ UNCHANGED <<setup, docker, logins, now>>

-----------------------------------------------------------------------------
\* docker login, docker logout: another docker config.
DockerLogin ==
    /\ logins < MaxLogins
    /\ docker' \in Dockers \ {docker}
    /\ logins' = logins + 1
    /\ UNCHANGED <<setup, now, cache, get>>

AgentPrune ==
    /\ cache' = Prune(cache, now)
    /\ UNCHANGED <<setup, docker, logins, now, get>>

Tick ==
    /\ now < MaxTime
    /\ now' = now + 1
    /\ UNCHANGED <<setup, docker, logins, cache, get>>

Step(c) == WWWAuthenticate(c) \/ ReadDocker(c) \/ ReadChain(c) \/ Exchange(c) \/ BasicToken(c)
             \/ OAuthToken(c) \/ Receive(c) \/ StoreAnswer(c)

Next ==
    \/ \E c \in Getters : (\E u \in URIs : Start(c, u)) \/ Step(c)
    \/ DockerLogin \/ AgentPrune \/ Tick

Spec == Init /\ [][Next]_vars

-----------------------------------------------------------------------------
Ended == {"printed", "done"}

\* The pull endpoints of the distribution API: /v2/<name>/tags/list,
\* /v2/<name>/blobs/<digest> and /v2/<name>/manifests/<reference>.
PullsFrom(u, repository) ==
    \E rest \in {SubSeq(u.path, Len(u.path) - 1, Len(u.path))} :
        /\ rest = <<"tags", "list">> \/ rest[1] \in {"blobs", "manifests"}
        /\ u.path = <<"v2">> \o repository \o rest

\* What is printed is a token for the repository of this very request, fresh
\* or cached under CacheKey: no token of one repository or registry is given
\* to a request for another one.
TokenFitsRequest ==
    \A c \in Getters :
        (get[c].pc \in Ended /\ deriveRepository(get[c].uri).verdict = "pull") =>
            /\ get[c].token.scope.registry = Host(get[c].uri)
            /\ PullsFrom(get[c].uri, get[c].token.scope.repository)

\* A password that the lookup chain finds is the one that is sent, whatever
\* user names and passwords the docker config has and whichever endpoints the
\* registry lacks.  Only a registry token, or at the OAuth endpoint an identity
\* token, takes its place, be it from the chain or from a docker login.
ChainPasswordIsSent ==
    \A c \in Getters :
        (get[c].pc \in {"answered", "printed"} /\ deriveRepository(get[c].uri).verdict = "pull"
            /\ Registry(c) \notin DOMAIN setup.custom) =>
            LET password == Lookup(World, Config(Registry(c)).lookup_chain, "password")
                auth == get[c].auth
                sent == get[c].token.sent
            IN password \notin Errors /\ password # "" =>
                 \/ sent = Evidence("password", password)
                 \/ sent = Evidence("registry token", auth.registryToken) /\ auth.registryToken # ""
                 \/ /\ sent = Evidence("identity token", auth.identityToken)
                    /\ auth.identityToken # "" /\ auth.method # "basic"

\* The expiry that the agent records for a token is beyond the token's end at
\* most by the time the answer of the token server was under way, and not at
\* all if the answer tells when the token was issued.
ExpiryWithinDelay ==
    \A k \in Keys : cache[k] # Absent =>
        cache[k].expires <= cache[k].headers.ends + cache[k].headers.delay

Phases == <<"idle", "challenge", "docker", "chain", "exchange", "oauth", "basic", "answered",
            "printed">>
Left(pc) == {i \in DOMAIN Phases : \E j \in 1..i : Phases[j] = pc}

\* Every step of a Get leads on, whatever the registry answers, so each ends
\* after at most nine steps: the fallback from OAuth to basic auth does not go
\* round in circles, and a process that ended stays as it is.
GetsLeadOn ==
    [][\A c \in Getters : get'[c] # get[c] =>
          Left(get'[c].pc) \subseteq Left(get[c].pc) /\ Left(get'[c].pc) # Left(get[c].pc)]_vars

=============================================================================
