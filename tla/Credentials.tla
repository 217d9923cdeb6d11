---------------------------- MODULE Credentials -----------------------------
(***************************************************************************)
(* `get` processes that resolve credentials while the system keyring is    *)
(* changed with setup-keyring and the agent caches what they print         *)
(* (foreground in cmd/root/root.go with the helpers of Authenticators.tla; *)
(* AgentProcesses.tla has the sockets and locks in between).               *)
(*                                                                         *)
(* A process reads its environment and the config file once; each binding  *)
(* is looked up in a step of its own, so the keyring may change between    *)
(* two lookups of one Get.                                                 *)
(***************************************************************************)
EXTENDS Authenticators

CONSTANTS
    Getters,      \* the `get` processes
    URIs,         \* the requests, to services other than OCI registries
    Setups,       \* environment, config file, remote services, a group of requests
                  \* and the keyring services that these read
    Services,     \* the keyring services that setup-keyring is used on
    Secrets,      \* the secrets that it stores
    Life,         \* GitHub token -> when it ends, and the form and zone GitHub tells it in
    MaxChanges,   \* bound on the uses of setup-keyring
    MaxTime       \* bound on the clock

ASSUME BoundsAssumption == MaxChanges \in Nat /\ MaxTime \in Nat /\ SignatureLife \in Nat

Helpers == {"github", "gcs", "gar", "azstorage", "s3", "remoteapis", "null"}

\* The helper that a process configures for a request, with its fragment.
Choice(s, u) == Configure(s.file, s.rules, u, FALSE)

IsEntry(e) ==
    \/ e = [source |-> e.source, type |-> e.type, name |-> e.name, binding |-> e.binding]
    \/ e = [source |-> e.source, type |-> e.type, name |-> e.name, audience |-> e.audience,
            binding |-> e.binding]

\* A host comes without its port, and no secret is spelt like an error.
ASSUME InputAssumption ==
    /\ Secrets \cap Errors = {}
    /\ \A token \in DOMAIN Life : Life[token].ends \in Nat /\ Life[token].zone \in Int
    /\ \A u \in URIs : u.host \in Seq(STRING) /\ \A i \in DOMAIN u.host : u.host[i] # ":"
    /\ \A s \in Setups :
        /\ s.uris \subseteq URIs /\ s.services \subseteq Services
        /\ s.file \in {"absent", "unreadable", "rules"}
        /\ s.rules \in Seq({s.rules[i] : i \in DOMAIN s.rules})
        /\ \A u \in s.uris : Choice(s, u) = Fatal \/ Choice(s, u).helper \in Helpers
        /\ \A var \in DOMAIN s.env : s.env[var] \notin Errors
        /\ \A i \in DOMAIN s.rules : "lookup_chain" \in DOMAIN s.rules[i].config =>
              LET chain == s.rules[i].config.lookup_chain IN
              /\ Len(chain) \in Nat /\ DOMAIN chain = 1..Len(chain)
              /\ \A j \in DOMAIN chain :
                    IsEntry(chain[j]) /\ (chain[j].type = "static" => chain[j].name \notin Errors)

VARIABLES
    setup,    \* what does not change in a behaviour
    keyring,  \* service -> secret, of the secrets that are stored
    changes,  \* uses of setup-keyring so far
    now,      \* the clock
    cache,    \* the agent's cache
    get       \* process -> where it is

vars == <<setup, keyring, changes, now, cache, get>>

World(ring) ==
    [env |-> setup.env, keyring |-> ring, locked |-> setup.locked, google |-> setup.google,
     hosts |-> setup.hosts, aws |-> setup.aws]

Idle == [pc |-> "idle"]

\* Types of all the variables.
TypeOK ==
    /\ setup \in Setups /\ setup.uris \subseteq URIs /\ setup.services \subseteq Services
    /\ DOMAIN keyring \subseteq setup.services
    /\ \A s \in DOMAIN keyring : keyring[s] \in Secrets
    /\ changes \in 0..MaxChanges
    /\ now \in 0..MaxTime
    /\ \A k \in Keys : cache[k] # Absent => cache[k].expires \in Nat
    /\ \A c \in Getters :
          get[c].pc \in {"idle", "looking", "printed", "done", "failed"}

Init ==
    /\ setup \in Setups
    /\ keyring \in {NoConfig} \cup {[s \in setup.services |-> x] : x \in Secrets}
    /\ changes = 0
    /\ now = 0
    /\ cache = EmptyCache
    /\ get = [c \in Getters |-> Idle]

-----------------------------------------------------------------------------
(***************************************************************************)
(* Configure, CacheKey, Retrieve and the checks at the head of Get.        *)
(***************************************************************************)
Fail(c, u, choice, why) ==
    get' = [get EXCEPT ![c] = [pc |-> "failed", uri |-> u, helper |-> choice.helper, why |-> why]]

Respond(c, pc, u, choice, origin, answer) ==
    get' = [get EXCEPT ![c] = [pc |-> pc, uri |-> u, helper |-> choice.helper,
                               config |-> choice.config, origin |-> origin, answer |-> answer]]

Start(c, u) ==
    LET choice == Choice(setup, u)
        helper == choice.helper
        hit == Retrieve(cache, CacheKey(helper, u))
    IN /\ get[c].pc = "idle"
       /\ CASE choice = Fatal -> Fail(c, u, choice, "config")
            [] choice # Fatal /\ hit # Absent -> Respond(c, "done", u, choice, "cache", hit)
            [] choice # Fatal /\ hit = Absent /\ Verdict(helper, u) = "empty" ->
                  Respond(c, "printed", u, choice, "empty", EmptyAnswer)
            [] choice # Fatal /\ hit = Absent /\ Verdict(helper, u) = "unsupported" ->
                  Fail(c, u, choice, "unsupported")
            [] choice # Fatal /\ hit = Absent /\ Verdict(helper, u) = "go" ->
                  IF FragmentFits(helper, u, choice.config)
                  THEN get' = [get EXCEPT ![c] =
                          [pc |-> "looking", uri |-> u, helper |-> helper, config |-> choice.config,
                           todo |-> BindingsOf(helper, u), got |-> NoConfig, ring |-> keyring, since |-> changes]]
                  ELSE Fail(c, u, choice, "config")
       /\ UNCHANGED <<setup, keyring, changes, now, cache>>

\* One binding is looked up; only s3 goes on after an error.
LookUp(c) ==
    LET g == get[c]
        chain == FromContext(g.helper, g.uri, g.config).lookup_chain
        result == Lookup(World(keyring), chain, Head(g.todo))
    IN /\ g.pc = "looking"
       /\ g.todo # <<>>
       /\ get' = [get EXCEPT ![c].todo = Tail(@), ![c].got = With(@, Head(g.todo), result)]
       /\ UNCHANGED <<setup, keyring, changes, now, cache>>

(***************************************************************************)
(* The rest of Get, with the answers of remote services: a Google or Azure *)
(* token comes with its expiry or without, or not at all.                  *)
(***************************************************************************)
LifeOf(token) ==
    IF token \in DOMAIN Life THEN Life[token] ELSE [ends |-> 0, form |-> "none", zone |-> 0]

FinishGitHub(c) ==
    LET g == get[c]
        token == GitHubToken(World(keyring), FromContext("github", g.uri, g.config), g.got["default"])
    IN IF token \in Errors
       THEN Fail(c, g.uri, g, "secret")
       ELSE Respond(c, "printed", g.uri, g, "fresh",
                  GitHubAnswer(g.uri, token, checkTokenExpiration(ExpirationHeader(LifeOf(token)))))

FinishRemoteAPIs(c) ==
    LET g == get[c]
        config == FromContext("remoteapis", g.uri, g.config)
    IN IF g.got["default"] \in Errors \/ RemoteAPIsFails(config)
       THEN Fail(c, g.uri, g, "secret")
       ELSE Respond(c, "printed", g.uri, g, "fresh",
                  RemoteAPIsAnswer(g.uri, config, g.got["default"]))

S3Header(g, got) == Signature(got, FromContext("s3", g.uri, g.config), g.uri, Secret(got))

FinishS3(c) ==
    LET g == get[c]
        static == Or(g.got, AccessKeyID, "") # "" /\ Secret(g.got) # ""
    IN IF ~static /\ ~setup.aws
       THEN Fail(c, g.uri, g, "secret")
       ELSE get' = [get EXCEPT ![c] =
                [pc |-> "printed", uri |-> g.uri, helper |-> "s3", config |-> g.config,
                 origin |-> IF g.since = changes THEN "undisturbed" ELSE "fresh", ring |-> g.ring,
                 answer |-> Answer(now + SignatureLife, S3Header(g, g.got))]]

FinishToken(c) ==
    LET g == get[c] IN
    \/ Fail(c, g.uri, g, "secret")
    \/ \E expires \in {NoExpiry, now + 1} :
          Respond(c, "printed", g.uri, g, "fresh", TokenAnswer(g.helper, expires))

Finish(c) ==
    /\ get[c].pc = "looking"
    /\ get[c].todo = <<>>
    /\ CASE get[c].helper = "github" -> FinishGitHub(c)
         [] get[c].helper = "remoteapis" -> FinishRemoteAPIs(c)
         [] get[c].helper = "s3" -> FinishS3(c)
         [] get[c].helper \in {"gcs", "gar", "azstorage"} -> FinishToken(c)
    /\ UNCHANGED <<setup, keyring, changes, now, cache>>

\* After printing, the answer is sent to the agent.
StoreAnswer(c) ==
    LET g == get[c] IN
    /\ g.pc = "printed"
    /\ cache' = Store(cache, [cacheKey |-> CacheKey(g.helper, g.uri), response |-> g.answer])
    /\ get' = [get EXCEPT ![c].pc = "done"]
    /\ UNCHANGED <<setup, keyring, changes, now>>

-----------------------------------------------------------------------------
(***************************************************************************)
(* The rest of the system: setup-keyring, setup-keyring --clear, the       *)
(* agent's prune, the clock.  Only a secret that is there can be cleared.  *)
(***************************************************************************)
SetupKeyring(service, secret) ==
    /\ changes < MaxChanges
    /\ ~setup.locked
    /\ keyring' = With(keyring, service, secret)
    /\ changes' = changes + 1
    /\ UNCHANGED <<setup, now, cache, get>>

ClearKeyring(service) ==
    /\ changes < MaxChanges
    /\ ~setup.locked
    /\ service \in DOMAIN keyring
    /\ keyring' = [s \in DOMAIN keyring \ {service} |-> keyring[s]]
    /\ changes' = changes + 1
    /\ UNCHANGED <<setup, now, cache, get>>

AgentPrune ==
    /\ cache' = Prune(cache, now)
    /\ UNCHANGED <<setup, keyring, changes, now, get>>

Tick ==
    /\ now < MaxTime
    /\ now' = now + 1
    /\ UNCHANGED <<setup, keyring, changes, cache, get>>

Next ==
    \/ \E c \in Getters : (\E u \in setup.uris : Start(c, u)) \/ LookUp(c) \/ Finish(c) \/ StoreAnswer(c)
    \/ \E s \in setup.services : ClearKeyring(s) \/ \E x \in Secrets : SetupKeyring(s, x)
    \/ AgentPrune
    \/ Tick

Spec == Init /\ [][Next]_vars

-----------------------------------------------------------------------------
(***************************************************************************)
(* Properties.                                                             *)
(***************************************************************************)

\* What a service accepts: GitHub's raw host takes Basic and the others
\* Bearer, S3 takes a signature of this very URI, Google and Azure a token
\* of their scope.
Suits(u, helper, header) ==
    CASE helper = "github" ->
            /\ header.scheme = IF EqualFold(Hostname(u), RawGitHub) THEN "Basic" ELSE "Bearer"
            /\ header.for = Scope("github")
      [] helper \in {"s3", "remoteapis"} -> header.for = WholeUri(u)
      [] OTHER -> header.for = ScopeOf(helper)

\* The helpers' keys share one name space: these config files give two
\* requests with the same key to different helpers.
Colliding ==
    {s \in Setups : \E u, v \in s.uris :
        LET key(w) == CacheKey(Choice(s, w).helper, w)
        IN  key(u) = key(v) /\ key(u) # NoKey /\ Choice(s, u).helper # Choice(s, v).helper}

\* A printed answer suits the request, whether it was resolved by this
\* process or cached by another one under the helper's CacheKey.
AnswersSuit ==
    setup \notin Colliding =>
        \A c \in Getters : get[c].pc \in {"printed", "done"} =>
            \A header \in get[c].answer.headers : Suits(get[c].uri, get[c].helper, header)

\* The expiry that goes into the cache with a GitHub token, and by which Prune
\* will judge it, is the instant at which the token ends, on whichever clock
\* and day GitHub has written it: checkTokenExpiration reads the header right
\* or, for the hours and zones its layout does not know, not at all, and then
\* the token is not cached.
ExpiryHonest ==
    \A k \in Keys : cache[k] # Absent =>
        \A header \in cache[k].headers :
            header.for = Scope("github") => cache[k].expires = LifeOf(header.secret[1]).ends

\* The requests that the built-in choice gives to a helper whose Get does not
\* take them: the choice looks at the host name alone and folds its case, gcs
\* compares it as it is spelt (gcs.go:70), github compares it with the port
\* (github.go:102), gcs, gar and azstorage know one port, and the remote APIs
\* want one of their services in the path.
Disagreement(helper, u) ==
    \/ u.scheme # "https" /\ ~(helper = "remoteapis" /\ u.scheme \in {"grpc", "grpcs"})
    \/ helper \in {"gcs", "gar", "azstorage"} /\ ~StandardPort(u)
    \/ helper = "gcs" /\ u.host # StorageGoogleapis
    \/ helper = "github" /\ u.port # ""
    \/ helper = "remoteapis" /\ ~\E s \in RemoteServices : u.path = <<s>>

\* FallbackHelperFactory and the helpers disagree about these requests and no
\* others: without a config file, Get refuses a request as one of another
\* service only in these cases, and in these cases never goes on to look up a
\* secret.  Whether such a request is answered may still depend on the cache.
RoutedIsSupported ==
    setup.file = "absent" =>
        \A c \in Getters :
            /\ (get[c].pc = "failed" /\ get[c].why = "unsupported")
                    => Disagreement(get[c].helper, get[c].uri)
            /\ get[c].pc = "looking" => ~Disagreement(get[c].helper, get[c].uri)

\* An S3 Get that no keyring change disturbs signs with the credentials of
\* that keyring: the access key with the secret, or, if none is provided,
\* with the secret derived from the Cloudflare token, although the lookups
\* are separate and overwrite each other.
UndisturbedGetIsAtomic ==
    \A c \in Getters : (get[c].pc \in {"printed", "done"} /\ get[c].origin = "undisturbed") =>
        LET u == get[c].uri
            chain == FromContext("s3", u, get[c].config).lookup_chain
            at(binding) == Lookup(World(get[c].ring), chain, binding)
            provided == at(SecretAccessKey) \notin Errors
            derived == providerFromHost(Host(u)) = "r2" /\ at(CloudflareAPIToken) \notin Errors
            secret == IF provided THEN at(SecretAccessKey) ELSE Sha256(at(CloudflareAPIToken))
            static == at(AccessKeyID) \notin Errors /\ at(AccessKeyID) # ""
                        /\ (provided \/ derived) /\ secret # ""
        IN \A header \in get[c].answer.headers :
             IF static
             THEN header.secret[1] = at(AccessKeyID) /\ header.secret[2] = secret
             ELSE header.secret[1] = "credentials of the AWS SDK"

\* setup-uri tells what get finds: some source of a binding is SET exactly if
\* Lookup has a value for it, and a keyring that cannot be read is never taken
\* for one without the secret (chains without a Google source).
SetupTellsTruth ==
    \A c \in Getters : get[c].pc = "looking" =>
        LET chain == FromContext(get[c].helper, get[c].uri, get[c].config).lookup_chain IN
        (\A i \in DOMAIN chain : Decodes(chain[i]) /\ chain[i].type # "google") =>
            \A i \in DOMAIN BindingsOf(get[c].helper, get[c].uri) :
                LET binding == BindingsOf(get[c].helper, get[c].uri)[i]
                    told == SetupInstructions(World(keyring), chain, binding)
                    result == Lookup(World(keyring), chain, binding)
                IN /\ "SET" \in told <=> result \notin Errors
                   /\ "ERROR ACCESSING KEYCHAIN" \in told => result # NotFound

=============================================================================
