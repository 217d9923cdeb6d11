# A TLA+ verification of the credential helper

This directory models the credential helper of this repository in TLA+: what a
`get` process does to find a credential, what the agent does to keep it, and the timers, locks,
sockets and files between them, checked
by TLC on small instances, and the main safety results proved by TLAPS for every
instance. `PROJECT.json` has, for every definition, the lines it models
(`map`), the runs with their properties, one plausible bug per property that breaks it
(`mutants`), the hazards the properties are aimed at and the theorems.

Paths below are relative to `src/`.

## 1. Inventory

The system is one binary. Bazel calls `credential-helper get`, which answers one
request and exits; a background process, the agent, keeps credentials in memory
between such calls.

| Component | State | Operations | Interacts with |
|---|---|---|---|
| `get` client: `cmd/root/root.go` (`clientProcess`, `launchOrConnectAgent`, `foreground`), `cache/socketcache.go`, `cache/nocache.go`, `agent/client.go` | where it is, one connection, the response it prints | launch an agent, dial with retries, retrieve, resolve, print, store | starts agents, talks to one over the socket, calls an authenticator |
| commands `agent-shutdown`, `agent-prune`, `agent-raw`: `clientCommandProcess` | one connection | dial once, one request, exit status | the agent |
| agent start-up: `NewCachingAgent`, `agent/internal/lockfile` | lock file, socket path | lock, remove the socket file, listen, clean up | other agents, through the file system only |
| agent service: `agent/service.go` | listener, two timers, `shutdownStarted`, `shutdownChan`, `idleTimeout`, `pruneInterval`, one goroutine per connection and four others | accept, `handleConn` and its four handlers, scheduled prune, idle shutdown, orderly shutdown | clients, the cache |
| in-memory cache: `cache/memcache.go` | a map under a mutex | `Retrieve`, `Store`, `Prune` | the agent's handlers and prune goroutine |
| configuration and helper choice: `config/config.go`, `helperfactory/fallback`, `cmd/internal/util`, `registry` | none at run time | read the file, match globs, pick a helper | `get`, `setup-uri` |
| credential sources: `authenticate/internal/lookupchain` | environment, keyring | try environment, keyring, static and google sources in order | authenticators, `setup-keyring` |
| OCI resolver: `authenticate/oci` | where a token exchange is, the docker config | challenge, derive credentials, exchange a token with fallback | registries over HTTP, the lookup chain, `docker login` |
| other authenticators: `github`, `gar`, `gcs`, `s3`, `azstorage`, `remoteapis`, `null` | secrets looked up so far | cache key, checks, lookups, answer | remote services, the lookup chain |
| `setup-uri`, `setup-keyring`: `cmd/setup` | the keyring | instructions, set, clear | `get` through the keyring |
| paths: `agent/locate`, wrapper `tools/credential-helper` | environment and working directory of a process | prefix expansion, workspace hash | everything that opens a path |
| installer: `cmd/installer` | the destination file | stop the agent, remove, link or copy | other installers, clients, agents |
| example cache plugin: `examples/customized/helper/cache` | a table on disk | retrieve, store with retries, prune | the agent |
| logging, Bazel rules, other examples | none shared | text output, build scripts | |

What is hard here is not in any one function:

* *Concurrency inside the agent.* Serve's select loop, the accept goroutine, the
  idle and the prune goroutine and one handler per connection share two timers, two
  plain duration fields, an atomic flag and two channels. Shutdown can be
  started by the idle goroutine and any number of handlers at once.
* *Concurrency between processes.* Every `get` launches an agent; all but one have to
  give up, without ever unlinking the socket of the one that serves.
* *Failure.* An agent can be killed at any point; it can fail half-way through its start-up, with the
  lock in its hands; it can go away between a client's retrieve and its store; `Accept` can fail once and for good.
* *Time.* Retries against a start-up, idle shutdown against a request, expiry against a
  prune, a token's life against the delay of the answer that brings it.
* *One fact computed twice.* The socket path by clients, agents and installers; the install
  path by Go and by a shell script; the hosts of a service by the router and by the
  helper; a source's status by `get` and by `setup-uri`; a cache key by whoever stores and whoever retrieves.
* *Changing inputs.* A `Get` reads several secrets one after the other while the keyring or
  the docker config may change.

What would make each part correct is stated in section 4, hazard by hazard in
`PROJECT.json`.

## 2. Modules

```
MemCache <- AgentTiming <- AgentTimingProofs                 time
            CachingAgent <- CachingAgentProofs               goroutines of one agent
            AgentProcesses <- AgentProcessesProofs           processes
Uris <- OCIPaths <- HelperSelection <- Selection <- SelectionProofs      which helper
        HelperSelection, LookupChain, MemCache <- Authenticators <- Credentials <- CredentialsProofs
        OCIPaths, LookupChain <- OCIAuth; with MemCache <- OCI <- OCIProofs
Maps <- LookupChain
Maps <- Locate <- Installer <- InstallerProofs               files and paths
CacheContract  implemented by AgentTiming
GetService     implemented by AgentProcesses
```

(`<-` reads "is extended by". State machines have an `MC...` module with the instance for
TLC.) A definition has the name of the function it models where the code has one. The
abstract specifications are instantiated `WITH` an explicit mapping.

### The agent

**MemCache**: `Retrieve`, `Store`, `Prune` are the three methods; each holds the mutex for its
whole body and is therefore one step of whoever uses it. A timestamp is a number, `Malformed` any
`Expires` that does not parse, `NoExpiry` the empty one. `Retrieve` does not look at the expiry, as in the
code; `Prune` drops what does not parse or is strictly in the past.

**AgentTiming**: the clock, the cache, and for the idle and the prune goroutine
where it is and when its next step is due. Requests (`HandleRetrieve`, ..., each beginning with the
`Reset` of `handleConn`) come at any time. The only assumption on the scheduler is that
a goroutine that can run does so within `Latency` ticks (the guard of `Tick`). History:
when an entry was stored, the last request, the last hit.

**CachingAgent**: one action per statement that another goroutine can see. `main` is Serve, first
in its select loop, then in its deferred calls in their order (`lis.Close`, `wg.Wait`); `accepter`
is `acceptLoop`, including the moment between `Accept` and the completed send on the
unbuffered `acceptChan`; `pc` has the idle goroutine and the handlers; `handleShutdown` is
a compare-and-swap followed by three separate steps; `a.idleTimeout` is read by
`handleConn` in one step and applied in another, since nothing synchronises the two.
`req` survives from one request to the next, as in `handleConn`, and `DecodeInto`
leaves fields alone that a message does not mention. Clients dial, send, wait and may hang up
at any moment. Timers have no clock here: an armed one may fire, one set to a negative
duration has fired. Timer semantics are those of Go 1.23 (`Reset` drops an unreceived value).

**AgentProcesses**: `get` processes run `launchOrConnectAgent` and `foreground` step by step with
every error path; each launches its own agent. An agent goes through `NewCachingAgent`
(`AcquireLock`, `RemoveSocket`, `Listen`), serves, stops (`LeaveSelect`, `CloseListener`, `Exit`). `StartupFails` is a
start-up that ends in an error: before the lock (a duration that does not parse, a lock file that cannot be opened), or with it (the pid cannot be
written, the socket directory cannot be hardened, `net.Listen`), in which case the lock is free again once the process is gone. `AcceptFails` ends `acceptLoop` while
the listener stays open, and `Crash` is a killed agent (the kernel frees the lock, the socket file stays). `MaxFaults` bounds the three together. Whether a client is
standalone, and whether its response can be cached, is a choice it makes on the way. A credential is named after the client that resolved it, so that who printed what can
be followed through the caches. A request is one step here, but the accept goroutine's one
connection in hand (`link = "held"`) is kept, because a client can be stranded there.

**GetService** (abstract): the key of each client and what it printed. A client prints once: what
it resolved itself, or what another client resolved *for the same non-empty key* and printed before.

**CacheContract** (abstract): an entry changes only by `Put`, goes only when malformed or expired
(`Evict`), and a hit is what is stored under the key that was asked for (`Serve`). A hit does not renew anything.

### Finding a credential

**Uris, OCIPaths, HelperSelection**: a host is a sequence of symbols with the dots, so that
`HasSuffix` means the same as on strings whether or not a suffix starts at a label; a path is
a sequence of segments. `deriveRepository`, `FindHelper`, `FallbackHelperFactory` and `Configure`
are operators on them. `Matches` says what a glob means, without an algorithm: the pattern can be laid
along the candidate such that each of its symbols but `*` covers one equal symbol.

**Selection**: the search as the program does it: `Configure`, the rule loop and each
round of `globMatch` with its four indices, then a `Get` that fails (with or without the tip to run `setup-uri`)
and `setup-uri`, whose fallback to the resolver may end in an error or ignores what it finds.

**LookupChain**: the four sources, `Lookup` (first value wins, errors are put off, an
entry that does not decode ends the search), defaults, and what `SetupInstructions` says of each source. A
world is what the sources read: variables, keyring, whether it is locked, Google services.

**Authenticators, Credentials**: for every helper but `oci` its cache key, which requests it
takes on, its default configuration and its answer. `Credentials` runs several `get`
processes against one agent cache; every binding is looked up in a step of its own, and
`setup-keyring` sets and clears secrets in between. Answers of remote services are choices.
A header carries what it is made of and what it is for, so that one can ask whether it suits. `ExpirationHeader` is the header in which GitHub writes the end of a token's
life, as a date, an hour and a zone; `checkTokenExpiration` reads it with the code's layout. Time is in hours here.

**OCIAuth, OCI**: a `Get` for a registry as the conversation it is: challenge, docker config
or credential helper, lookup chain, one or two token requests. `docker login`
and the clock go on in between. The base64 of a docker entry is a name that `Pairs` decodes. A token remembers what was sent to get it
(`Sent`: the identity token, which `oauthToken` prefers, or the password, or nothing; a registry token is used as it is).

### Files and paths

**Locate**: a process is an environment and a working directory; every function of
`agent/locate` maps one to another or to a path, and `Wrapper` and `helper_bin` are what the shell script
computes. A hash is spelt as what it is computed from.

**Installer**: files are names of inodes, so that a hard link and a copy differ.
`AttemptAgentShutdown` or `ShutdownFails`, `RemoveOld` or `RemoveFails` (the code reports both errors and goes on), `Link`, `Open`, `Create`,
`Copy` are separate steps, and `BeginFails`, `CreateFails` and `CopyFails` those that end the installation. The shutdown is a request: the agents that the old binary's `agent-shutdown`
dials (`Addressed`) are `stopping` from then on, and `AgentExits`, whenever it comes, frees the socket and the lock. Clients run
the wrapper, launch an agent from whatever is at the helper's path by then, and dial; an agent that is stopping may or may not answer
them, and holds its lock either way.

## 3. Runs

| Run | Instance | Shows |
|---|---|---|
| `AgentTiming` | 1 key, idle timeout 2, interval 1, latency 1, clock to 5 | staleness and idleness bounds, a request keeps the agent up, refinement of CacheContract |
| `AgentRequests` | 1 connection, 2 requests of every kind, 2 keys, one transient Accept error, fair | complete requests are answered as asked; with the accept goroutine gone, the idle shutdown still ends and releases the clients |
| `AgentLiveness` | 2 connections that send shutdown, idle timer, fair | channel closed once, prune goroutine woken, accepted clients answered before exit; a shutdown ends, except through the stuck send |
| `ProcessesService` | 2 `get`, 1 `agent-shutdown`, 2 keys, idle shutdowns, 1 fault | refinement of GetService; one agent at a time; a listening agent owns the path; the launch race leaves an agent |
| `ProcessesLiveness` | 2 `get`, 1 `agent-shutdown`, 1 key, idle shutdowns, 1 fault, fair | every client terminates or is stranded in the accept goroutine's hand |
| `Credentials` | 2 `get`, 15 URIs, 8 environments and config files, 4 keyring services, 1 change, clock to 2 | answers suit their requests, recorded expiry, where router and helpers disagree, S3's separate lookups, `setup-uri` |
| `OCI` | 2 `get`, 5 URIs on 2 registries, 6 setups, 5 docker configs, 1 login, clock to 2 | tokens fit their requests, which secret is sent, recorded expiry, no circles |
| `Selection` | patterns to 4 symbols, hosts to 3, 2 rules, known hosts, plugins, fair | the search finds what the globs mean, and ends |
| `Installer` | 3 installers, 2 clients, 13 environments, linkable or not, writable or not | overlapping installations, replacement, one rendezvous, the wrapper's path |
| `AgentShutdownHangs` (violation) | as `AgentLiveness` | the stuck send is real: the shutdown does not always end |
| `InstallerCopies` (violation) | 2 installers, 2 clients | `InstalledRuns`: a copied helper cannot be executed |
| `SetupTip` (violation) | as `Selection` | `TipIsTrue`: `get` points to instructions that `setup-uri` does not give |

**Bounds.** Two connections are what a race between two handlers takes, and with
the idle goroutine there are three callers of `handleShutdown`; a third handler is
symmetric to the second. Two requests on a connection are what a stale field takes.
One fault with two agents has a successor find a stale socket file, a lock that a failed
start-up left free, or a listener behind which nobody accepts; the two launch their agents together. That the launch race goes
the same way with more of them is proved (`LaunchRace`). The clock of `AgentTiming` runs past an expiry, a prune interval and two
latencies, and past an idle timeout. One dial attempt makes giving up as likely as
can be. Two `get` processes are a cache and its beneficiary; one keyring change
or login falls between any two steps of either. The clocks of `Credentials` and `OCI` pass the
end of every token. A pattern of four symbols has two wildcards with something between
or around them, on candidates that make both backtrack. A third installer can
find a destination that two others raced for. `MaxTime`, `MaxRequests`, `MaxAcceptErrors`, `MaxDials`,
`MaxFaults`, `MaxChanges` and `MaxLogins` name the bounds; the theorems hold for every value of those they mention.

**Deadlock** is not checked anywhere: processes terminate and clocks are bounded. Being
stuck is instead what the liveness properties are about.

**Fairness.** Every step of a goroutine or a process that can run is weakly fair: Go's
scheduler is preemptive and a ready send or receive in a `select` is not starved for ever
(CachingAgent needs no more, because clients send finitely often). Timers fire; in AgentProcesses, which has no clock, this is the weak fairness of `IdleShutdown`: an agent whose idle timeout is enabled
stops in the end, because each request resets the timer once and clients send finitely many. A client
reads its answer, and hangs up when it has it, since it exits after its command. The search of
`Selection` is a loop of one thread and is fair for that reason. Nothing obliges a
client of CachingAgent to dial or send, an agent to crash, a start-up or `Accept` to fail.

### What the violation runs found

1. `acceptLoop` may be in its send on `acceptChan` when Serve returns from its loop
   (`agent/service.go:278`). Nobody receives, `wg.Wait` waits for it, and the agent neither
   exits nor frees its lock; the client whose connection it holds waits as well.
   `AcceptLoopStuck` names the state; `ShutdownCompletesUnlessStuck` and `ClientsReleased` show it is the only one.
2. Where no hard link can be made, `hardlinkOrCopy` copies into a file that `os.Create` made with mode
   0666 (`cmd/installer/installer.go:77`): the installer succeeds, the helper cannot be executed.
3. `setup-uri` looks for instructions in the resolver if the authenticator has none, as its comments say (`cmd/setup/uri.go:56,63`), but the result
   goes to a shadowed `ok` (`:64`), and it prints that there are none. `get` counts such a resolver when it decides to print its tip
   (`cmd/root/root.go:129-130`), so the tip of a plugin that has only a resolver with instructions is false. No built-in helper is one.

### What the models show besides

* `MemCache.Retrieve` serves an expired entry until the next prune; `BoundedStaleness` is the bound.
* `handleConn` can apply an idle timeout it read before `handleShutdown` made it negative
  (`agent/service.go:166`): the idle goroutine, hence the exit, then waits a full timeout. The prune
  goroutine has no such window (`PrunerForced`, proved).
* `get` prints a credential, then exits with status 1 if the agent vanished before the store
  (`cmd/root/root.go:144`). It launches once: if that agent is refused by one that is leaving,
  nobody opens the socket it dials (`:158`). `LaunchRaceWon` shows what this takes: an agent that had the lock goes away, be it shut down, idle, killed,
  or because its own start-up fails after others were refused (`agent/service.go:41-62`); or the client's own agent fails before it tries the lock.
* After an error of `Accept` (`agent/service.go:275`) the listener stays open and clients queue at it. They are released by the idle shutdown, or never if the idle timeout is negative (`Stranded`).
* A message without a method or payload inherits that of the request before it on the
  connection (`agent/service.go:146`), which is why `AnsweredAsAsked` speaks of complete requests.
* A GitHub expiry with an hour from 13 to 23 or a named zone does not parse (`authenticate/github/github.go:209`, a 12-hour layout); the token is
  then not cached. The others are read right (`ExpiryHonest`), so the price is a lookup per request.
* The router and the helpers do disagree. The router folds case and ignores the port (`helperfactory/fallback/fallback_factory.go:27,29`), `gcs` compares the host as it is spelt (`gcs.go:70`), `github` compares
  it with its port (`github.go:102`): a `gcs` host with a capital, or a `github` host with any port, is routed to a helper that refuses it. `Disagreement` lists these cases, and
  `RoutedIsSupported` shows that there are no others and that each of them ends in a refusal.
* A docker login that left an identity or a registry token decides over the password of the lookup chain (`authenticate/oci/oci.go:270,292,357`). `docs/providers/oci.md:64-65` says that one can use
  another token for `ghcr.io` by setting `$GHCR_TOKEN`; with such a login it is not used. `ChainPasswordIsSent` has these as its exceptions.
* A variable that is set to the empty string is found and hides later sources; an empty
  `R2_SECRET_ACCESS_KEY` even overwrites the secret derived from a Cloudflare token.
* Two installers that overlap, with a destination linked to a source that is writable, may
  truncate that source; Bazel's outputs are read-only, and `SourcesIntact` shows that this is enough.
* A relative directory in the environment (`CREDENTIAL_HELPER_WORKDIR`, `TEST_TMPDIR`, `HOME`, ...) gives client and agent
  different sockets, because each resolves it from where it stands; an empty `CREDENTIAL_HELPER_WORKSPACE_DIRECTORY`
  is a value for the wrapper and none for `setupWorkspaceDirectory`. With `XDG_CACHE_HOME` set the wrapper and the
  installer disagree. `AbsoluteDirectories` and `PlainEnvironment` name these cases, and `OneRendezvous`, `WrapperFindsInstall` and the
  second half of `InstallReplaces` exclude just them. Proving the three is what brought the less obvious ones up.
* The installer does not wait for the old agent. Until it is gone it keeps the lock, and an agent of the new version is refused; if its shutdown hangs (`AgentShutdownHangs`) this does not end. A failed
  request is reported and ignored. `cmd/installer/installer.go:52-53` calls the procedure best effort; `InstallReplaces` is what is left of it.
* If `os.Remove` is refused, the installer goes on and writes through the old file: with a hard link of an earlier
  source there, and that source writable, it overwrites the source (`SourcesIntact` counts this as disturbed).
* All helpers share one space of cache keys (`cmd/root/root.go:98`). A config file can give two requests with one key to different helpers,
  for example `s3` for `*/dir` and `gar` for the other paths of a host: `s3` uses the whole URI as its key, and the key of `gar` looks like the URI
  of a repository. The second `get` is then served what the first cached. `AnswersSuit` excludes these setups by name
  (`Colliding`; one is in the run). `BuiltInKeysApart` proves that the built-in choice never collides, for all requests that do not go to `oci`, whose keys are in another module.
* The docs differ from the code in details no run depends on: `docs/providers/github.md` writes `name` where
  a keyring source wants `service`, and the list of registries in `docs/providers/oci.md` lacks `gcr.io`.

## 4. Properties

*AgentTiming.* `BoundedStaleness`: no hit is later than one prune interval and two
latencies after the expiry. `IdleAgentStops`: no agent that is up got its last request longer
ago than the idle timeout and two latencies. `KeptAlive`: the idle goroutine shuts down only
after a full timeout without requests, or when the request came after the timer fired.
`ContractKept`: refinement of CacheContract, by which only entries that are malformed or strictly
expired disappear and a hit is the last entry stored under its key. The run has positive durations; `Staleness` and `Idleness` are proved for zero and negative ones as well.

*CachingAgent.* `ClosedOnce`, `PrunerForced`, `AcceptedAreAnswered`, `AnsweredAsAsked`, and
under fairness `ShutdownCompletesUnlessStuck`, `ClientsReleased`.

*AgentProcesses.* `OneAgent`, `ListenerReachable`, `ServiceSpec`, `LaunchRaceWon` (as long as nobody who had the lock goes away, a dialling client whose own agent
did not fail has an agent to come), and under fairness `ClientsTerminate`: all clients but those that `Stranded` names terminate.

*Credentials.* `AnswersSuit`: what is printed, fresh or cached by another process, is a header
this service accepts for this URI, unless the config file is one of `Colliding`. `ExpiryHonest`: the expiry recorded
with a cached GitHub token is the instant at which it ends (the entry itself stays until the prune after that).
`RoutedIsSupported`: the router and the helpers disagree about the requests that `Disagreement` describes, and no others. `UndisturbedGetIsAtomic`: an S3 `Get` during which the keyring
does not change signs with a pair that belongs together. `SetupTellsTruth`: `setup-uri` says SET exactly if `get` finds a value.

*OCI.* `TokenFitsRequest`; `ChainPasswordIsSent`: what is sent is the password the chain finds, a registry token or, at the OAuth endpoint, an identity token;
`ExpiryWithinDelay`, about the recorded expiry; and `GetsLeadOn`: every
step of a `Get` leads on, so none takes more than nine.

*Selection.* `FindsTheFirstMatch`: the backtracking search against the meaning of the globs.
Under fairness `SearchEnds`. `TipIsTrue` is violated (`SetupTip`).

*Installer.* `SourcesIntact`, `InstallReplaces` (its own version at the destination, and all running
agents of another one told to stop), `OneRendezvous`, `WrapperFindsInstall`.

A module with variables has one `TypeOK`. Operators whose names say what they get wrong
(`AcquireLockBlindly`, `RemoveSocketEarly`, `CacheKeyOfRegistry`, `WildcardNotRemembered`, ...) stand before the definition they
distort; no specification uses them. `PROJECT.json` says which property each one breaks.

## 5. Proofs

Every theorem is for all values of the constants that satisfy the named `ASSUME`s; TLC evaluates
them in the runs. They say that sentinels differ from values and bounds are numbers, and of the inputs:

* `Selection.InputAssumption`: the rules of a file are a list; patterns, hosts and paths are sequences of symbols.
* `OCI.InputAssumption`: paths are sequences, lifetimes are numbers, docker entries have the fields of the code's struct.
* `Credentials.InputAssumption`: no secret is spelt like an error (in the code an error is another return value), hosts come without
  their port, a rule's lookup chain is a sequence of entries that have the fields of the code's struct, and no request
  of this model is given to `oci` or to a plugin.
* `Installer.InstallerAssumption`, `DestinationAssumption`: variables of the environment are paths; nobody installs into, or runs the
  helper from, the very file that Bazel built.

**AgentTimingProofs.** `Staleness`, `Idleness`, `KeepAliveHonoured`, `KeepsContract`, `TypeCorrect`.
`BoundedStaleness` speaks of the past and is not inductive. The invariant `IInv` adds where each
goroutine's next step lies: `PrunerOnTime` and `IdlerOnTime` (no step is overdue by more than
`Latency`) and `EntriesFresh` (for every entry, the next prune is due at most one interval
and one latency after it goes stale). Tick keeps the first two by its guard; a
prune re-establishes the third because what it leaves expires no earlier than now.
`KeepsContract` is the refinement: `StoreIsPut`, `RetrieveIsServe` and `PruneIsEvict` map the three cache operations, every other
step stutters or ticks, and the type invariant supplies what the abstract actions demand of responses.

**CachingAgentProofs.** `NoPanic` (`ClosedOnce`), `PrunerStopsEarly` (`PrunerForced`), `TypeCorrect`.
`ShutdownInv` says that at most one caller is between the compare-and-swap and the close, that
the channel is open as long as one is (`OneShutdown`), that no handler runs for
a connection Serve has not been handed (`NoEarlyHandler`), and that once `forcePrune` is over the
prune goroutine is not asleep and will not put itself to sleep (`PrunerWakes`): if it
read the interval before, its own Reset is followed by the loop test, which sees
`shutdownStarted`.

**AgentProcessesProofs.** `MutualExclusion` (`OneAgent`), `Reachability` (`ListenerReachable`),
`Refinement` (`ServiceSpec`), `LaunchRace` (`LaunchRaceWon`), `TypeCorrect`. `IInv` is the conjunction of
`DialBudget`, `Wire` (a message on the wire fits the step of its sender),
`Credentials` (whatever is cached or under way as a hit was printed by the client it is named
after, for that key) and `Ownership` (an agent past the lock holds it; one that listens
owns the path; between remove and listen the path is free). Refinement needs
`Credentials`: a hit is a step of GetService only if the credential it carries was
issued for the client's own key. `LaunchRace` adds that, as long as no agent that had the lock is leaving or has left, the lock's holder is
never past serving and a refused agent implies a holder; a start-up that fails before the lock takes nothing from anyone but its own client.

**SelectionProofs.** `SearchIsRight` (`FindsTheFirstMatch`), `TypeCorrect`. The heart is that `globMatch`, which
remembers only the latest wildcard, decides what `Matches` means, for patterns and candidates of any length. `GlobInv` relates the four
indices to the meaning: the pattern matches as a whole exactly if it matches from here or from the point to go back to
(`Attempts`). `GlobWildcard` is why forgetting the earlier wildcard is right: whatever can be reached by extending an earlier one can be reached by
extending the later one. This rests on lemmas that cut a layout in two and put two together (`LaysFront`, `LaysRest`, `MatchesOrdinary`, `MatchesWildcard`).
`Matches` needs no recursion, so no induction over data is involved: the search itself does the induction. `SearchInv` adds that no earlier rule stops the search.

**OCIProofs.** `TokensFit` (`TokenFitsRequest`), `PasswordsSent` (`ChainPasswordIsSent`), `ExpiryBounded` (`ExpiryWithinDelay`), `GetsEnd` (`GetsLeadOn`), `TypeCorrect`.
`OCIInv` has a clause for each stretch of a `Get`: what it asks for is the repository of its URI (`Asking`), what it got was issued for that and
not longer ago than the clock allows (`Answered`), and for each cache entry that its key is the scope of the token in it (`Kept`). That key and scope coincide is `KeyIsScope`;
`RepositoryOfRequest` shows that what `deriveRepository` finds by trimming suffixes is the repository that the distribution API has at this path. `GetsEnd` is the action property: each phase has a
number (`Place`) and every step goes to a higher one.

**InstallerProofs.** `OneMeetingPlace` (`OneRendezvous`), `InstallsReplace` (`InstallReplaces`), `SourcesKept` (`SourcesIntact`), `WrapperAgrees` (`WrapperFindsInstall`), `TypeCorrect`.
The paths come first, without any state: `SetupFacts` says what `SetupEnvironment` leaves behind; `SetupReached` that setting up again changes
neither directory nor variables that matter, which is why a child that inherits the environment arrives where its parent is; `OnePlace` that any two processes that have set up
mean the same files; `PlainDestination` and `PlainHelperBin` that Go and the shell script compute one path. `InstallerInv` then has where processes are (`ProcInv`), what
is named by a path (`FileInv`: only the sources and the destination exist, and an installer that copies has a file open that may be written), where agents listen (`AgentInv`), and what holds of an
undisturbed installation half way through (`QuietInv`: from the shutdown request on every agent of another version is stopping, from the removal on the destination is free, and so on).

**CredentialsProofs.** `AnswersFit` (`AnswersSuit`), `SignsAtomically` (`UndisturbedGetIsAtomic`), `SetupIsTrue` (`SetupTellsTruth`), `ExpiriesHonest` (`ExpiryHonest`), `RoutesSupported`
(`RoutedIsSupported`), `TypeCorrect`, and `BuiltInKeysApart`. `CredentialsInv` says of a process that is looking (`LookingInv`) that what it has found so far is what the keyring it
started with gives, if the keyring has not changed since; of one that answered that its answer was made for its request by its helper; and of a
cache entry that it was made for *some* request with this key (`EntryInv`). `AnswersFit` then needs that what suits one request suits every request of
the same key and helper (`SuitsShared`), which is a statement about each helper's `CacheKey`. `SetupIsTrue` needs no history: `ChainTruth` shows by
the first source that stops the search that the search and the instructions agree. `RoutesSupported` compares the router's and the helpers'
conditions on hosts (`HostFacts`, `FallbackIsSupported`). `BuiltInKeysApart` goes through every pair of helpers.

In CachingAgentProofs, `AnswerInv` gives two more: `AnswersMatch` (`AnsweredAsAsked`) and `NobodyDropped` (`AcceptedAreAnswered`). `OneRequest` follows one
request from the wire through the reused struct to the answer; `Drained` says that once `wg.Wait` has returned no handler is left.

**Only model-checked:** what holds under fairness (`ShutdownCompletesUnlessStuck`, `ClientsReleased`, `ClientsTerminate`, `SearchEnds`), for which the prover
has no rules. Every safety invariant and action property of a passing run is stated by a theorem.

## 6. Not modelled

* Signing, TLS, HTTP and the cloud SDKs: their outcomes are choices. The expiry of session credentials that the AWS SDK finds is never read by the code.
* The texts of `SetupInstructionsForURI`, `agent-logs`, `version`, usage and logging.
* `agent-prune` and `agent-raw` as processes; their requests are requests of CachingAgent.
* The map of closures per registry in `authenticate/oci` (`oci.go:448`): a process calls `Get` once, so it is never read.
* An installer whose source is its own destination (`bazel run` always starts it from Bazel's outputs).
* Several workspaces: they share no path, hence no state.
* The Windows branches (`LockFileEx` has the contract of `flock`), the macOS directories, process hardening.
* Build rules and release tools (`bzl/`): scripts that transform files once.
* The example plugins (`examples/`): path-to-header is stateless; the sqlite cache is a demonstration, whose `Prune` (`sqlitecache.go:125`) has its comparison the wrong way round.
* URIs that `url.Parse` rejects: `FindHelper` and the helpers return its error, and every modelled URI parses.
* Serve's context, which is `context.Background()` and is never cancelled.

## 7. Plan

1. An agent-level abstraction that CachingAgent implements and AgentProcesses uses, so that the step from goroutines to processes is proved as well.
2. The safety part of the liveness results: that `AcceptLoopStuck` is the only state in which a shutdown cannot go on, as an invariant (some step of the agent is possible in every other).
