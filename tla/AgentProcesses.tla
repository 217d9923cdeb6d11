--------------------------- MODULE AgentProcesses ---------------------------
(***************************************************************************)
(* The processes of one user and one workspace: `get` clients, each of     *)
(* which launches an agent and then dials the agent socket, `agent-        *)
(* shutdown` commands, and the agents competing for the lock file and the  *)
(* socket path (cmd/root/root.go, cache/socketcache.go, agent/client.go,   *)
(* agent/service.go, agent/internal/lockfile).                             *)
(*                                                                         *)
(* An agent is named after the client that launched it.  A credential is   *)
(* named after the client whose resolver produced it; the cache of an      *)
(* agent maps a key to a credential.  A request that has reached a handler *)
(* is served in one step and the shutdown of an agent keeps the stages     *)
(* that other processes can observe: CachingAgent.tla has the goroutines.  *)
(***************************************************************************)
EXTENDS Integers, FiniteSets

CONSTANTS
    Getters,        \* `get` processes
    Shutdowners,    \* `agent-shutdown` processes
    Keys,           \* cache keys
    NoKey,          \* the empty cache key: do not cache
    Nobody,         \* no process, no credential
    IdleShutdowns,  \* an agent may shut down for want of requests
    MaxDials,       \* dial attempts of NewSocketCache (1 s in steps of 1 ms)
    MaxFaults       \* bound: agents killed, start-ups and Accepts that fail

Clients == Getters \cup Shutdowners
Agents == Getters

ASSUME ProcessAssumption ==
    /\ Getters \cap Shutdowners = {}
    /\ Nobody \notin Clients
    /\ NoKey \notin Keys
    /\ IdleShutdowns \in BOOLEAN
    /\ MaxDials \in Nat \ {0}
    /\ MaxFaults \in Nat

VARIABLES
    key,       \* getter -> the cache key of its request
    pc,        \* client -> where it is
    dials,     \* getter -> dial attempts that failed
    printed,   \* getter -> the credential it wrote to stdout, or Nobody
    server,    \* client -> the agent its connection leads to, Nobody if it has none
    link,      \* client -> the connection, as the agent's process has it
    inbox,     \* client -> the request on the wire
    outbox,    \* client -> the response on the wire
    agent,     \* agent -> the stage of its life
    accepting, \* agent -> its acceptLoop has met no error of Accept
    cache,     \* agent -> key -> credential
    lock,      \* the agent that holds the lock file, or Nobody
    socket,    \* the agent that bound the file at the socket path, or Nobody
    faults     \* agents killed, start-ups and Accepts that failed so far

clientVars == <<key, pc, dials, printed>>
wireVars == <<server, link, inbox, outbox>>
agentVars == <<agent, accepting, cache, lock, socket, faults>>
vars == <<clientVars, wireVars, agentVars>>

Stages == {"unborn", "started", "locked", "unlinked", "serving", "stopping", "closing",
           "draining", "exited", "refused", "failed"}

\* The stages in which the listener is open.
Listening(a) == agent[a] \in {"serving", "stopping", "closing"}

\* The stages between taking and freeing the lock.
Locking(a) == agent[a] \in {"locked", "unlinked", "serving", "stopping", "closing", "draining"}

Alive(a) == agent[a] \notin {"unborn", "exited", "refused", "failed"}

Terminated(c) == pc[c] \in {"exit0", "exit1"}

Requests == {"none", "retrieve", "store", "shutdown"}

\* A hit is an "ok" that carries a credential.
Responses == [status : {"none", "ok", "cache-miss"}, credential : Getters \cup {Nobody}]

EmptyCache == [k \in Keys |-> Nobody]

NoResponse == [status |-> "none", credential |-> Nobody]

\* Types of all the variables.
TypeOK ==
    /\ key \in [Getters -> Keys \cup {NoKey}]
    /\ pc \in [Clients -> {"launch", "dial", "retrieve", "retrieving", "resolve", "store",
                           "storing", "command", "commanding", "exit0", "exit1"}]
    /\ dials \in [Getters -> 0..MaxDials]
    /\ printed \in [Getters -> Getters \cup {Nobody}]
    /\ server \in [Clients -> Agents \cup {Nobody}]
    /\ link \in [Clients -> {"none", "queued", "held", "open", "closed"}]
    /\ inbox \in [Clients -> Requests]
    /\ outbox \in [Clients -> Responses]
    /\ agent \in [Agents -> Stages]
    /\ accepting \in [Agents -> BOOLEAN]
    /\ cache \in [Agents -> [Keys -> Getters \cup {Nobody}]]
    /\ lock \in Agents \cup {Nobody}
    /\ socket \in Agents \cup {Nobody}
    /\ faults \in 0..MaxFaults

Init ==
    /\ key \in [Getters -> Keys \cup {NoKey}]
    /\ pc = [c \in Clients |-> IF c \in Getters THEN "launch" ELSE "command"]
    /\ dials = [c \in Getters |-> 0]
    /\ printed = [c \in Getters |-> Nobody]
    /\ server = [c \in Clients |-> Nobody]
    /\ link = [c \in Clients |-> "none"]
    /\ inbox = [c \in Clients |-> "none"]
    /\ outbox = [c \in Clients |-> NoResponse]
    /\ agent = [a \in Agents |-> "unborn"]
    /\ accepting = [a \in Agents |-> TRUE]
    /\ cache = [a \in Agents |-> EmptyCache]
    /\ lock = Nobody
    /\ socket = Nobody
    /\ faults = 0

-----------------------------------------------------------------------------
(***************************************************************************)
(* `get`: launchOrConnectAgent and NewSocketCache                          *)
(***************************************************************************)

\* With $CREDENTIAL_HELPER_STANDALONE there is no agent: foreground runs on a
\* NoCache, which has no connection.
RunStandalone(c) ==
    /\ pc[c] = "launch"
    /\ pc' = [pc EXCEPT ![c] = "retrieve"]
    /\ UNCHANGED <<key, dials, printed, wireVars, agentVars>>

\* os.StartProcess and Release: the client does not wait for the agent.
LaunchAgent(c) ==
    /\ pc[c] = "launch"
    /\ pc' = [pc EXCEPT ![c] = "dial"]
    /\ agent' = [agent EXCEPT ![c] = "started"]
    /\ UNCHANGED <<key, dials, printed, wireVars, accepting, cache, lock, socket, faults>>

LaunchFails(c) ==
    /\ pc[c] = "launch"
    /\ pc' = [pc EXCEPT ![c] = "exit1"]
    /\ UNCHANGED <<key, dials, printed, wireVars, agentVars>>

\* The socket path leads to an open listener.
Reachable == socket # Nobody /\ Listening(socket)

Connect(c) ==
    /\ Reachable
    /\ server' = [server EXCEPT ![c] = socket]
    /\ link' = [link EXCEPT ![c] = "queued"]

DialAgent(c) ==
    /\ pc[c] = "dial"
    /\ Connect(c)
    /\ pc' = [pc EXCEPT ![c] = "retrieve"]
    /\ UNCHANGED <<key, dials, printed, inbox, outbox, agentVars>>

DialOnceMore(c) ==
    /\ pc[c] = "dial"
    /\ ~Reachable
    /\ dials' = [dials EXCEPT ![c] = @ + 1]
    /\ pc' = [pc EXCEPT ![c] = IF dials[c] < MaxDials THEN "dial" ELSE "exit1"]
    /\ UNCHANGED <<key, printed, wireVars, agentVars>>

\* ENOENT or ECONNREFUSED: sleep and try again, MaxDials times in all.
DialFails(c) ==
    /\ pc[c] = "dial"
    /\ ~Reachable
    /\ dials' = [dials EXCEPT ![c] = @ + 1]
    /\ pc' = [pc EXCEPT ![c] = IF dials[c] + 1 < MaxDials THEN "dial" ELSE "exit1"]
    /\ UNCHANGED <<key, printed, wireVars, agentVars>>

(***************************************************************************)
(* `get`: foreground, with SocketCache.Retrieve and SocketCache.Store      *)
(***************************************************************************)
Send(c, request) ==
    /\ link[c] # "closed"
    /\ inbox' = [inbox EXCEPT ![c] = request]

\* The cache is a NoCache.
Uncached(c) == link[c] = "none"

\* Read the answer off the wire.
Consume(c) == outbox' = [outbox EXCEPT ![c] = NoResponse]

\* The request cannot be decoded, or no helper can be configured for its URI.
RequestFails(c) ==
    /\ pc[c] = "retrieve"
    /\ pc' = [pc EXCEPT ![c] = "exit1"]
    /\ UNCHANGED <<key, dials, printed, wireVars, agentVars>>

SendRetrieve(c) ==
    /\ pc[c] = "retrieve"
    /\ ~Uncached(c)
    /\ key[c] # NoKey
    /\ Send(c, "retrieve")
    /\ pc' = [pc EXCEPT ![c] = "retrieving"]
    /\ UNCHANGED <<key, dials, printed, server, link, outbox, agentVars>>

\* NoCache misses; an empty key is a miss without asking the agent; a broken
\* connection is logged and ignored.
SkipRetrieve(c) ==
    /\ pc[c] = "retrieve"
    /\ Uncached(c) \/ key[c] = NoKey \/ link[c] = "closed"
    /\ pc' = [pc EXCEPT ![c] = "resolve"]
    /\ UNCHANGED <<key, dials, printed, wireVars, agentVars>>

Hit(c) ==
    /\ pc[c] = "retrieving"
    /\ outbox[c].status = "ok"
    /\ Consume(c)
    /\ printed' = [printed EXCEPT ![c] = outbox[c].credential]
    /\ pc' = [pc EXCEPT ![c] = "exit0"]
    /\ UNCHANGED <<key, dials, server, link, inbox, agentVars>>

\* Printing the cached response fails.
PrintFails(c) ==
    /\ pc[c] = "retrieving"
    /\ outbox[c].status = "ok"
    /\ Consume(c)
    /\ pc' = [pc EXCEPT ![c] = "exit1"]
    /\ UNCHANGED <<key, dials, printed, server, link, inbox, agentVars>>

\* A cache miss, or the agent is gone: an error that is logged and ignored.
Miss(c) ==
    /\ pc[c] = "retrieving"
    /\ \/ outbox[c].status = "cache-miss"
       \/ outbox[c].status = "none" /\ link[c] = "closed"
    /\ Consume(c)
    /\ pc' = [pc EXCEPT ![c] = "resolve"]
    /\ UNCHANGED <<key, dials, printed, server, link, inbox, agentVars>>

\* resolver.Get succeeds and the response is printed.
Resolve(c) ==
    /\ pc[c] = "resolve"
    /\ printed' = [printed EXCEPT ![c] = c]
    /\ pc' = [pc EXCEPT ![c] = "store"]
    /\ UNCHANGED <<key, dials, wireVars, agentVars>>

\* authenticator.Resolver or resolver.Get fails, or printing the response does.
ResolveFails(c) ==
    /\ pc[c] = "resolve"
    /\ pc' = [pc EXCEPT ![c] = "exit1"]
    /\ UNCHANGED <<key, dials, printed, wireVars, agentVars>>

MayStore(c) == ~Uncached(c) /\ key[c] # NoKey

SendStore(c) ==
    /\ pc[c] = "store"
    /\ MayStore(c)
    /\ Send(c, "store")
    /\ pc' = [pc EXCEPT ![c] = "storing"]
    /\ UNCHANGED <<key, dials, printed, server, link, outbox, agentVars>>

\* NoCache, an empty key, or a response that has no Expires.
SkipStore(c) ==
    /\ pc[c] = "store"
    /\ pc' = [pc EXCEPT ![c] = "exit0"]
    /\ UNCHANGED <<key, dials, printed, wireVars, agentVars>>

Stored(c) ==
    /\ pc[c] = "storing"
    /\ outbox[c].status = "ok"
    /\ Consume(c)
    /\ pc' = [pc EXCEPT ![c] = "exit0"]
    /\ UNCHANGED <<key, dials, printed, server, link, inbox, agentVars>>

\* Writing the request or reading the answer fails: logging.Fatalf.
StoreFails(c) ==
    /\ \/ pc[c] = "store" /\ MayStore(c)
       \/ pc[c] = "storing" /\ outbox[c].status = "none"
    /\ link[c] = "closed"
    /\ pc' = [pc EXCEPT ![c] = "exit1"]
    /\ UNCHANGED <<key, dials, printed, wireVars, agentVars>>

(***************************************************************************)
(* `agent-shutdown`: clientCommandProcess, which dials once and takes a    *)
(* failure to connect for an agent that is not running.                    *)
(***************************************************************************)
CommandShutdown(c) ==
    /\ pc[c] = "command"
    /\ IF Reachable
       THEN /\ Connect(c)
            /\ inbox' = [inbox EXCEPT ![c] = "shutdown"]
            /\ pc' = [pc EXCEPT ![c] = "commanding"]
       ELSE /\ pc' = [pc EXCEPT ![c] = "exit0"]
            /\ UNCHANGED <<server, link, inbox>>
    /\ UNCHANGED <<key, dials, printed, outbox, agentVars>>

CommandAnswered(c) ==
    /\ pc[c] = "commanding"
    /\ \/ outbox[c].status = "ok" /\ pc' = [pc EXCEPT ![c] = "exit0"]
       \/ /\ outbox[c].status = "none"
          /\ link[c] = "closed"
          /\ pc' = [pc EXCEPT ![c] = "exit1"]
    /\ Consume(c)
    /\ UNCHANGED <<key, dials, printed, server, link, inbox, agentVars>>

-----------------------------------------------------------------------------
(***************************************************************************)
(* The agent: NewCachingAgent                                              *)
(***************************************************************************)

\* One of the boundedly many faults that the environment causes.
Fault ==
    /\ faults < MaxFaults
    /\ faults' = faults + 1

AcquireLockBlindly(a) ==
    /\ agent[a] = "started"
    /\ lock' = a
    /\ agent' = [agent EXCEPT ![a] = "locked"]
    /\ UNCHANGED <<clientVars, wireVars, accepting, cache, socket, faults>>

\* A pid file that exists is taken for an agent that runs.
AcquireLockByExistence(a) ==
    /\ agent[a] = "started"
    /\ IF lock = Nobody /\ \A b \in Agents \ {a} : agent[b] = "unborn"
       THEN lock' = a /\ agent' = [agent EXCEPT ![a] = "locked"]
       ELSE agent' = [agent EXCEPT ![a] = "refused"] /\ UNCHANGED lock
    /\ UNCHANGED <<clientVars, wireVars, accepting, cache, socket, faults>>

\* flock without blocking: the loser logs the error and exits.
AcquireLock(a) ==
    /\ agent[a] = "started"
    /\ IF lock = Nobody
       THEN lock' = a /\ agent' = [agent EXCEPT ![a] = "locked"]
       ELSE agent' = [agent EXCEPT ![a] = "refused"] /\ UNCHANGED lock
    /\ UNCHANGED <<clientVars, wireVars, accepting, cache, socket, faults>>

\* The unguarded order: remove the socket before taking the lock.
RemoveSocketEarly(a) ==
    /\ agent[a] \in {"started", "locked"}
    /\ socket' = Nobody
    /\ agent' = [agent EXCEPT ![a] = IF @ = "locked" THEN "unlinked" ELSE @]
    /\ UNCHANGED <<clientVars, wireVars, accepting, cache, lock, faults>>

RemoveSocket(a) ==
    /\ agent[a] = "locked"
    /\ socket' = Nobody
    /\ agent' = [agent EXCEPT ![a] = "unlinked"]
    /\ UNCHANGED <<clientVars, wireVars, accepting, cache, lock, faults>>

Listen(a) ==
    /\ agent[a] = "unlinked"
    /\ socket = Nobody
    /\ socket' = a
    /\ agent' = [agent EXCEPT ![a] = "serving"]
    /\ UNCHANGED <<clientVars, wireVars, accepting, cache, lock, faults>>

\* A start-up that ends in an error.  Before the lock: a duration that cannot
\* be parsed, a lock file that cannot be opened.  With the lock, which the
\* kernel frees when the process exits: the pid that cannot be written, the
\* socket directory that cannot be hardened, net.Listen.
StartupFails(a) ==
    /\ Fault
    /\ \/ /\ agent[a] = "started"
          /\ agent' = [agent EXCEPT ![a] = "failed"]
          /\ UNCHANGED lock
       \/ /\ agent[a] \in {"locked", "unlinked"}
          /\ agent' = [agent EXCEPT ![a] = "exited"]
          /\ lock' = Nobody
    /\ UNCHANGED <<clientVars, wireVars, accepting, cache, socket>>

(***************************************************************************)
(* The agent: Serve                                                        *)
(***************************************************************************)

\* acceptLoop holds at most one connection that Serve has not taken yet.
Held(a) == \E d \in Clients : server[d] = a /\ link[d] = "held"

Accept(a, c) ==
    /\ Listening(a)
    /\ accepting[a]
    /\ server[c] = a
    /\ link[c] = "queued"
    /\ ~Held(a)
    /\ link' = [link EXCEPT ![c] = "held"]
    /\ UNCHANGED <<clientVars, server, inbox, outbox, agentVars>>

\* An error of Accept ends acceptLoop for good; the listener stays open and
\* connections queue up at it.
AcceptFails(a) ==
    /\ Fault
    /\ Listening(a)
    /\ accepting[a]
    /\ ~Held(a)
    /\ accepting' = [accepting EXCEPT ![a] = FALSE]
    /\ UNCHANGED <<clientVars, wireVars, agent, cache, lock, socket>>

\* Serve receives connections until it leaves its select loop.
HandOver(a, c) ==
    /\ agent[a] \in {"serving", "stopping"}
    /\ server[c] = a
    /\ link[c] = "held"
    /\ link' = [link EXCEPT ![c] = "open"]
    /\ UNCHANGED <<clientVars, server, inbox, outbox, agentVars>>

\* The agent's end of the connections of some clients is closed: requests
\* nobody has read are lost, answers can still be read.
Hangup(clients) ==
    /\ link' = [c \in Clients |-> IF c \in clients THEN "closed" ELSE link[c]]
    /\ server' = [c \in Clients |-> IF c \in clients THEN Nobody ELSE server[c]]
    /\ inbox' = [c \in Clients |-> IF c \in clients THEN "none" ELSE inbox[c]]

Answer(c, status, credential) ==
    /\ inbox' = [inbox EXCEPT ![c] = "none"]
    /\ outbox' = [outbox EXCEPT ![c] = [status |-> status, credential |-> credential]]

AnswerAnyKey(a, c) ==
    /\ inbox[c] = "retrieve"
    /\ \E k \in Keys :
        Answer(c, IF cache[a][k] = Nobody THEN "cache-miss" ELSE "ok", cache[a][k])
    /\ UNCHANGED <<agent, cache>>

HandleRetrieve(a, c) ==
    /\ inbox[c] = "retrieve"
    /\ Answer(c, IF cache[a][key[c]] = Nobody THEN "cache-miss" ELSE "ok", cache[a][key[c]])
    /\ UNCHANGED <<agent, cache>>

HandleStore(a, c) ==
    /\ inbox[c] = "store"
    /\ Answer(c, "ok", Nobody)
    /\ cache' = [cache EXCEPT ![a] = [@ EXCEPT ![key[c]] = printed[c]]]
    /\ UNCHANGED agent

HandleShutdown(a, c) ==
    /\ inbox[c] = "shutdown"
    /\ Answer(c, "ok", Nobody)
    /\ agent' = [agent EXCEPT ![a] = IF @ = "serving" THEN "stopping" ELSE @]
    /\ UNCHANGED cache

\* A handler outlives the select loop and the listener.
HandleRequest(a, c) ==
    /\ Alive(a)
    /\ server[c] = a
    /\ link[c] = "open"
    /\ HandleRetrieve(a, c) \/ HandleStore(a, c) \/ HandleShutdown(a, c)
    /\ UNCHANGED <<clientVars, server, link, accepting, lock, socket, faults>>

\* The client is gone and the handler reads EOF.
HandlerReturns(a, c) ==
    /\ Alive(a)
    /\ server[c] = a
    /\ link[c] = "open"
    /\ Terminated(c)
    /\ inbox[c] = "none"
    /\ Hangup({c})
    /\ UNCHANGED <<clientVars, outbox, agentVars>>

\* The prune goroutine evicts an entry that has expired.
Evict(a, k) ==
    /\ Alive(a)
    /\ cache[a][k] # Nobody
    /\ cache' = [cache EXCEPT ![a] = [@ EXCEPT ![k] = Nobody]]
    /\ UNCHANGED <<clientVars, wireVars, agent, accepting, lock, socket, faults>>

IdleShutdown(a) ==
    /\ IdleShutdowns
    /\ agent[a] = "serving"
    /\ agent' = [agent EXCEPT ![a] = "stopping"]
    /\ UNCHANGED <<clientVars, wireVars, accepting, cache, lock, socket, faults>>

LeaveSelect(a) ==
    /\ agent[a] = "stopping"
    /\ agent' = [agent EXCEPT ![a] = "closing"]
    /\ UNCHANGED <<clientVars, wireVars, accepting, cache, lock, socket, faults>>

CloseListenerKeepsQueue(a) ==
    /\ agent[a] = "closing"
    /\ agent' = [agent EXCEPT ![a] = "draining"]
    /\ socket' = Nobody
    /\ UNCHANGED <<clientVars, wireVars, accepting, cache, lock, faults>>

\* lis.Close unlinks the path, whoever bound it, and drops the queue.
CloseListener(a) ==
    /\ agent[a] = "closing"
    /\ agent' = [agent EXCEPT ![a] = "draining"]
    /\ socket' = Nobody
    /\ Hangup({c \in Clients : server[c] = a /\ link[c] = "queued"})
    /\ UNCHANGED <<clientVars, outbox, accepting, cache, lock, faults>>

Drained(a) == \A c \in Clients : server[c] = a => link[c] \notin {"held", "open"}

\* The process ends, and with it its memory and its lock.
Ends(a) ==
    /\ agent' = [agent EXCEPT ![a] = "exited"]
    /\ lock' = IF lock = a THEN Nobody ELSE lock
    /\ cache' = [cache EXCEPT ![a] = EmptyCache]

\* wg.Wait has returned; cleanup frees the lock and the process exits.
Exit(a) ==
    /\ agent[a] = "draining"
    /\ Drained(a)
    /\ Ends(a)
    /\ UNCHANGED <<clientVars, wireVars, accepting, socket, faults>>

\* The agent is killed: the kernel frees its lock and closes its sockets, the
\* file at the socket path stays behind.
Crash(a) ==
    /\ Fault
    /\ Alive(a)
    /\ Ends(a)
    /\ Hangup({c \in Clients : server[c] = a})
    /\ UNCHANGED <<clientVars, outbox, accepting, socket>>

-----------------------------------------------------------------------------
Get(c) ==
    \/ RunStandalone(c) \/ LaunchAgent(c) \/ LaunchFails(c) \/ DialAgent(c) \/ DialFails(c)
    \/ RequestFails(c) \/ SendRetrieve(c) \/ SkipRetrieve(c)
    \/ Hit(c) \/ PrintFails(c) \/ Miss(c)
    \/ Resolve(c) \/ ResolveFails(c)
    \/ SendStore(c) \/ SkipStore(c) \/ Stored(c) \/ StoreFails(c)

Command(c) == CommandShutdown(c) \/ CommandAnswered(c)

Startup(a) == AcquireLock(a) \/ RemoveSocket(a) \/ Listen(a) \/ StartupFails(a)

Serve(a) ==
    \/ \E c \in Clients : Accept(a, c) \/ HandOver(a, c)
    \/ LeaveSelect(a) \/ CloseListener(a) \/ Exit(a)

Handler(a, c) == HandleRequest(a, c) \/ HandlerReturns(a, c)

Next ==
    \/ \E c \in Getters : Get(c)
    \/ \E c \in Shutdowners : Command(c)
    \/ \E a \in Agents :
        \/ Startup(a) \/ Serve(a) \/ AcceptFails(a) \/ IdleShutdown(a) \/ Crash(a)
        \/ \E c \in Clients : Handler(a, c)
        \/ \E k \in Keys : Evict(a, k)

(***************************************************************************)
(* Processes that can run do, and Serve's select takes the closed          *)
(* shutdownChan at some point.  The idle timer, when the timeout is not     *)
(* negative, fires in the end: every request resets it, and each client    *)
(* sends finitely many.  Nothing makes Accept fail or an agent crash.      *)
(***************************************************************************)
Fairness ==
    /\ \A c \in Getters : WF_vars(Get(c))
    /\ \A c \in Shutdowners : WF_vars(Command(c))
    /\ \A a \in Agents :
        /\ WF_vars(Startup(a))
        /\ WF_vars(\E c \in Clients : Accept(a, c))
        /\ WF_vars(\E c \in Clients : HandOver(a, c))
        /\ WF_vars(LeaveSelect(a))
        /\ WF_vars(CloseListener(a))
        /\ WF_vars(Exit(a))
        /\ WF_vars(IdleShutdown(a))
        /\ \A c \in Clients : WF_vars(Handler(a, c))

Spec == Init /\ [][Next]_vars

FairSpec == Spec /\ Fairness

-----------------------------------------------------------------------------
(***************************************************************************)
(* Refinement: the `get` processes alone, with what they print.            *)
(***************************************************************************)
Service ==
    INSTANCE GetService WITH
        Getters <- Getters, Keys <- Keys, NoKey <- NoKey, Nobody <- Nobody,
        key <- key, printed <- printed

-----------------------------------------------------------------------------
(***************************************************************************)
(* Properties                                                              *)
(***************************************************************************)

\* The lock file admits one agent: two agents are never between taking and
\* freeing it, whatever was launched, shut down or killed meanwhile.
OneAgent == \A a, b \in Agents : (Locking(a) /\ Locking(b)) => a = b

\* An agent whose listener is open stays reachable through the socket path:
\* no other agent, starting up or on its way out, unlinks or replaces it.
ListenerReachable == \A a \in Agents : Listening(a) => socket = a

\* Whatever the agents go through, the clients print at most once, and only
\* what was resolved for their own cache key by a client that had printed it
\* before (foreground, SocketCache and the agent's handlers together).
ServiceSpec == Service!Spec

\* Some agent is starting up or listens.
AgentOnTheWay ==
    \E a \in Agents : agent[a] \in {"started", "locked", "unlinked"} \/ Listening(a)

\* No agent has been told to shut down or was killed, and none gave up its
\* start-up after it had taken the lock.
HolderStays == \A a \in Agents : agent[a] \notin {"stopping", "closing", "draining", "exited"}

\* launchOrConnectAgent says that launching an agent "will fail if the agent
\* is already running, which is fine".  Of the agents that clients launch at
\* the same time, in whatever order they try the lock, and however many of
\* them fail before they do, one takes it: as long as no agent that had the
\* lock goes away, every client that has yet to connect, and whose own agent
\* did not fail, has an agent that listens or is about to.
LaunchRaceWon ==
    HolderStays =>
        \A c \in Getters : (pc[c] = "dial" /\ agent[c] # "failed") => AgentOnTheWay

\* The client at the other end of a connection that nobody will ever close:
\* acceptLoop cannot hand it over any more, or acceptLoop has ended and no
\* idle timeout will close the listener.
Stranded(c) ==
    \/ link[c] = "held" /\ agent[server[c]] \in {"closing", "draining"}
    \/ ~IdleShutdowns /\ link[c] = "queued" /\ ~accepting[server[c]]

\* Every client terminates, whichever agents are shut down, killed, fail to
\* start or lose their acceptLoop to an error of Accept, and whenever they do,
\* with one exception: the client whose connection acceptLoop had accepted and
\* not yet handed over when Serve left its select loop.  Without an idle
\* timeout the clients queued behind an acceptLoop that ended are another.
ClientsTerminate ==
    <>[](\A c \in Clients : Terminated(c) \/ Stranded(c))

=============================================================================
