------------------------ MODULE AgentProcessesProofs ------------------------
(***************************************************************************)
(* Proofs about AgentProcesses, for every number of clients and agents,    *)
(* every set of keys and every number of crashes and dial attempts.        *)
(***************************************************************************)
EXTENDS AgentProcesses, TLAPS

-----------------------------------------------------------------------------
(***************************************************************************)
(* The inductive invariant.                                                *)
(***************************************************************************)

\* A client that has yet to connect has attempts left.
DialBudget == \A c \in Getters : pc[c] \in {"launch", "dial"} => dials[c] < MaxDials

\* Requests and responses on the wire are those of the step the client is in;
\* a closed connection holds no request.
WireOf(c) ==
    /\ c \in Shutdowners => pc[c] \in {"command", "commanding", "exit0", "exit1"}
    /\ c \in Getters => pc[c] \notin {"command", "commanding"}
    /\ inbox[c] = "shutdown" => c \in Shutdowners
    /\ inbox[c] \in {"retrieve", "store"} => c \in Getters /\ key[c] \in Keys
    /\ pc[c] \in {"launch", "dial", "retrieve", "command"} => inbox[c] = "none"
    /\ inbox[c] # "none" =>
        /\ link[c] # "closed"
        /\ outbox[c].status = "none"
        /\ inbox[c] = "retrieve" => pc[c] = "retrieving"
        /\ inbox[c] = "store" => pc[c] = "storing"
        /\ inbox[c] = "shutdown" => pc[c] = "commanding"
    /\ outbox[c].status # "none" => pc[c] \in {"retrieving", "storing", "commanding"}
    /\ pc[c] = "retrieving" => key[c] \in Keys

Wire == \A c \in Clients : WireOf(c)

\* The credential was resolved, and printed, for the key.
IssuedFor(credential, k) ==
    /\ credential \in Getters
    /\ printed[credential] = credential
    /\ key[credential] = k

\* What a client has printed, what is cached and what is on the wire.
Credentials ==
    /\ \A c \in Getters :
        /\ pc[c] \in {"launch", "dial", "retrieve", "retrieving", "resolve"}
            => printed[c] = Nobody
        /\ pc[c] \in {"store", "storing"} => printed[c] = c
        /\ (pc[c] = "retrieving" /\ outbox[c].status = "ok")
            => IssuedFor(outbox[c].credential, key[c])
    /\ \A a \in Agents, k \in Keys :
        cache[a][k] # Nobody => IssuedFor(cache[a][k], k)

\* The agent that is past the lock holds it, and the socket path leads to it
\* from Listen to lis.Close.
Ownership ==
    /\ \A a \in Agents : Locking(a) => lock = a
    /\ \A a \in Agents : Listening(a) => socket = a
    /\ \A a \in Agents : agent[a] = "unlinked" => socket = Nobody

IInv == TypeOK /\ DialBudget /\ Wire /\ Credentials /\ Ownership

-----------------------------------------------------------------------------
(***************************************************************************)
(* Type correctness.                                                       *)
(***************************************************************************)

\* The empty response is a response.
LEMMA NoResponseType == NoResponse \in Responses
  BY DEF NoResponse, Responses

\* A cache without entries is a cache.
LEMMA EmptyCacheType == EmptyCache \in [Keys -> Getters \cup {Nobody}]
  BY DEF EmptyCache

\* The bound on faults holds after one more.
LEMMA FaultType ==
    ASSUME TypeOK, Fault
    PROVE  faults' \in 0..MaxFaults
  BY ProcessAssumption DEF TypeOK, Fault

\* The initial states are well typed.
LEMMA TypeInit == Init => TypeOK
  BY ProcessAssumption, NoResponseType, EmptyCacheType DEF Init, TypeOK, Stages, Requests

\* The steps of a `get` process keep the types.
LEMMA GetType ==
    ASSUME TypeOK, DialBudget, NEW c \in Getters, Get(c)
    PROVE  TypeOK'
  <1> USE ProcessAssumption, NoResponseType DEF Clients, Agents, agentVars, wireVars
  <1>1. CASE RunStandalone(c)
    BY <1>1 DEF RunStandalone, TypeOK
  <1>2. CASE LaunchAgent(c)
    BY <1>2 DEF LaunchAgent, TypeOK, Stages
  <1>3. CASE LaunchFails(c)
    BY <1>3 DEF LaunchFails, TypeOK
  <1>4. CASE DialAgent(c)
    BY <1>4 DEF DialAgent, Connect, Reachable, TypeOK
  <1>5. CASE DialFails(c)
    <2>1. dials[c] + 1 \in 0..MaxDials
      BY <1>5 DEF DialFails, DialBudget, TypeOK
    <2> QED
      BY <1>5, <2>1 DEF DialFails, TypeOK
  <1>6. CASE RequestFails(c)
    BY <1>6 DEF RequestFails, TypeOK
  <1>7. CASE SendRetrieve(c)
    BY <1>7 DEF SendRetrieve, Send, TypeOK, Requests
  <1>8. CASE SkipRetrieve(c)
    BY <1>8 DEF SkipRetrieve, TypeOK
  <1>9. CASE Hit(c)
    BY <1>9 DEF Hit, Consume, TypeOK, Responses
  <1>10. CASE PrintFails(c)
    BY <1>10 DEF PrintFails, Consume, TypeOK
  <1>11. CASE Miss(c)
    BY <1>11 DEF Miss, Consume, TypeOK
  <1>12. CASE Resolve(c)
    BY <1>12 DEF Resolve, TypeOK
  <1>13. CASE ResolveFails(c)
    BY <1>13 DEF ResolveFails, TypeOK
  <1>14. CASE SendStore(c)
    BY <1>14 DEF SendStore, Send, TypeOK, Requests
  <1>15. CASE SkipStore(c)
    BY <1>15 DEF SkipStore, TypeOK
  <1>16. CASE Stored(c)
    BY <1>16 DEF Stored, Consume, TypeOK
  <1>17. CASE StoreFails(c)
    BY <1>17 DEF StoreFails, TypeOK
  <1> QED
    BY <1>1, <1>2, <1>3, <1>4, <1>5, <1>6, <1>7, <1>8, <1>9, <1>10, <1>11, <1>12, <1>13,
       <1>14, <1>15, <1>16, <1>17 DEF Get

\* The steps of an `agent-shutdown` process keep the types.
LEMMA CommandType ==
    ASSUME TypeOK, NEW c \in Shutdowners, Command(c)
    PROVE  TypeOK'
  <1> USE NoResponseType DEF Clients, Agents, agentVars, wireVars
  <1>1. CASE CommandShutdown(c)
    <2>1. CASE Reachable
      <3>1. /\ server' = [server EXCEPT ![c] = socket]
            /\ link' = [link EXCEPT ![c] = "queued"]
            /\ inbox' = [inbox EXCEPT ![c] = "shutdown"]
            /\ pc' = [pc EXCEPT ![c] = "commanding"]
        BY <1>1, <2>1 DEF CommandShutdown, Connect
      <3> QED
        BY <1>1, <2>1, <3>1 DEF CommandShutdown, Reachable, TypeOK, Requests
    <2>2. CASE ~Reachable
      BY <1>1, <2>2 DEF CommandShutdown, TypeOK
    <2> QED
      BY <2>1, <2>2
  <1>2. CASE CommandAnswered(c)
    BY <1>2 DEF CommandAnswered, Consume, TypeOK
  <1> QED
    BY <1>1, <1>2 DEF Command

\* The steps of an agent keep the types.
LEMMA AgentType ==
    ASSUME TypeOK, Wire, NEW a \in Agents,
           \/ Startup(a) \/ Serve(a) \/ AcceptFails(a) \/ IdleShutdown(a) \/ Crash(a)
           \/ \E c \in Clients : Handler(a, c)
           \/ \E k \in Keys : Evict(a, k)
    PROVE  TypeOK'
  <1> USE ProcessAssumption DEF clientVars, wireVars, agentVars, Stages
  <1>1. CASE Startup(a)
    BY <1>1, FaultType DEF Startup, AcquireLock, RemoveSocket, Listen, StartupFails, TypeOK
  <1>2. CASE \E c \in Clients : Accept(a, c) \/ HandOver(a, c)
    BY <1>2 DEF Accept, HandOver, TypeOK
  <1>3. CASE LeaveSelect(a) \/ IdleShutdown(a)
    BY <1>3 DEF LeaveSelect, IdleShutdown, TypeOK
  <1>9. CASE Exit(a)
    BY <1>9, EmptyCacheType DEF Exit, Ends, TypeOK
  <1>10. CASE AcceptFails(a)
    BY <1>10, FaultType DEF AcceptFails, TypeOK
  <1>4. CASE CloseListener(a)
    BY <1>4 DEF CloseListener, Hangup, Requests, TypeOK
  <1>5. CASE Crash(a)
    BY <1>5, EmptyCacheType, FaultType DEF Crash, Ends, Hangup, Requests, TypeOK
  <1>6. ASSUME NEW c \in Clients, HandleRequest(a, c)
        PROVE  TypeOK'
    <2>1. ASSUME NEW status \in {"ok", "cache-miss"}, NEW credential \in Getters \cup {Nobody},
                 Answer(c, status, credential)
          PROVE  inbox' \in [Clients -> Requests] /\ outbox' \in [Clients -> Responses]
      BY <2>1 DEF Answer, TypeOK, Requests, Responses
    <2>2. CASE HandleRetrieve(a, c)
      <3>1. cache[a][key[c]] \in Getters \cup {Nobody}
        BY <2>2 DEF HandleRetrieve, Wire, WireOf, TypeOK
      <3> QED
        BY <1>6, <2>1, <2>2, <3>1 DEF HandleRequest, HandleRetrieve, TypeOK
    <2>3. CASE HandleStore(a, c)
      <3>1. cache' \in [Agents -> [Keys -> Getters \cup {Nobody}]]
        BY <2>3 DEF HandleStore, Wire, WireOf, TypeOK
      <3> QED
        BY <1>6, <2>1, <2>3, <3>1 DEF HandleRequest, HandleStore, TypeOK
    <2>4. CASE HandleShutdown(a, c)
      BY <1>6, <2>1, <2>4 DEF HandleRequest, HandleShutdown, TypeOK
    <2> QED
      BY <1>6, <2>2, <2>3, <2>4 DEF HandleRequest
  <1>7. CASE \E c \in Clients : HandlerReturns(a, c)
    BY <1>7 DEF HandlerReturns, Hangup, Requests, TypeOK
  <1>8. CASE \E k \in Keys : Evict(a, k)
    BY <1>8 DEF Evict, TypeOK
  <1> QED
    BY <1>1, <1>2, <1>3, <1>4, <1>5, <1>6, <1>7, <1>8, <1>9, <1>10 DEF Serve, Handler

\* Every step keeps the types.
LEMMA TypeStep ==
    ASSUME TypeOK, DialBudget, Wire, [Next]_vars
    PROVE  TypeOK'
  <1>1. CASE UNCHANGED vars
    BY <1>1 DEF vars, clientVars, wireVars, agentVars, TypeOK
  <1> QED
    BY <1>1, GetType, CommandType, AgentType DEF Next

-----------------------------------------------------------------------------
(***************************************************************************)
(* The lock and the socket path.                                           *)
(***************************************************************************)

\* No step takes the lock or the socket path from the agent that owns it.
LEMMA OwnershipStep ==
    ASSUME TypeOK, Ownership, [Next]_vars
    PROVE  Ownership'
  <1> USE ProcessAssumption DEF Ownership, Locking, Listening, TypeOK, Agents, Clients
  <1>1. CASE UNCHANGED <<agent, lock, socket>>
    BY <1>1
  <1>2. ASSUME NEW c \in Getters, LaunchAgent(c)
        PROVE  Ownership'
    BY <1>2 DEF LaunchAgent
  <1>3. ASSUME NEW a \in Agents, AcquireLock(a)
        PROVE  Ownership'
    BY <1>3 DEF AcquireLock
  <1>4. ASSUME NEW a \in Agents, RemoveSocket(a)
        PROVE  Ownership'
    BY <1>4 DEF RemoveSocket
  <1>5. ASSUME NEW a \in Agents, Listen(a)
        PROVE  Ownership'
    BY <1>5 DEF Listen
  <1>10. ASSUME NEW a \in Agents, StartupFails(a)
         PROVE  Ownership'
    BY <1>10 DEF StartupFails
  <1>6. ASSUME NEW a \in Agents, LeaveSelect(a) \/ IdleShutdown(a)
        PROVE  Ownership'
    BY <1>6 DEF LeaveSelect, IdleShutdown
  <1>7. ASSUME NEW a \in Agents, CloseListener(a)
        PROVE  Ownership'
    BY <1>7 DEF CloseListener
  <1>8. ASSUME NEW a \in Agents, Exit(a) \/ Crash(a)
        PROVE  Ownership'
    BY <1>8 DEF Exit, Ends, Crash, Alive
  <1>9. ASSUME NEW a \in Agents, NEW c \in Clients, HandleRequest(a, c)
        PROVE  Ownership'
    BY <1>9 DEF HandleRequest, HandleRetrieve, HandleStore, HandleShutdown
  <1> QED
    BY <1>1, <1>2, <1>3, <1>4, <1>5, <1>6, <1>7, <1>8, <1>9, <1>10
       DEF Next, vars, agentVars, Get, RunStandalone, LaunchFails, DialAgent, DialFails,
           SendRetrieve, SkipRetrieve, Hit, PrintFails, Miss, Resolve, RequestFails,
           ResolveFails, SendStore, SkipStore, Stored, StoreFails, Command,
           CommandShutdown, CommandAnswered, Startup, Serve, Accept, AcceptFails, HandOver,
           Handler, HandlerReturns, Evict

-----------------------------------------------------------------------------
(***************************************************************************)
(* The wire.                                                               *)
(***************************************************************************)

\* No step makes a client dial beyond its attempts.
LEMMA DialBudgetStep ==
    ASSUME TypeOK, DialBudget, [Next]_vars
    PROVE  DialBudget'
  <1> USE ProcessAssumption DEF DialBudget, TypeOK, Clients
  <1>1. CASE UNCHANGED <<pc, dials>>
    BY <1>1
  <1>2. ASSUME NEW c \in Getters, Get(c)
        PROVE  DialBudget'
    BY <1>2 DEF Get, LaunchAgent, RunStandalone, LaunchFails, DialAgent, DialFails,
                SendRetrieve, SkipRetrieve, Hit, PrintFails, Miss, Resolve, RequestFails,
                ResolveFails, SendStore, SkipStore, Stored, StoreFails
  <1>3. ASSUME NEW c \in Shutdowners, Command(c)
        PROVE  DialBudget'
    BY <1>3 DEF Command, CommandShutdown, CommandAnswered
  <1> QED
    BY <1>1, <1>2, <1>3
       DEF Next, vars, clientVars, Startup, AcquireLock, RemoveSocket, Listen,
           StartupFails, Serve, Accept, AcceptFails, HandOver, LeaveSelect, CloseListener,
           Exit, IdleShutdown, Crash, Handler, HandleRequest, HandlerReturns, Evict

\* No step leaves a message on the wire that does not fit the client's step.
LEMMA WireStep ==
    ASSUME TypeOK, Wire, [Next]_vars
    PROVE  Wire'
  <1> SUFFICES ASSUME NEW c \in Clients
               PROVE  WireOf(c)'
    BY DEF Wire
  <1>0. WireOf(c)
    BY DEF Wire
  <1> USE ProcessAssumption DEF WireOf, TypeOK, Clients
  <1>1. CASE /\ UNCHANGED <<key, pc[c], outbox[c]>>
             /\ \/ inbox'[c] = inbox[c] /\ (link'[c] = "closed" => link[c] = "closed")
                \/ inbox'[c] = "none"
    BY <1>0, <1>1
  <1>2. CASE Get(c) /\ c \in Getters
    <2>1. CASE RunStandalone(c) \/ LaunchAgent(c) \/ LaunchFails(c) \/ DialFails(c)
                \/ RequestFails(c) \/ SkipRetrieve(c) \/ Resolve(c) \/ ResolveFails(c)
                \/ SkipStore(c) \/ StoreFails(c)
      BY <1>0, <1>2, <2>1 DEF RunStandalone, LaunchAgent, LaunchFails, DialFails,
                              SkipRetrieve, Resolve, RequestFails, ResolveFails, SkipStore,
                              StoreFails, wireVars
    <2>2. CASE DialAgent(c)
      BY <1>0, <1>2, <2>2 DEF DialAgent, Connect
    <2>3. CASE SendRetrieve(c) \/ SendStore(c)
      BY <1>0, <1>2, <2>3 DEF SendRetrieve, SendStore, Send, MayStore
    <2>4. CASE Hit(c) \/ PrintFails(c) \/ Miss(c) \/ Stored(c)
      BY <1>0, <1>2, <2>4 DEF Hit, PrintFails, Miss, Stored, Consume, NoResponse
    <2> QED
      BY <1>2, <2>1, <2>2, <2>3, <2>4 DEF Get
  <1>3. CASE Command(c) /\ c \in Shutdowners
    <2>1. CASE CommandShutdown(c)
      BY <1>0, <1>3, <2>1 DEF CommandShutdown, Connect
    <2>2. CASE CommandAnswered(c)
      BY <1>0, <1>3, <2>2 DEF CommandAnswered, Consume, NoResponse
    <2> QED
      BY <1>3, <2>1, <2>2 DEF Command
  <1>4. ASSUME NEW a \in Agents, HandleRequest(a, c)
        PROVE  WireOf(c)'
    BY <1>0, <1>4 DEF HandleRequest, HandleRetrieve, HandleStore, HandleShutdown, Answer,
                      clientVars
  <1>5. ASSUME NEW d \in Getters, d # c, Get(d)
        PROVE  WireOf(c)'
    <2>1. UNCHANGED <<key, pc[c], inbox[c], outbox[c], link[c]>>
      BY <1>5 DEF Get, RunStandalone, LaunchAgent, LaunchFails, DialAgent, Connect,
                  DialFails, SendRetrieve, SkipRetrieve, Send, Consume, Hit, PrintFails,
                  Miss, Resolve, RequestFails, ResolveFails, SendStore, SkipStore, Stored,
                  StoreFails, wireVars
    <2> QED
      BY <1>1, <2>1
  <1>6. ASSUME NEW d \in Shutdowners, d # c, Command(d)
        PROVE  WireOf(c)'
    <2>1. UNCHANGED <<key, pc[c], inbox[c], outbox[c], link[c]>>
      BY <1>6 DEF Command, CommandShutdown, CommandAnswered, Connect, Consume, wireVars
    <2> QED
      BY <1>1, <2>1
  <1>7. ASSUME NEW a \in Agents,
               \/ Startup(a) \/ Serve(a) \/ AcceptFails(a) \/ IdleShutdown(a) \/ Crash(a)
               \/ \E d \in Clients : HandlerReturns(a, d)
               \/ \E d \in Clients : d # c /\ HandleRequest(a, d)
               \/ \E k \in Keys : Evict(a, k)
        PROVE  WireOf(c)'
    <2>1. /\ UNCHANGED <<key, pc[c], outbox[c]>>
          /\ \/ inbox'[c] = inbox[c] /\ (link'[c] = "closed" => link[c] = "closed")
             \/ inbox'[c] = "none"
      BY <1>7 DEF Startup, AcquireLock, RemoveSocket, Listen, StartupFails, Serve, Accept,
                  AcceptFails, HandOver, LeaveSelect, CloseListener, Exit, IdleShutdown,
                  Crash, HandlerReturns, HandleRequest, HandleRetrieve, HandleStore,
                  HandleShutdown, Answer, Evict, Hangup, clientVars, wireVars
    <2> QED
      BY <1>1, <2>1
  <1>8. CASE UNCHANGED vars
    BY <1>1, <1>8 DEF vars, clientVars, wireVars
  <1> QED
    BY <1>2, <1>3, <1>4, <1>5, <1>6, <1>7, <1>8 DEF Next, Handler

-----------------------------------------------------------------------------
(***************************************************************************)
(* Credentials.                                                            *)
(***************************************************************************)

\* A credential that was issued for a key stays issued for it.
LEMMA IssuedStays ==
    ASSUME TypeOK, TypeOK', NEW k, NEW d, IssuedFor(d, k), key' = key,
           \/ printed' = printed
           \/ \E c \in Getters, e \in Getters :
                printed[c] = Nobody /\ printed' = [printed EXCEPT ![c] = e]
    PROVE  IssuedFor(d, k)'
  BY ProcessAssumption DEF IssuedFor, TypeOK, Clients

\* What a step does to what was printed: nothing, or a client that had printed
\* nothing prints what it resolved, or a hit.
LEMMA PrintedStep ==
    ASSUME TypeOK, Wire, Credentials, [Next]_vars
    PROVE  /\ key' = key
           /\ \/ printed' = printed
              \/ \E c \in Getters : Service!Resolve(c)
              \/ \E c, d \in Getters : Service!Reuse(c, d)
  <1>1. ASSUME NEW c \in Getters, Resolve(c)
        PROVE  Service!Resolve(c)
    BY <1>1 DEF Resolve, Credentials, Service!Resolve
  <1>2. ASSUME NEW c \in Getters, Hit(c)
        PROVE  \E d \in Getters : Service!Reuse(c, d)
    <2>1. IssuedFor(outbox[c].credential, key[c]) /\ printed[c] = Nobody
      BY <1>2 DEF Hit, Credentials
    <2>2. key[c] \in Keys
      BY <1>2 DEF Hit, Wire, WireOf, Clients
    <2>3. Service!Reuse(c, outbox[c].credential)
      BY <1>2, <2>1, <2>2, ProcessAssumption DEF Hit, IssuedFor, Service!Reuse
    <2> QED
      BY <2>1, <2>3 DEF IssuedFor
  <1> QED
    BY <1>1, <1>2
       DEF Next, vars, clientVars, Get, RunStandalone, LaunchAgent, LaunchFails, DialAgent,
           DialFails, SendRetrieve, SkipRetrieve, Hit, PrintFails, Miss, Resolve,
           RequestFails, ResolveFails, SendStore, SkipStore, Stored, StoreFails, Command,
           CommandShutdown, CommandAnswered, Startup, AcquireLock, RemoveSocket, Listen,
           StartupFails, Serve, Accept, AcceptFails, HandOver, LeaveSelect, CloseListener,
           Exit, IdleShutdown, Crash, Handler, HandleRequest, HandlerReturns, Evict

\* No step puts a credential under a key, or in front of a client, that it was
\* not issued for.
LEMMA CredentialsStep ==
    ASSUME TypeOK, TypeOK', Wire, Credentials, [Next]_vars
    PROVE  Credentials'
  <1> USE ProcessAssumption DEF Clients
  <1>1. /\ key' = key
        /\ \/ printed' = printed
           \/ \E c \in Getters, e \in Getters :
                printed[c] = Nobody /\ printed' = [printed EXCEPT ![c] = e]
    BY PrintedStep DEF Service!Resolve, Service!Reuse
  <1>2. ASSUME NEW k, NEW d, IssuedFor(d, k)
        PROVE  IssuedFor(d, k)'
    BY <1>1, <1>2, IssuedStays
  <1>3. ASSUME NEW c \in Getters
        PROVE  /\ pc'[c] \in {"launch", "dial", "retrieve", "retrieving", "resolve"}
                    => printed'[c] = Nobody
               /\ pc'[c] \in {"store", "storing"} => printed'[c] = c
    <2>1. /\ pc[c] \in {"launch", "dial", "retrieve", "retrieving", "resolve"}
                => printed[c] = Nobody
          /\ pc[c] \in {"store", "storing"} => printed[c] = c
      BY DEF Credentials
    <2>2. CASE Get(c)
      BY <2>1, <2>2 DEF Get, RunStandalone, LaunchAgent, LaunchFails, DialAgent, DialFails,
                        SendRetrieve, SkipRetrieve, Hit, PrintFails, Miss, Resolve,
                        RequestFails, ResolveFails, SendStore, SkipStore, Stored,
                        StoreFails, TypeOK
    <2>3. ASSUME NEW d \in Getters, d # c, Get(d)
          PROVE  pc'[c] = pc[c] /\ printed'[c] = printed[c]
      BY <2>3 DEF Get, RunStandalone, LaunchAgent, LaunchFails, DialAgent, DialFails,
                  SendRetrieve, SkipRetrieve, Hit, PrintFails, Miss, Resolve, RequestFails,
                  ResolveFails, SendStore, SkipStore, Stored, StoreFails, TypeOK
    <2>4. ASSUME NEW d \in Shutdowners, Command(d)
          PROVE  pc'[c] = pc[c] /\ printed'[c] = printed[c]
      BY <2>4 DEF Command, CommandShutdown, CommandAnswered, TypeOK
    <2>5. CASE UNCHANGED <<pc, printed>>
      BY <2>1, <2>5
    <2> QED
      BY <2>1, <2>2, <2>3, <2>4, <2>5
         DEF Next, vars, clientVars, Startup, AcquireLock, RemoveSocket, Listen,
             StartupFails, Serve, Accept, AcceptFails, HandOver, LeaveSelect,
             CloseListener, Exit, IdleShutdown, Crash, Handler, HandleRequest,
             HandlerReturns, Evict
  <1>4. ASSUME NEW c \in Getters, pc'[c] = "retrieving", outbox'[c].status = "ok"
        PROVE  IssuedFor(outbox'[c].credential, key[c])
    <2>1. CASE outbox'[c] = outbox[c]
      <3>1. pc[c] = "retrieving"
        <4>1. outbox[c].status # "none"
          BY <1>4, <2>1
        <4>2. pc[c] \in {"retrieving", "storing", "commanding"} /\ pc[c] # "commanding"
          BY <4>1 DEF Wire, WireOf
        <4>3. pc[c] # "storing"
          <5>1. CASE pc'[c] = pc[c]
            BY <1>4, <5>1
          <5>2. ASSUME NEW d \in Getters, Get(d)
                PROVE  pc'[c] = pc[c] \/ pc[c] # "storing"
            BY <1>4, <5>2
               DEF Get, RunStandalone, LaunchAgent, LaunchFails, DialAgent, DialFails,
                   SendRetrieve, SkipRetrieve, Hit, PrintFails, Miss, Resolve,
                   RequestFails, ResolveFails, SendStore, SkipStore, Stored, StoreFails,
                   TypeOK
          <5>3. ASSUME NEW d \in Shutdowners, Command(d)
                PROVE  pc'[c] = pc[c]
            BY <5>3 DEF Command, CommandShutdown, CommandAnswered, TypeOK
          <5> QED
            BY <5>1, <5>2, <5>3
               DEF Next, vars, clientVars, Startup, AcquireLock, RemoveSocket, Listen,
                   StartupFails, Serve, Accept, AcceptFails, HandOver, LeaveSelect,
                   CloseListener, Exit, IdleShutdown, Crash, Handler, HandleRequest,
                   HandlerReturns, Evict
        <4> QED
          BY <4>2, <4>3
      <3> QED
        BY <1>4, <2>1, <3>1 DEF Credentials
    <2>2. ASSUME NEW a \in Agents, HandleRequest(a, c)
          PROVE  IssuedFor(outbox'[c].credential, key[c])
      <3>1. CASE HandleRetrieve(a, c)
        <4>1. key[c] \in Keys
          BY <3>1 DEF HandleRetrieve, Wire, WireOf
        <4>2. /\ outbox'[c].credential = cache[a][key[c]]
              /\ cache[a][key[c]] # Nobody
          BY <1>4, <3>1 DEF HandleRetrieve, Answer, TypeOK
        <4> QED
          BY <4>1, <4>2 DEF Credentials
      <3>2. CASE HandleStore(a, c) \/ HandleShutdown(a, c)
        <4>1. pc[c] # "retrieving"
          BY <2>2, <3>2 DEF HandleRequest, HandleStore, HandleShutdown, Wire, WireOf
        <4> QED
          BY <1>4, <2>2, <4>1 DEF HandleRequest, clientVars
      <3> QED
        BY <2>2, <3>1, <3>2 DEF HandleRequest
    <2>3. CASE Get(c)
      BY <1>4, <2>1, <2>3
         DEF Get, RunStandalone, LaunchAgent, LaunchFails, DialAgent, DialFails,
             SendRetrieve, SkipRetrieve, Hit, PrintFails, Miss, Resolve, RequestFails,
             ResolveFails, SendStore, SkipStore, Stored, StoreFails, wireVars, TypeOK
    <2>4. ASSUME NEW d \in Getters, d # c, Get(d)
          PROVE  outbox'[c] = outbox[c]
      BY <2>4 DEF Get, RunStandalone, LaunchAgent, LaunchFails, DialAgent, DialFails,
                  SendRetrieve, SkipRetrieve, Hit, PrintFails, Miss, Resolve, RequestFails,
                  ResolveFails, SendStore, SkipStore, Stored, StoreFails, Consume,
                  wireVars, TypeOK
    <2>5. ASSUME NEW d \in Shutdowners, Command(d)
          PROVE  outbox'[c] = outbox[c]
      BY <2>5 DEF Command, CommandShutdown, CommandAnswered, Consume, TypeOK
    <2>6. ASSUME NEW a \in Agents, NEW d \in Clients, d # c, HandleRequest(a, d)
          PROVE  outbox'[c] = outbox[c]
      BY <2>6 DEF HandleRequest, HandleRetrieve, HandleStore, HandleShutdown, Answer,
                  TypeOK
    <2> QED
      BY <2>1, <2>2, <2>3, <2>4, <2>5, <2>6
         DEF Next, vars, wireVars, Startup, AcquireLock, RemoveSocket, Listen,
             StartupFails, Serve, Accept, AcceptFails, HandOver, LeaveSelect,
             CloseListener, Exit, IdleShutdown, Crash, Handler, HandlerReturns, Evict
  <1>5. ASSUME NEW a \in Agents, NEW k \in Keys, cache'[a][k] # Nobody
        PROVE  IssuedFor(cache'[a][k], k)
    <2>1. CASE cache'[a][k] = cache[a][k]
      BY <1>5, <2>1 DEF Credentials
    <2>2. ASSUME NEW b \in Agents, NEW c \in Clients, HandleRequest(b, c), HandleStore(b, c)
          PROVE  IssuedFor(cache'[a][k], k)
      <3>1. c \in Getters /\ key[c] \in Keys /\ printed[c] = c
        BY <2>2 DEF HandleRequest, HandleStore, Wire, WireOf, Credentials
      <3>2. cache'[a][k] = cache[a][k] \/ (k = key[c] /\ cache'[a][k] = c)
        BY <2>2, <3>1 DEF HandleStore, TypeOK
      <3> QED
        BY <2>1, <3>1, <3>2 DEF IssuedFor
    <2>3. ASSUME NEW b \in Agents, NEW j \in Keys, Evict(b, j)
          PROVE  IssuedFor(cache'[a][k], k)
      <3>1. cache'[a][k] = cache[a][k]
        BY <1>5, <2>3 DEF Evict, TypeOK
      <3> QED
        BY <2>1, <3>1
    <2>4. ASSUME NEW b \in Agents, Exit(b) \/ Crash(b)
          PROVE  IssuedFor(cache'[a][k], k)
      <3>1. cache'[a][k] = cache[a][k]
        <4>1. /\ cache' = [cache EXCEPT ![b] = EmptyCache]
              /\ cache \in [Agents -> [Keys -> Getters \cup {Nobody}]]
          BY <2>4 DEF Exit, Crash, Ends, TypeOK
        <4>2. EmptyCache[k] = Nobody
          BY DEF EmptyCache
        <4> QED
          BY <1>5, <4>1, <4>2
      <3> QED
        BY <2>1, <3>1
    <2> QED
      BY <2>1, <2>2, <2>3, <2>4
         DEF Next, vars, agentVars, Get, RunStandalone, LaunchAgent, LaunchFails,
             DialAgent, DialFails, SendRetrieve, SkipRetrieve, Hit, PrintFails, Miss,
             Resolve, RequestFails, ResolveFails, SendStore, SkipStore, Stored, StoreFails,
             Command, CommandShutdown, CommandAnswered, Startup, AcquireLock, RemoveSocket,
             Listen, StartupFails, Serve, Accept, AcceptFails, HandOver, LeaveSelect,
             CloseListener, Exit, IdleShutdown, Crash, Handler, HandleRequest,
             HandleRetrieve, HandleShutdown, HandlerReturns
  <1>6. \A d, k : IssuedFor(d, k) => d \in Getters /\ printed'[d] = d /\ key'[d] = k
    BY <1>2 DEF IssuedFor
  <1>7. ASSUME NEW c \in Getters, pc'[c] = "retrieving", outbox'[c].status = "ok"
        PROVE  /\ outbox'[c].credential \in Getters
               /\ printed'[outbox'[c].credential] = outbox'[c].credential
               /\ key'[outbox'[c].credential] = key'[c]
    BY <1>1, <1>4, <1>6, <1>7
  <1>8. ASSUME NEW a \in Agents, NEW k \in Keys, cache'[a][k] # Nobody
        PROVE  /\ cache'[a][k] \in Getters
               /\ printed'[cache'[a][k]] = cache'[a][k]
               /\ key'[cache'[a][k]] = k
    BY <1>5, <1>6, <1>8
  <1> QED
    BY <1>3, <1>7, <1>8 DEF Credentials, IssuedFor

-----------------------------------------------------------------------------
(***************************************************************************)
(* The theorems.                                                           *)
(***************************************************************************)

\* The initial states satisfy the invariant.
LEMMA InvInit == Init => IInv
  <1> SUFFICES ASSUME Init
               PROVE  IInv
    OBVIOUS
  <1> USE ProcessAssumption DEF Init, Clients, Agents
  <1>1. TypeOK
    BY TypeInit
  <1>2. DialBudget
    BY DEF DialBudget
  <1>3. Wire
    BY DEF Wire, WireOf, NoResponse
  <1>4. Credentials
    BY DEF Credentials, NoResponse, EmptyCache
  <1>5. Ownership
    BY DEF Ownership, Locking, Listening
  <1> QED
    BY <1>1, <1>2, <1>3, <1>4, <1>5 DEF IInv

\* The invariant holds in every reachable state: it is true at the start, and
\* each of its parts survives every step, given the parts before it.
THEOREM Invariance == Spec => []IInv
  <1>1. ASSUME IInv, [Next]_vars
        PROVE  IInv'
    <2>1. TypeOK /\ DialBudget /\ Wire /\ Credentials /\ Ownership
      BY <1>1 DEF IInv
    <2>2. TypeOK'
      BY <1>1, <2>1, TypeStep
    <2>3. DialBudget' /\ Wire' /\ Ownership'
      BY <1>1, <2>1, DialBudgetStep, WireStep, OwnershipStep
    <2>4. Credentials'
      BY <1>1, <2>1, <2>2, CredentialsStep
    <2> QED
      BY <2>2, <2>3, <2>4 DEF IInv
  <1> QED
    BY <1>1, InvInit, PTL DEF Spec

\* The variables keep their types in every reachable state.
THEOREM TypeCorrect == Spec => []TypeOK
  <1>1. IInv => TypeOK
    BY DEF IInv
  <1> QED
    BY <1>1, Invariance, PTL

\* The lock file admits one agent, however many are launched, shut down or
\* killed: flock in lockfile.New and the unlock in cleanup.
THEOREM MutualExclusion == Spec => []OneAgent
  <1>1. IInv => OneAgent
    BY DEF IInv, Ownership, OneAgent
  <1> QED
    BY <1>1, Invariance, PTL

\* An open listener owns the socket path: NewCachingAgent removes the path only
\* under the lock, and lis.Close unlinks it before the lock is freed.
THEOREM Reachability == Spec => []ListenerReachable
  <1>1. IInv => ListenerReachable
    BY DEF IInv, Ownership, ListenerReachable
  <1> QED
    BY <1>1, Invariance, PTL

\* The processes implement the abstract service: each step is a step of
\* GetService or leaves what was asked and printed alone.
THEOREM Refinement == Spec => ServiceSpec
  <1>1. Init => Service!Init
    BY DEF Init, Service!Init
  <1>2. IInv /\ [Next]_vars => [Service!Next]_<<key, printed>>
    BY PrintedStep DEF IInv, Service!Next
  <1> QED
    BY <1>1, <1>2, Invariance, PTL DEF Spec, ServiceSpec, Service!Spec, Service!vars

-----------------------------------------------------------------------------
(***************************************************************************)
(* The launch race.  As long as no agent that had the lock goes away, one   *)
(* that was refused the lock knows that its holder is still there.         *)
(***************************************************************************)
Race ==
    /\ lock # Nobody => Locking(lock)
    /\ \A a \in Agents : agent[a] = "refused" => lock # Nobody
    /\ \A c \in Getters : pc[c] = "dial" => agent[c] # "unborn"

\* A client that has yet to launch its agent has none.
Launching == \A c \in Getters : pc[c] = "launch" => agent[c] = "unborn"

\* The client's steps: only LaunchAgent touches an agent.
LEMMA GetStep ==
    ASSUME TypeOK, NEW c \in Getters, Get(c), ~LaunchAgent(c)
    PROVE  /\ UNCHANGED <<agent, lock>>
           /\ \A d \in Getters : pc'[d] \in {"launch", "dial"} => pc'[d] = pc[d]
  BY DEF Get, RunStandalone, LaunchFails, DialAgent, DialFails, SendRetrieve, SkipRetrieve,
         Hit, PrintFails, Miss, Resolve, RequestFails, ResolveFails, SendStore, SkipStore,
         Stored, StoreFails, agentVars, TypeOK, Clients

\* The other steps: an agent is never unborn again, and one that has been shut
\* down or killed, or gave up with the lock, does not come back.
LEMMA AgentStep ==
    ASSUME TypeOK, [Next]_vars, \A c \in Getters : ~Get(c)
    PROVE  /\ \A c \in Getters : pc'[c] = pc[c]
           /\ \A a \in Agents : agent'[a] = agent[a] \/ agent[a] # "unborn"
           /\ HolderStays' => HolderStays
  <1> USE ProcessAssumption DEF TypeOK, Agents, Clients, HolderStays
  <1>1. CASE UNCHANGED vars
    BY <1>1 DEF vars, clientVars, agentVars
  <1>2. ASSUME NEW c \in Shutdowners, Command(c)
        PROVE  UNCHANGED agent /\ \A d \in Getters : pc'[d] = pc[d]
    BY <1>2 DEF Command, CommandShutdown, CommandAnswered, agentVars
  <1>3. ASSUME NEW a \in Agents,
               \/ Startup(a) \/ Serve(a) \/ AcceptFails(a) \/ IdleShutdown(a) \/ Crash(a)
               \/ \E c \in Clients : Handler(a, c)
               \/ \E k \in Keys : Evict(a, k)
        PROVE  /\ UNCHANGED pc
               /\ UNCHANGED agent \/ agent[a] # "unborn"
               /\ \A b \in Agents \ {a} : agent'[b] = agent[b]
               /\ agent[a] \in {"stopping", "closing", "draining", "exited"} =>
                    agent'[a] \in {"stopping", "closing", "draining", "exited"}
    BY <1>3 DEF Startup, AcquireLock, RemoveSocket, Listen, StartupFails, Serve, Accept,
                AcceptFails, HandOver, LeaveSelect, CloseListener, Exit, Ends,
                IdleShutdown, Crash, Alive, Handler, HandleRequest, HandleRetrieve,
                HandleStore, HandleShutdown, HandlerReturns, Evict, clientVars, agentVars
  <1> QED
    BY <1>1, <1>2, <1>3 DEF Next

\* Until an agent leaves the holder of the lock stays.
LEMMA RaceStep ==
    ASSUME HolderStays', TypeOK, Ownership, Launching, Race, [Next]_vars
    PROVE  Race'
  <1> USE ProcessAssumption DEF Race, Launching, Locking, TypeOK, Agents, Clients, HolderStays
  <1>1. CASE UNCHANGED <<agent, lock, pc>>
    BY <1>1
  <1>2. ASSUME NEW c \in Getters, Get(c)
        PROVE  Race'
    <2>1. CASE LaunchAgent(c)
      BY <2>1 DEF LaunchAgent
    <2>2. CASE ~LaunchAgent(c)
      BY <1>2, <2>2, GetStep
    <2> QED
      BY <2>1, <2>2
  <1>3. ASSUME NEW a \in Agents, AcquireLock(a)
        PROVE  Race'
    <2>1. UNCHANGED pc /\ agent[a] = "started"
      BY <1>3 DEF AcquireLock, clientVars
    <2>2. CASE lock = Nobody
      BY <1>3, <2>1, <2>2 DEF AcquireLock
    <2>3. CASE lock # Nobody
      BY <1>3, <2>1, <2>3 DEF AcquireLock
    <2> QED
      BY <2>2, <2>3
  <1>4. ASSUME NEW a \in Agents, RemoveSocket(a)
        PROVE  Race'
    BY <1>4 DEF RemoveSocket, clientVars
  <1>5. ASSUME NEW a \in Agents, Listen(a)
        PROVE  Race'
    BY <1>5 DEF Listen, Ownership, clientVars
  <1>9. ASSUME NEW a \in Agents, StartupFails(a)
        PROVE  Race'
    BY <1>9 DEF StartupFails, clientVars
  <1>6. ASSUME NEW a \in Agents,
               LeaveSelect(a) \/ CloseListener(a) \/ Exit(a) \/ IdleShutdown(a) \/ Crash(a)
        PROVE  FALSE
    BY <1>6 DEF LeaveSelect, CloseListener, Exit, Ends, IdleShutdown, Crash
  <1>7. ASSUME NEW a \in Agents, NEW c \in Clients, HandleRequest(a, c)
        PROVE  Race'
    BY <1>1, <1>7 DEF HandleRequest, HandleRetrieve, HandleStore, HandleShutdown,
                      clientVars
  <1>8. ASSUME NEW c \in Shutdowners, Command(c)
        PROVE  Race'
    BY <1>8 DEF Command, CommandShutdown, CommandAnswered, agentVars
  <1> QED
    BY <1>1, <1>2, <1>3, <1>4, <1>5, <1>6, <1>7, <1>8, <1>9
       DEF Next, vars, clientVars, agentVars, Startup, Serve, Accept, AcceptFails,
           HandOver, Handler, HandlerReturns, Evict

\* Whether or not agents leave, no agent is there before its client launches
\* it, and an agent that has left stays away.
LEMMA LaunchStep ==
    ASSUME TypeOK, Launching, [Next]_vars
    PROVE  Launching' /\ (HolderStays' => HolderStays)
  <1> USE DEF Launching, HolderStays, TypeOK, Agents, Clients
  <1>1. ASSUME NEW c \in Getters, Get(c)
        PROVE  Launching' /\ (HolderStays' => HolderStays)
    <2>1. CASE LaunchAgent(c)
      BY <2>1 DEF LaunchAgent
    <2>2. CASE ~LaunchAgent(c)
      BY <1>1, <2>2, GetStep
    <2> QED
      BY <2>1, <2>2
  <1>2. CASE \A c \in Getters : ~Get(c)
    BY <1>2, AgentStep
  <1> QED
    BY <1>1, <1>2

\* However many clients launch an agent at the same time, in whatever order
\* their agents try the lock and whichever fail before they do, no client whose
\* own agent did not fail is left dialling without an agent that listens or is
\* about to, as long as no agent that had the lock goes away: the early exit
\* of lockfile.New's losers rests on a holder that is still there.
THEOREM LaunchRace == Spec => []LaunchRaceWon
  <1> DEFINE RInv == Launching /\ (HolderStays => Race)
  <1>1. Init => RInv
    BY ProcessAssumption DEF Init, Launching, Race, Locking, Agents, Clients
  <1>2. IInv /\ RInv /\ [Next]_vars => RInv'
    BY RaceStep, LaunchStep DEF IInv
  <1>3. IInv /\ RInv => LaunchRaceWon
    BY ProcessAssumption
       DEF IInv, TypeOK, Race, LaunchRaceWon, AgentOnTheWay, Locking, Listening, Agents,
           Clients, HolderStays, Stages
  <1> HIDE DEF RInv
  <1> QED
    BY <1>1, <1>2, <1>3, Invariance, PTL DEF Spec

=============================================================================
