---------------------------- MODULE CachingAgent ----------------------------
(***************************************************************************)
(* One agent process at the granularity of its goroutines                  *)
(* (agent/service.go): Serve's select loop and its deferred calls, the     *)
(* accept goroutine, the idle and prune goroutines with their timers, and  *)
(* one handleConn goroutine per connection, with the clients at the other  *)
(* end of the socket.                                                      *)
(*                                                                         *)
(* Time is abstracted: an armed timer fires at some later moment, a timer  *)
(* that is reset to a negative duration has fired at once (Go 1.23 timers: *)
(* a Reset discards a value nobody received).  A duration is abstracted to *)
(* whether it is non-negative.  The cache is the set of keys with an       *)
(* entry; a prune removes the ones that have expired, any of them.         *)
(* Serve's ctx is context.Background() and nobody closes acceptChan, so    *)
(* the two other ways out of the select loop do not exist.                 *)
(***************************************************************************)
EXTENDS Integers, FiniteSets

CONSTANTS
    Conns,            \* the connections clients may open
    Keys,             \* the cache keys
    Requests,         \* the requests clients may send
    Unset,            \* a field that is missing in a JSON object, and its zero value
    Garbage,          \* input that is not JSON
    Null,             \* no message, no connection
    Idler,            \* the idle goroutine, as a caller of handleShutdown
    IdleEnabled,      \* the configured idle timeout is not negative
    PruneEnabled,     \* the configured prune interval is not negative
    MaxRequests,      \* bound: requests per connection
    MaxAcceptErrors   \* bound: transient errors of Accept

Methods == {"retrieve", "store", "prune", "shutdown", "other"}

\* A raw payload: a JSON string, or a cachable response that has an expiry.
Payloads == [kind : {"key", "value"}, key : Keys]

Fields == [method : Methods \cup {Unset}, payload : Payloads \cup {Unset}]

\* An AgentResponse, with the request it was computed from as history.
Responses == [status : {"ok", "cache-miss", "error"}, ran : Fields \cup {Garbage}]

ASSUME ConstantsAssumption ==
    /\ IsFiniteSet(Conns)
    /\ Requests \subseteq Fields \cup {Garbage}
    /\ Idler \notin Conns
    /\ Null \notin Conns
    /\ Unset \notin Methods
    /\ Unset \notin Payloads
    /\ Garbage \notin Fields
    /\ Null \notin Fields
    /\ Null # Garbage
    /\ Null \notin Responses
    /\ IdleEnabled \in BOOLEAN
    /\ PruneEnabled \in BOOLEAN
    /\ MaxRequests \in Nat
    /\ MaxAcceptErrors \in Nat

VARIABLES
    main,             \* Serve: "select", its defers "close" and "wait", "exited"
    accepter,         \* acceptLoop: "accept", "send" on acceptChan, "done"
    hand,             \* the connection acceptLoop has accepted, or Null
    acceptErrors,     \* transient Accept errors so far
    listening,        \* lis is open
    shutdownStarted,  \* atomic.Bool
    shutdownChan,     \* "open", "closed", or "panicked" after a second close
    idleTimeout,      \* a.idleTimeout >= 0
    pruneInterval,    \* a.pruneInterval >= 0
    idleTimer,        \* "armed", "fired" (a value can be received) or "spent"
    pruneTimer,
    pruner,           \* where the prune goroutine is
    pruneRead,        \* the interval it read for its Reset
    pc,               \* the idle goroutine and the handleConn goroutines
    idleRead,         \* per connection: the timeout read for the Reset
    req,              \* per connection: handleConn's req, which outlives a request
    resp,             \* per connection: the response to encode next
    cache,            \* the keys with an entry
    conn,             \* per connection: "new", "queued", "held", "open", "closed"
    peer,             \* per connection: the client is "idle", "awaiting" or "gone"
    inbox,            \* per connection: the request on the wire
    outbox,           \* per connection: the response on the wire
    sent,             \* per connection: number of requests sent
    asked             \* per connection: the last request sent

goroutineVars == <<main, accepter, hand, acceptErrors, listening>>
timerVars == <<idleTimeout, pruneInterval, idleTimer, pruneTimer>>
prunerVars == <<pruner, pruneRead>>
shutdownVars == <<shutdownStarted, shutdownChan>>
handlerVars == <<pc, idleRead, req, resp>>
clientVars == <<conn, peer, inbox, outbox, sent, asked>>
vars == <<goroutineVars, timerVars, prunerVars, shutdownVars, handlerVars, clientVars,
          cache>>

Callers == Conns \cup {Idler}

\* The steps of handleShutdown after its compare-and-swap.
ShutdownSteps == {"forceIdle", "forcePrune", "closeChan"}

HandlerSteps == {"none", "decode", "reset", "dispatch", "respond", "done"} \cup ShutdownSteps

IdlerSteps == {"wait", "check", "done"} \cup ShutdownSteps

NoFields == [method |-> Unset, payload |-> Unset]

\* Types of all the variables.
TypeOK ==
    /\ main \in {"select", "close", "wait", "exited"}
    /\ accepter \in {"accept", "send", "done"}
    /\ hand \in Conns \cup {Null}
    /\ (accepter = "send") <=> (hand # Null)
    /\ acceptErrors \in 0..MaxAcceptErrors
    /\ listening \in BOOLEAN
    /\ shutdownStarted \in BOOLEAN
    /\ shutdownChan \in {"open", "closed", "panicked"}
    /\ idleTimeout \in BOOLEAN
    /\ pruneInterval \in BOOLEAN
    /\ idleTimer \in {"armed", "fired", "spent"}
    /\ pruneTimer \in {"armed", "fired", "spent"}
    /\ pruner \in {"loop", "wait", "prune", "rearm", "reset", "done"}
    /\ pruneRead \in BOOLEAN
    /\ pc \in [Callers -> HandlerSteps \cup IdlerSteps]
    /\ pc[Idler] \in IdlerSteps
    /\ \A c \in Conns : pc[c] \in HandlerSteps
    /\ idleRead \in [Conns -> BOOLEAN]
    /\ req \in [Conns -> Fields]
    /\ resp \in [Conns -> Responses \cup {Null}]
    /\ cache \in SUBSET Keys
    /\ conn \in [Conns -> {"new", "queued", "held", "open", "closed"}]
    /\ peer \in [Conns -> {"idle", "awaiting", "gone"}]
    /\ inbox \in [Conns -> Requests \cup {Null}]
    /\ outbox \in [Conns -> Responses \cup {Null}]
    /\ sent \in [Conns -> 0..MaxRequests]
    /\ asked \in [Conns -> Requests \cup {Null}]

\* timer.Reset(d): a negative duration fires at once.
Armed(nonNegative) == IF nonNegative THEN "armed" ELSE "fired"

\* NewCachingAgent has returned and Serve has started its goroutines.
Init ==
    /\ main = "select"
    /\ accepter = "accept"
    /\ hand = Null
    /\ acceptErrors = 0
    /\ listening = TRUE
    /\ shutdownStarted = FALSE
    /\ shutdownChan = "open"
    /\ idleTimeout = IdleEnabled
    /\ pruneInterval = PruneEnabled
    /\ idleTimer = Armed(IdleEnabled)
    /\ pruneTimer = "fired"
    /\ pruner = "loop"
    /\ pruneRead = PruneEnabled
    /\ pc = [p \in Callers |-> IF p = Idler THEN "wait" ELSE "none"]
    /\ idleRead = [c \in Conns |-> IdleEnabled]
    /\ req = [c \in Conns |-> NoFields]
    /\ resp = [c \in Conns |-> Null]
    /\ cache = {}
    /\ conn = [c \in Conns |-> "new"]
    /\ peer = [c \in Conns |-> "idle"]
    /\ inbox = [c \in Conns |-> Null]
    /\ outbox = [c \in Conns |-> Null]
    /\ sent = [c \in Conns |-> 0]
    /\ asked = [c \in Conns |-> Null]

-----------------------------------------------------------------------------
(***************************************************************************)
(* Clients (cache/socketcache.go, agent/client.go): one request at a time. *)
(***************************************************************************)

\* net.Dial succeeds as soon as the kernel has queued the connection.
Dial(c) ==
    /\ conn[c] = "new"
    /\ listening
    /\ conn' = [conn EXCEPT ![c] = "queued"]
    /\ UNCHANGED <<goroutineVars, timerVars, prunerVars, shutdownVars, handlerVars, cache,
                   peer, inbox, outbox, sent, asked>>

SendRequest(c, request) ==
    /\ conn[c] \in {"queued", "held", "open"}
    /\ peer[c] = "idle"
    /\ sent[c] < MaxRequests
    /\ peer' = [peer EXCEPT ![c] = "awaiting"]
    /\ inbox' = [inbox EXCEPT ![c] = request]
    /\ sent' = [sent EXCEPT ![c] = @ + 1]
    /\ asked' = [asked EXCEPT ![c] = request]
    /\ outbox' = [outbox EXCEPT ![c] = Null]
    /\ UNCHANGED <<goroutineVars, timerVars, prunerVars, shutdownVars, handlerVars, cache,
                   conn>>

\* The response stays in outbox as history until the next request.
ReceiveResponse(c) ==
    /\ peer[c] = "awaiting"
    /\ outbox[c] # Null
    /\ peer' = [peer EXCEPT ![c] = "idle"]
    /\ UNCHANGED <<goroutineVars, timerVars, prunerVars, shutdownVars, handlerVars, cache,
                   conn, inbox, outbox, sent, asked>>

\* The peer closed the connection without answering: Decode fails.
ReceiveEOF(c) ==
    /\ peer[c] = "awaiting"
    /\ conn[c] = "closed"
    /\ outbox[c] = Null
    /\ peer' = [peer EXCEPT ![c] = "gone"]
    /\ UNCHANGED <<goroutineVars, timerVars, prunerVars, shutdownVars, handlerVars, cache,
                   conn, inbox, outbox, sent, asked>>

\* The client closes the connection, or is killed while it waits.
Hangup(c) ==
    /\ conn[c] # "new"
    /\ peer[c] # "gone"
    /\ peer' = [peer EXCEPT ![c] = "gone"]
    /\ UNCHANGED <<goroutineVars, timerVars, prunerVars, shutdownVars, handlerVars, cache,
                   conn, inbox, outbox, sent, asked>>

-----------------------------------------------------------------------------
(***************************************************************************)
(* acceptLoop                                                              *)
(***************************************************************************)
Accept(c) ==
    /\ accepter = "accept"
    /\ listening
    /\ conn[c] = "queued"
    /\ accepter' = "send"
    /\ hand' = c
    /\ conn' = [conn EXCEPT ![c] = "held"]
    /\ UNCHANGED <<main, acceptErrors, listening, timerVars, prunerVars, shutdownVars,
                   handlerVars, cache, peer, inbox, outbox, sent, asked>>

AcceptSendsNil ==
    /\ accepter = "accept"
    /\ ~listening
    /\ accepter' = "send"
    /\ UNCHANGED <<main, hand, acceptErrors, listening, timerVars, prunerVars, shutdownVars,
                   handlerVars, clientVars, cache>>

\* Accept fails because the listener is closed, or for a transient reason
\* (no file descriptors left); either way the loop returns the error.
AcceptFails ==
    /\ accepter = "accept"
    /\ \/ ~listening /\ UNCHANGED acceptErrors
       \/ /\ listening
          /\ acceptErrors < MaxAcceptErrors
          /\ acceptErrors' = acceptErrors + 1
    /\ accepter' = "done"
    /\ UNCHANGED <<main, hand, listening, timerVars, prunerVars, shutdownVars, handlerVars,
                   clientVars, cache>>

(***************************************************************************)
(* Serve                                                                   *)
(***************************************************************************)

\* case conn := <-acceptChan: start a handler.
HandOver ==
    /\ main = "select"
    /\ accepter = "send"
    /\ accepter' = "accept"
    /\ hand' = Null
    /\ conn' = [conn EXCEPT ![hand] = "open"]
    /\ pc' = [pc EXCEPT ![hand] = "decode"]
    /\ UNCHANGED <<main, acceptErrors, listening, timerVars, prunerVars, shutdownVars,
                   idleRead, req, resp, cache, peer, inbox, outbox, sent, asked>>

\* case <-a.shutdownChan: return.
LeaveSelect ==
    /\ main = "select"
    /\ shutdownChan # "open"
    /\ main' = "close"
    /\ UNCHANGED <<accepter, hand, acceptErrors, listening, timerVars, prunerVars,
                   shutdownVars, handlerVars, clientVars, cache>>

CloseListenerForgotten ==
    /\ main = "close"
    /\ main' = "wait"
    /\ UNCHANGED <<accepter, hand, acceptErrors, listening, timerVars, prunerVars,
                   shutdownVars, handlerVars, clientVars, cache>>

\* defer a.lis.Close(): the kernel drops the connections nobody accepted.
CloseListener ==
    /\ main = "close"
    /\ main' = "wait"
    /\ listening' = FALSE
    /\ conn' = [c \in Conns |-> IF conn[c] = "queued" THEN "closed" ELSE conn[c]]
    /\ UNCHANGED <<accepter, hand, acceptErrors, timerVars, prunerVars, shutdownVars,
                   handlerVars, cache, peer, inbox, outbox, sent, asked>>

AllDone ==
    /\ accepter = "done"
    /\ pruner = "done"
    /\ pc[Idler] = "done"
    /\ \A c \in Conns : pc[c] \in {"none", "done"}

ExitUndrained ==
    /\ main = "wait"
    /\ accepter = "done"
    /\ main' = "exited"
    /\ UNCHANGED <<accepter, hand, acceptErrors, listening, timerVars, prunerVars,
                   shutdownVars, handlerVars, clientVars, cache>>

\* defer a.wg.Wait(), then cleanup, which waits again and frees the lock.
Exit ==
    /\ main = "wait"
    /\ AllDone
    /\ main' = "exited"
    /\ UNCHANGED <<accepter, hand, acceptErrors, listening, timerVars, prunerVars,
                   shutdownVars, handlerVars, clientVars, cache>>

-----------------------------------------------------------------------------
(***************************************************************************)
(* handleShutdown, called by a handler or by the idle goroutine.  Whoever  *)
(* wins the compare-and-swap goes through ShutdownSteps; the step after    *)
(* them is "respond" for a handler and "done" for the idle goroutine.      *)
(***************************************************************************)
AfterShutdown(p) == IF p = Idler THEN "done" ELSE "respond"

ShutdownAlways(p) ==
    /\ shutdownStarted' = TRUE
    /\ pc' = [pc EXCEPT ![p] = "forceIdle"]

CompareAndSwap(p) ==
    /\ shutdownStarted' = TRUE
    /\ pc' = [pc EXCEPT ![p] = IF shutdownStarted THEN AfterShutdown(p) ELSE "forceIdle"]

ForceIdle(p) ==
    /\ pc[p] = "forceIdle"
    /\ idleTimeout' = FALSE
    /\ idleTimer' = Armed(FALSE)
    /\ pc' = [pc EXCEPT ![p] = "forcePrune"]
    /\ UNCHANGED <<goroutineVars, pruneInterval, pruneTimer, prunerVars, shutdownVars,
                   idleRead, req, resp, clientVars, cache>>

ForcePruneForgotten(p) ==
    /\ pc[p] = "forcePrune"
    /\ pruneInterval' = FALSE
    /\ pc' = [pc EXCEPT ![p] = "closeChan"]
    /\ UNCHANGED <<goroutineVars, idleTimeout, idleTimer, pruneTimer, prunerVars,
                   shutdownVars, idleRead, req, resp, clientVars, cache>>

ForcePrune(p) ==
    /\ pc[p] = "forcePrune"
    /\ pruneInterval' = FALSE
    /\ pruneTimer' = Armed(FALSE)
    /\ pc' = [pc EXCEPT ![p] = "closeChan"]
    /\ UNCHANGED <<goroutineVars, idleTimeout, idleTimer, prunerVars, shutdownVars,
                   idleRead, req, resp, clientVars, cache>>

\* Closing a closed channel panics.
CloseChan(p) ==
    /\ pc[p] = "closeChan"
    /\ shutdownChan' = IF shutdownChan = "open" THEN "closed" ELSE "panicked"
    /\ pc' = [pc EXCEPT ![p] = AfterShutdown(p)]
    /\ UNCHANGED <<goroutineVars, timerVars, prunerVars, shutdownStarted, idleRead, req,
                   resp, clientVars, cache>>

-----------------------------------------------------------------------------
(***************************************************************************)
(* The idle goroutine.                                                     *)
(***************************************************************************)
IdleTimerFires ==
    /\ idleTimer = "armed"
    /\ idleTimer' = "fired"
    /\ UNCHANGED <<goroutineVars, idleTimeout, pruneInterval, pruneTimer, prunerVars,
                   shutdownVars, handlerVars, clientVars, cache>>

IdleReceive ==
    /\ pc[Idler] = "wait"
    /\ idleTimer = "fired"
    /\ idleTimer' = "spent"
    /\ pc' = [pc EXCEPT ![Idler] = "check"]
    /\ UNCHANGED <<goroutineVars, idleTimeout, pruneInterval, pruneTimer, prunerVars,
                   shutdownVars, idleRead, req, resp, clientVars, cache>>

IdleCheck ==
    /\ pc[Idler] = "check"
    /\ IF idleTimeout /\ ~shutdownStarted
       THEN CompareAndSwap(Idler)
       ELSE /\ pc' = [pc EXCEPT ![Idler] = "done"]
            /\ UNCHANGED shutdownStarted
    /\ UNCHANGED <<goroutineVars, timerVars, prunerVars, shutdownChan, idleRead, req, resp,
                   clientVars, cache>>

(***************************************************************************)
(* The prune goroutine.                                                    *)
(***************************************************************************)
PruneTimerFires ==
    /\ pruneTimer = "armed"
    /\ pruneTimer' = "fired"
    /\ UNCHANGED <<goroutineVars, idleTimeout, pruneInterval, idleTimer, prunerVars,
                   shutdownVars, handlerVars, clientVars, cache>>

PruneLoopForever ==
    /\ pruner = "loop"
    /\ pruner' = "wait"
    /\ UNCHANGED <<pruneRead, goroutineVars, timerVars, shutdownVars, handlerVars,
                   clientVars, cache>>

PruneLoop ==
    /\ pruner = "loop"
    /\ pruner' = IF shutdownStarted THEN "done" ELSE "wait"
    /\ UNCHANGED <<pruneRead, goroutineVars, timerVars, shutdownVars, handlerVars,
                   clientVars, cache>>

PruneReceive ==
    /\ pruner = "wait"
    /\ pruneTimer = "fired"
    /\ pruneTimer' = "spent"
    /\ pruner' = IF pruneInterval /\ ~shutdownStarted THEN "prune" ELSE "rearm"
    /\ UNCHANGED <<pruneRead, goroutineVars, idleTimeout, pruneInterval, idleTimer,
                   shutdownVars, handlerVars, clientVars, cache>>

ScheduledPrune ==
    /\ pruner = "prune"
    /\ cache' \in SUBSET cache
    /\ pruner' = "rearm"
    /\ UNCHANGED <<pruneRead, goroutineVars, timerVars, shutdownVars, handlerVars,
                   clientVars>>

\* a.pruneTimer.Reset(a.pruneInterval): read the interval, then reset.
RearmRead ==
    /\ pruner = "rearm"
    /\ pruneRead' = pruneInterval
    /\ pruner' = "reset"
    /\ UNCHANGED <<goroutineVars, timerVars, shutdownVars, handlerVars, clientVars, cache>>

RearmReset ==
    /\ pruner = "reset"
    /\ pruneTimer' = Armed(pruneRead)
    /\ pruner' = "loop"
    /\ UNCHANGED <<pruneRead, goroutineVars, idleTimeout, pruneInterval, idleTimer,
                   shutdownVars, handlerVars, clientVars, cache>>

-----------------------------------------------------------------------------
(***************************************************************************)
(* handleConn                                                              *)
(***************************************************************************)

\* Decoding into a struct that is used again: a field that is missing in the
\* message keeps the value the previous request left in it.
Given(old, new) == IF new = Unset THEN old ELSE new

DecodeKeepsPayload(old, message) ==
    [method |-> Given(old.method, message.method),
     payload |-> IF old.payload = Unset THEN message.payload ELSE old.payload]

DecodeInto(old, message) ==
    [method |-> Given(old.method, message.method),
     payload |-> Given(old.payload, message.payload)]

\* A request is decoded, and a.idleTimeout read for the Reset that follows.
Decode(c) ==
    /\ pc[c] = "decode"
    /\ inbox[c] \in Fields
    /\ req' = [req EXCEPT ![c] = DecodeInto(req[c], inbox[c])]
    /\ inbox' = [inbox EXCEPT ![c] = Null]
    /\ idleRead' = [idleRead EXCEPT ![c] = idleTimeout]
    /\ pc' = [pc EXCEPT ![c] = "reset"]
    /\ UNCHANGED <<goroutineVars, timerVars, prunerVars, shutdownVars, resp, cache, conn,
                   peer, outbox, sent, asked>>

\* Not JSON: answer with an error and close the connection.
DecodeFails(c) ==
    /\ pc[c] = "decode"
    /\ inbox[c] = Garbage
    /\ outbox' = [outbox EXCEPT ![c] = [status |-> "error", ran |-> Garbage]]
    /\ inbox' = [inbox EXCEPT ![c] = Null]
    /\ conn' = [conn EXCEPT ![c] = "closed"]
    /\ pc' = [pc EXCEPT ![c] = "done"]
    /\ UNCHANGED <<goroutineVars, timerVars, prunerVars, shutdownVars, idleRead, req, resp,
                   cache, peer, sent, asked>>

\* io.EOF: the client is gone and everything it sent has been read.
DecodeEOF(c) ==
    /\ pc[c] = "decode"
    /\ inbox[c] = Null
    /\ peer[c] = "gone"
    /\ conn' = [conn EXCEPT ![c] = "closed"]
    /\ pc' = [pc EXCEPT ![c] = "done"]
    /\ UNCHANGED <<goroutineVars, timerVars, prunerVars, shutdownVars, idleRead, req, resp,
                   cache, peer, inbox, outbox, sent, asked>>

ResetIdleTimer(c) ==
    /\ pc[c] = "reset"
    /\ idleTimer' = Armed(idleRead[c])
    /\ pc' = [pc EXCEPT ![c] = "dispatch"]
    /\ UNCHANGED <<goroutineVars, idleTimeout, pruneInterval, pruneTimer, prunerVars,
                   shutdownVars, idleRead, req, resp, clientVars, cache>>

Answer(c, status) ==
    /\ resp' = [resp EXCEPT ![c] = [status |-> status, ran |-> req[c]]]
    /\ pc' = [pc EXCEPT ![c] = "respond"]

\* The payload unmarshals into what the handler expects.
HasPayload(c, kind) == req[c].payload # Unset /\ req[c].payload.kind = kind

HandleRetrieve(c) ==
    /\ req[c].method = "retrieve"
    /\ Answer(c, IF ~HasPayload(c, "key") THEN "error"
                 ELSE IF req[c].payload.key \in cache THEN "ok" ELSE "cache-miss")
    /\ UNCHANGED <<shutdownStarted, cache>>

HandleStore(c) ==
    /\ req[c].method = "store"
    /\ Answer(c, IF HasPayload(c, "value") THEN "ok" ELSE "error")
    /\ cache' = IF HasPayload(c, "value") THEN cache \cup {req[c].payload.key} ELSE cache
    /\ UNCHANGED shutdownStarted

HandlePrune(c) ==
    /\ req[c].method = "prune"
    /\ Answer(c, "ok")
    /\ cache' \in SUBSET cache
    /\ UNCHANGED shutdownStarted

HandleUnknown(c) ==
    /\ req[c].method \in {"other", Unset}
    /\ Answer(c, "error")
    /\ UNCHANGED <<shutdownStarted, cache>>

\* Winner and loser of the compare-and-swap answer "ok", the winner later.
HandleShutdown(c) ==
    /\ req[c].method = "shutdown"
    /\ CompareAndSwap(c)
    /\ resp' = [resp EXCEPT ![c] = [status |-> "ok", ran |-> req[c]]]
    /\ UNCHANGED cache

Dispatch(c) ==
    /\ pc[c] = "dispatch"
    /\ \/ HandleRetrieve(c)
       \/ HandleStore(c)
       \/ HandlePrune(c)
       \/ HandleShutdown(c)
       \/ HandleUnknown(c)
    /\ UNCHANGED <<goroutineVars, timerVars, prunerVars, shutdownChan, idleRead, req,
                   clientVars>>

\* Encoding to a client that is gone fails, which is logged and ignored.
Respond(c) ==
    /\ pc[c] = "respond"
    /\ outbox' = [outbox EXCEPT ![c] = IF peer[c] = "gone" THEN @ ELSE resp[c]]
    /\ pc' = [pc EXCEPT ![c] = "decode"]
    /\ resp' = [resp EXCEPT ![c] = Null]
    /\ UNCHANGED <<goroutineVars, timerVars, prunerVars, shutdownVars, idleRead, req,
                   cache, conn, peer, inbox, sent, asked>>

-----------------------------------------------------------------------------
ShutdownStep(p) == ForceIdle(p) \/ ForcePrune(p) \/ CloseChan(p)

HandleConn(c) ==
    \/ Decode(c) \/ DecodeFails(c) \/ DecodeEOF(c) \/ ResetIdleTimer(c)
    \/ Dispatch(c) \/ Respond(c)

IdleGoroutine == IdleReceive \/ IdleCheck

PruneGoroutine ==
    PruneLoop \/ PruneReceive \/ ScheduledPrune \/ RearmRead \/ RearmReset

Client(c) ==
    \/ Dial(c)
    \/ \E request \in Requests : SendRequest(c, request)
    \/ ReceiveResponse(c)
    \/ ReceiveEOF(c)
    \/ Hangup(c)

Next ==
    \/ \E c \in Conns : Client(c) \/ Accept(c) \/ HandleConn(c)
    \/ \E p \in Callers : ShutdownStep(p)
    \/ AcceptFails \/ HandOver
    \/ LeaveSelect \/ CloseListener \/ Exit
    \/ IdleTimerFires \/ IdleGoroutine
    \/ PruneTimerFires \/ PruneGoroutine

(***************************************************************************)
(* Go runs every goroutine that can run, timers fire, and a client reads   *)
(* its answer and, once it has one, terminates and so hangs up.  Nothing   *)
(* makes a client dial or send, or Accept fail for a transient reason.     *)
(***************************************************************************)
Fairness ==
    /\ \A c \in Conns :
        /\ WF_vars(HandleConn(c))
        /\ WF_vars(ReceiveResponse(c))
        /\ WF_vars(ReceiveEOF(c))
        /\ WF_vars(peer[c] = "idle" /\ Hangup(c))
    /\ \A p \in Callers : WF_vars(ShutdownStep(p))
    /\ WF_vars(~listening /\ AcceptFails)
    /\ WF_vars(\E c \in Conns : Accept(c))
    /\ WF_vars(HandOver)
    /\ WF_vars(LeaveSelect)
    /\ WF_vars(CloseListener)
    /\ WF_vars(Exit)
    /\ WF_vars(IdleTimerFires)
    /\ WF_vars(IdleGoroutine)
    /\ WF_vars(PruneTimerFires)
    /\ WF_vars(PruneGoroutine)

Spec == Init /\ [][Next]_vars

FairSpec == Spec /\ Fairness

-----------------------------------------------------------------------------
(***************************************************************************)
(* Properties                                                              *)
(***************************************************************************)

\* shutdownChan is closed at most once, although the idle goroutine and any
\* number of handlers may call handleShutdown at the same time: a second
\* close would panic and kill the agent without its cleanup.
ClosedOnce == shutdownChan # "panicked"

\* Once handleShutdown has closed shutdownChan, the prune goroutine is not
\* left sleeping on a timer set to the configured interval, whichever way its
\* own Reset and the one in handleShutdown were ordered.
PrunerForced ==
    (shutdownChan = "closed" /\ pruner = "wait") => pruneTimer # "armed"

\* When the agent exits and frees its lock, no client it has handed to a
\* handler is still waiting for the answer to a request (wg.Wait in Serve).
AcceptedAreAnswered ==
    main = "exited" =>
        \A c \in Conns : (pc[c] # "none" /\ peer[c] = "awaiting") => outbox[c] # Null

\* A request that carries its own method and payload is answered for what it
\* asked, whatever was sent on the connection before it.
AnsweredAsAsked ==
    \A c \in Conns :
        (outbox[c] # Null /\ asked[c] \in Fields
            /\ asked[c].method # Unset /\ asked[c].payload # Unset)
        => outbox[c].ran = asked[c]

\* acceptLoop holds a connection that Serve, which has left its select loop,
\* will never receive: wg.Wait does not return.
AcceptLoopStuck == accepter = "send" /\ main = "wait"

\* A shutdown that has started ends with the process exiting, unless the
\* accept goroutine is stuck for good on its send.
ShutdownCompletesUnlessStuck ==
    (<>shutdownStarted) => (<>(main = "exited") \/ <>[]AcceptLoopStuck)

\* A client that waits for an answer gets one, or sees the connection closed,
\* unless it is the one in the hand of the stuck accept goroutine.
ClientsReleased ==
    \A c \in Conns :
        [](peer[c] = "awaiting" =>
            (<>(peer[c] # "awaiting") \/ <>[](AcceptLoopStuck /\ hand = c)))

\* What the README says of the agent: it "idles for up to three hours before
\* automatically shutting down".
ShutdownCompletes == shutdownStarted ~> (main = "exited")

=============================================================================
