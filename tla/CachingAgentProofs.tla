------------------------- MODULE CachingAgentProofs -------------------------
(***************************************************************************)
(* Proofs about CachingAgent, for every number of connections, every set   *)
(* of keys and requests, and every bound on requests and Accept errors.    *)
(***************************************************************************)
EXTENDS CachingAgent, TLAPS

-----------------------------------------------------------------------------
(***************************************************************************)
(* The inductive invariants.                                               *)
(***************************************************************************)

\* A connection has no handler before Serve hands it over.
NoEarlyHandler ==
    /\ accepter = "send" => conn[hand] = "held"
    /\ \A c \in Conns : conn[c] \in {"new", "queued", "held"} => pc[c] = "none"

\* One caller at most is inside handleShutdown behind the compare-and-swap,
\* and it is there before the channel is closed.
OneShutdown ==
    /\ \A p \in Callers : pc[p] \in ShutdownSteps => shutdownStarted /\ shutdownChan = "open"
    /\ \A p, q \in Callers :
        (pc[p] \in ShutdownSteps /\ pc[q] \in ShutdownSteps) => p = q
    /\ ~shutdownStarted => shutdownChan = "open"
    /\ shutdownChan # "panicked"

\* handleShutdown has reset both timers.
TimersReset ==
    /\ shutdownStarted
    /\ \A p \in Callers : pc[p] \notin {"forceIdle", "forcePrune"}

\* From then on a prune goroutine that still waits has a value to receive.
PrunerWakes == (TimersReset /\ pruner = "wait") => pruneTimer = "fired"

ShutdownInv == TypeOK /\ NoEarlyHandler /\ OneShutdown /\ PrunerWakes

-----------------------------------------------------------------------------
\* Decoding yields a request structure (json.Decoder.Decode).
LEMMA DecodeType ==
    ASSUME NEW old \in Fields, NEW message \in Fields
    PROVE  DecodeInto(old, message) \in Fields
  BY DEF DecodeInto, Given, Fields

\* The idle goroutine is not a connection, and no connection is Null.
LEMMA IdlerIsNoConn ==
    /\ Idler \in Callers
    /\ Conns \subseteq Callers
    /\ \A c \in Conns : c # Idler
  BY ConstantsAssumption DEF Callers

\* handleConn's steps keep the types.
LEMMA HandleConnType ==
    ASSUME TypeOK, NEW c \in Conns, HandleConn(c)
    PROVE  TypeOK'
  <1> USE IdlerIsNoConn DEF HandlerSteps, IdlerSteps, ShutdownSteps
  <1>1. CASE Decode(c)
    <2>1. req' \in [Conns -> Fields]
      BY <1>1, DecodeType DEF Decode, TypeOK
    <2> QED
      BY <1>1, <2>1 DEF Decode, TypeOK, goroutineVars, timerVars, prunerVars, shutdownVars
  <1>2. CASE DecodeFails(c)
    <2>1. outbox' \in [Conns -> Responses \cup {Null}]
      BY <1>2 DEF DecodeFails, TypeOK, Responses
    <2> QED
      BY <1>2, <2>1 DEF DecodeFails, TypeOK, goroutineVars, timerVars, prunerVars,
                        shutdownVars
  <1>3. CASE DecodeEOF(c)
    BY <1>3 DEF DecodeEOF, TypeOK, goroutineVars, timerVars, prunerVars, shutdownVars
  <1>4. CASE ResetIdleTimer(c)
    BY <1>4 DEF ResetIdleTimer, Armed, TypeOK, goroutineVars, prunerVars, shutdownVars,
                clientVars
  <1>5. CASE Dispatch(c)
    <2>1. ASSUME NEW s \in {"ok", "cache-miss", "error"}
          PROVE  [status |-> s, ran |-> req[c]] \in Responses
      BY DEF TypeOK, Responses
    <2>2. resp' \in [Conns -> Responses \cup {Null}]
      BY <1>5, <2>1 DEF Dispatch, HandleRetrieve, HandleStore, HandlePrune, HandleShutdown,
                        HandleUnknown, Answer, TypeOK
    <2>3. pc' \in [Callers -> HandlerSteps \cup IdlerSteps] /\ pc'[Idler] = pc[Idler]
          /\ \A d \in Conns : pc'[d] \in HandlerSteps
      BY <1>5 DEF Dispatch, HandleRetrieve, HandleStore, HandlePrune, HandleShutdown,
                  HandleUnknown, Answer, CompareAndSwap, AfterShutdown, TypeOK
    <2>4. cache' \in SUBSET Keys
      <3>1. CASE HandleStore(c)
        BY <1>5, <3>1 DEF HandleStore, HasPayload, TypeOK, Fields, Payloads
      <3> QED
        BY <1>5, <3>1 DEF Dispatch, HandleRetrieve, HandlePrune, HandleShutdown,
                          HandleUnknown, TypeOK
    <2>5. shutdownStarted' \in BOOLEAN
      BY <1>5 DEF Dispatch, HandleRetrieve, HandleStore, HandlePrune, HandleShutdown,
                  HandleUnknown, CompareAndSwap, TypeOK
    <2> QED
      BY <1>5, <2>2, <2>3, <2>4, <2>5
         DEF Dispatch, TypeOK, goroutineVars, timerVars, prunerVars, clientVars
  <1>6. CASE Respond(c)
    BY <1>6 DEF Respond, TypeOK, goroutineVars, timerVars, prunerVars, shutdownVars
  <1> QED
    BY <1>1, <1>2, <1>3, <1>4, <1>5, <1>6 DEF HandleConn

\* The clients' steps keep the types.
LEMMA ClientType ==
    ASSUME TypeOK, NEW c \in Conns, Client(c)
    PROVE  TypeOK'
  <1>1. CASE \E request \in Requests : SendRequest(c, request)
    BY <1>1, ConstantsAssumption
       DEF SendRequest, TypeOK, goroutineVars, timerVars, prunerVars, shutdownVars,
           handlerVars
  <1>2. CASE Dial(c) \/ ReceiveResponse(c) \/ ReceiveEOF(c) \/ Hangup(c)
    BY <1>2 DEF Dial, ReceiveResponse, ReceiveEOF, Hangup, TypeOK, goroutineVars,
                timerVars, prunerVars, shutdownVars, handlerVars
  <1> QED
    BY <1>1, <1>2 DEF Client

\* A caller of handleShutdown moves between steps of its own.
LEMMA CallerType ==
    ASSUME TypeOK, NEW p \in Callers, NEW s \in ShutdownSteps \cup {AfterShutdown(p)},
           pc' = [pc EXCEPT ![p] = s]
    PROVE  /\ pc' \in [Callers -> HandlerSteps \cup IdlerSteps]
           /\ pc'[Idler] \in IdlerSteps
           /\ \A c \in Conns : pc'[c] \in HandlerSteps
  <1>1. s \in HandlerSteps \cup IdlerSteps
    BY DEF HandlerSteps, IdlerSteps, AfterShutdown
  <1>2. p = Idler => s \in IdlerSteps
    BY DEF IdlerSteps, AfterShutdown
  <1>3. p \in Conns => s \in HandlerSteps
    BY IdlerIsNoConn DEF HandlerSteps, AfterShutdown
  <1> QED
    BY <1>1, <1>2, <1>3, IdlerIsNoConn DEF TypeOK

\* handleShutdown's steps keep the types.
LEMMA ShutdownType ==
    ASSUME TypeOK, NEW p \in Callers, ShutdownStep(p)
    PROVE  TypeOK'
  <1> USE DEF goroutineVars, timerVars, prunerVars, shutdownVars, clientVars
  <1>1. CASE ForceIdle(p)
    <2>1. /\ pc' \in [Callers -> HandlerSteps \cup IdlerSteps]
          /\ pc'[Idler] \in IdlerSteps
          /\ \A c \in Conns : pc'[c] \in HandlerSteps
      BY <1>1, CallerType DEF ForceIdle, ShutdownSteps
    <2>2. idleTimer' = "fired" /\ idleTimeout' \in BOOLEAN
      BY <1>1 DEF ForceIdle, Armed
    <2>3. UNCHANGED <<goroutineVars, pruneInterval, pruneTimer, prunerVars, shutdownVars,
                      idleRead, req, resp, clientVars, cache>>
      BY <1>1 DEF ForceIdle
    <2> QED
      BY <2>1, <2>2, <2>3 DEF TypeOK
  <1>2. CASE ForcePrune(p)
    <2>1. /\ pc' \in [Callers -> HandlerSteps \cup IdlerSteps]
          /\ pc'[Idler] \in IdlerSteps
          /\ \A c \in Conns : pc'[c] \in HandlerSteps
      BY <1>2, CallerType DEF ForcePrune, ShutdownSteps
    <2>2. pruneTimer' = "fired" /\ pruneInterval' \in BOOLEAN
      BY <1>2 DEF ForcePrune, Armed
    <2>3. UNCHANGED <<goroutineVars, idleTimeout, idleTimer, prunerVars, shutdownVars,
                      idleRead, req, resp, clientVars, cache>>
      BY <1>2 DEF ForcePrune
    <2> QED
      BY <2>1, <2>2, <2>3 DEF TypeOK
  <1>3. CASE CloseChan(p)
    <2>1. /\ pc' \in [Callers -> HandlerSteps \cup IdlerSteps]
          /\ pc'[Idler] \in IdlerSteps
          /\ \A c \in Conns : pc'[c] \in HandlerSteps
      BY <1>3, CallerType DEF CloseChan
    <2> QED
      BY <1>3, <2>1 DEF CloseChan, TypeOK
  <1> QED
    BY <1>1, <1>2, <1>3 DEF ShutdownStep

\* The steps of acceptLoop and of Serve keep the types.
LEMMA ServeType ==
    ASSUME TypeOK,
           (\E c \in Conns : Accept(c)) \/ AcceptFails \/ HandOver \/ LeaveSelect
                \/ CloseListener \/ Exit
    PROVE  TypeOK'
  <1> USE IdlerIsNoConn DEF HandlerSteps, IdlerSteps, ShutdownSteps
  <1>1. CASE \E c \in Conns : Accept(c)
    BY <1>1, ConstantsAssumption
       DEF Accept, TypeOK, timerVars, prunerVars, shutdownVars, handlerVars
  <1>2. CASE AcceptFails
    BY <1>2, ConstantsAssumption
       DEF AcceptFails, TypeOK, timerVars, prunerVars, shutdownVars, handlerVars, clientVars
  <1>3. CASE HandOver
    BY <1>3, ConstantsAssumption DEF HandOver, TypeOK, timerVars, prunerVars, shutdownVars
  <1>4. CASE LeaveSelect \/ Exit
    BY <1>4 DEF LeaveSelect, Exit, TypeOK, timerVars, prunerVars, shutdownVars,
                handlerVars, clientVars
  <1>5. CASE CloseListener
    <2>1. conn' \in [Conns -> {"new", "queued", "held", "open", "closed"}]
      BY <1>5 DEF CloseListener, TypeOK
    <2>2. main' = "wait" /\ listening' \in BOOLEAN
      BY <1>5 DEF CloseListener
    <2>3. UNCHANGED <<accepter, hand, acceptErrors, timerVars, prunerVars, shutdownVars,
                      handlerVars, cache, peer, inbox, outbox, sent, asked>>
      BY <1>5 DEF CloseListener
    <2> QED
      BY <2>1, <2>2, <2>3 DEF TypeOK, timerVars, prunerVars, shutdownVars, handlerVars
  <1> QED
    BY <1>1, <1>2, <1>3, <1>4, <1>5

\* The steps of the timers and of their goroutines keep the types.
LEMMA TimerType ==
    ASSUME TypeOK, IdleTimerFires \/ IdleGoroutine \/ PruneTimerFires \/ PruneGoroutine
    PROVE  TypeOK'
  <1> USE IdlerIsNoConn DEF HandlerSteps, IdlerSteps, ShutdownSteps
  <1>1. CASE IdleTimerFires \/ PruneTimerFires
    BY <1>1 DEF IdleTimerFires, PruneTimerFires, TypeOK, goroutineVars, prunerVars,
                shutdownVars, handlerVars, clientVars
  <1>2. CASE IdleReceive
    BY <1>2 DEF IdleReceive, TypeOK, goroutineVars, prunerVars, shutdownVars, clientVars
  <1>3. CASE IdleCheck
    <2>1. \E s \in ShutdownSteps \cup {AfterShutdown(Idler)} : pc' = [pc EXCEPT ![Idler] = s]
      BY <1>3 DEF IdleCheck, CompareAndSwap, AfterShutdown, ShutdownSteps
    <2>2. /\ pc' \in [Callers -> HandlerSteps \cup IdlerSteps]
          /\ pc'[Idler] \in IdlerSteps
          /\ \A c \in Conns : pc'[c] \in HandlerSteps
      BY <2>1, CallerType
    <2>3. shutdownStarted' \in BOOLEAN
      BY <1>3 DEF IdleCheck, CompareAndSwap, TypeOK
    <2> QED
      BY <1>3, <2>2, <2>3
         DEF IdleCheck, TypeOK, goroutineVars, timerVars, prunerVars, clientVars
  <1>4. CASE PruneLoop \/ ScheduledPrune \/ RearmRead
    BY <1>4 DEF PruneLoop, ScheduledPrune, RearmRead, TypeOK, goroutineVars, timerVars,
                shutdownVars, handlerVars, clientVars
  <1>5. CASE PruneReceive \/ RearmReset
    BY <1>5 DEF PruneReceive, RearmReset, Armed, TypeOK, goroutineVars, shutdownVars,
                handlerVars, clientVars
  <1> QED
    BY <1>1, <1>2, <1>3, <1>4, <1>5 DEF IdleGoroutine, PruneGoroutine

\* Every step keeps the types.
LEMMA TypeStep == TypeOK /\ [Next]_vars => TypeOK'
  <1>1. TypeOK /\ UNCHANGED vars => TypeOK'
    BY DEF TypeOK, vars, goroutineVars, timerVars, prunerVars, shutdownVars, handlerVars,
           clientVars
  <1> QED
    BY <1>1, HandleConnType, ClientType, ShutdownType, ServeType, TimerType DEF Next

\* The initial state is well typed.
LEMMA TypeInit == Init => TypeOK
  <1> SUFFICES ASSUME Init
               PROVE  TypeOK
    OBVIOUS
  <1>1. /\ pc \in [Callers -> HandlerSteps \cup IdlerSteps]
        /\ pc[Idler] \in IdlerSteps
        /\ \A c \in Conns : pc[c] \in HandlerSteps
    BY IdlerIsNoConn DEF Init, HandlerSteps, IdlerSteps
  <1>2. NoFields \in Fields
    BY DEF NoFields, Fields
  <1>3. idleTimer \in {"armed", "fired", "spent"}
    BY ConstantsAssumption DEF Init, Armed
  <1>4. /\ idleTimeout \in BOOLEAN /\ pruneInterval \in BOOLEAN /\ pruneRead \in BOOLEAN
        /\ idleRead \in [Conns -> BOOLEAN]
        /\ listening \in BOOLEAN /\ shutdownStarted \in BOOLEAN
    BY ConstantsAssumption DEF Init
  <1>5. acceptErrors \in 0..MaxAcceptErrors /\ sent \in [Conns -> 0..MaxRequests]
    BY ConstantsAssumption DEF Init
  <1>6. /\ req \in [Conns -> Fields]
        /\ resp \in [Conns -> Responses \cup {Null}]
        /\ outbox \in [Conns -> Responses \cup {Null}]
        /\ inbox \in [Conns -> Requests \cup {Null}]
        /\ asked \in [Conns -> Requests \cup {Null}]
    BY <1>2 DEF Init
  <1>7. /\ conn \in [Conns -> {"new", "queued", "held", "open", "closed"}]
        /\ peer \in [Conns -> {"idle", "awaiting", "gone"}]
    BY DEF Init
  <1>8. /\ main = "select" /\ accepter = "accept" /\ hand = Null /\ shutdownChan = "open"
        /\ pruneTimer = "fired" /\ pruner = "loop" /\ cache = {}
    BY DEF Init
  <1> QED
    BY <1>1, <1>3, <1>4, <1>5, <1>6, <1>7, <1>8 DEF TypeOK

\* Every variable of the goroutine model keeps its type.
THEOREM TypeCorrect == Spec => []TypeOK
  BY TypeInit, TypeStep, PTL DEF Spec

\* Every step keeps connections and handlers together.
LEMMA NoEarlyHandlerStep ==
    ASSUME TypeOK, NoEarlyHandler, [Next]_vars
    PROVE  NoEarlyHandler'
  <1> USE IdlerIsNoConn DEF NoEarlyHandler
  <1>1. CASE UNCHANGED <<accepter, hand, conn, pc>>
    BY <1>1
  <1>2. ASSUME NEW c \in Conns, pc[c] # "none", UNCHANGED <<accepter, hand>>,
               conn' = conn \/ conn' = [conn EXCEPT ![c] = "closed"],
               \A d \in Conns \ {c} : pc'[d] = pc[d]
        PROVE  NoEarlyHandler'
    BY <1>2 DEF TypeOK
  <1>3. ASSUME NEW c \in Conns, HandleConn(c)
        PROVE  NoEarlyHandler'
    <2>1. /\ pc[c] # "none"
          /\ UNCHANGED <<accepter, hand>>
          /\ conn' = conn \/ conn' = [conn EXCEPT ![c] = "closed"]
          /\ \A d \in Conns \ {c} : pc'[d] = pc[d]
      BY <1>3 DEF HandleConn, Decode, DecodeFails, DecodeEOF, ResetIdleTimer, Dispatch,
                  HandleRetrieve, HandleStore, HandlePrune, HandleUnknown, HandleShutdown,
                  CompareAndSwap, Answer, Respond, TypeOK, goroutineVars, clientVars
    <2> QED
      BY <1>2, <2>1
  <1>4. ASSUME NEW p \in Callers, ShutdownStep(p)
        PROVE  NoEarlyHandler'
    BY <1>4 DEF ShutdownStep, ForceIdle, ForcePrune, CloseChan, TypeOK, goroutineVars,
                clientVars, Callers
  <1>5. CASE IdleReceive \/ IdleCheck
    BY <1>5 DEF IdleReceive, IdleCheck, CompareAndSwap, TypeOK, goroutineVars, clientVars
  <1>6. ASSUME NEW c \in Conns, Dial(c) \/ Accept(c)
        PROVE  NoEarlyHandler'
    BY <1>6 DEF Dial, Accept, TypeOK, goroutineVars, handlerVars
  <1>7. CASE HandOver
    BY <1>7 DEF HandOver, TypeOK
  <1>8. CASE CloseListener
    BY <1>8 DEF CloseListener, TypeOK, handlerVars
  <1>9. CASE AcceptFails
    BY <1>9 DEF AcceptFails, TypeOK, handlerVars, clientVars
  <1> QED
    BY <1>1, <1>3, <1>4, <1>5, <1>6, <1>7, <1>8, <1>9
       DEF Next, vars, goroutineVars, handlerVars, clientVars, Client, SendRequest,
           ReceiveResponse, ReceiveEOF, Hangup, LeaveSelect, Exit, IdleTimerFires,
           IdleGoroutine, PruneTimerFires, PruneGoroutine, PruneLoop, PruneReceive,
           ScheduledPrune, RearmRead, RearmReset

-----------------------------------------------------------------------------
(***************************************************************************)
(* The shutdown protocol.                                                  *)
(***************************************************************************)

\* The steps that neither call handleShutdown nor are part of it leave every
\* caller outside it, and what it sets, alone.
QuietStep ==
    /\ UNCHANGED shutdownVars
    /\ \A p \in Callers : pc'[p] \in ShutdownSteps <=> pc[p] \in ShutdownSteps
    /\ \A p \in Callers : pc[p] \in ShutdownSteps => pc'[p] = pc[p]

\* A caller that does not take a step of handleShutdown takes a quiet step,
\* or the compare-and-swap.
LEMMA StepKinds ==
    ASSUME TypeOK, NoEarlyHandler, [Next]_vars
    PROVE  \/ QuietStep
           \/ \E p \in Callers : pc[p] \notin ShutdownSteps /\ CompareAndSwap(p)
                                    /\ UNCHANGED shutdownChan
           \/ \E p \in Callers : ShutdownStep(p)
  <1> USE IdlerIsNoConn DEF ShutdownSteps
  <1>1. CASE UNCHANGED <<shutdownVars, pc>>
    BY <1>1 DEF QuietStep
  <1>2. ASSUME NEW c \in Conns, HandleConn(c), ~Dispatch(c)
        PROVE  QuietStep
    BY <1>2 DEF HandleConn, Decode, DecodeFails, DecodeEOF, ResetIdleTimer, Respond,
                QuietStep, TypeOK, shutdownVars
  <1>3. ASSUME NEW c \in Conns, Dispatch(c)
        PROVE  \/ QuietStep
               \/ pc[c] \notin ShutdownSteps /\ CompareAndSwap(c) /\ UNCHANGED shutdownChan
    BY <1>3 DEF Dispatch, HandleRetrieve, HandleStore, HandlePrune, HandleUnknown,
                HandleShutdown, Answer, QuietStep, TypeOK, shutdownVars
  <1>4. CASE HandOver
    <2>1. hand \in Conns /\ pc[hand] = "none"
      BY <1>4 DEF HandOver, TypeOK, NoEarlyHandler
    <2> QED
      BY <1>4, <2>1 DEF HandOver, QuietStep, TypeOK, shutdownVars
  <1>5. CASE IdleReceive
    BY <1>5 DEF IdleReceive, QuietStep, TypeOK, shutdownVars
  <1>6. CASE IdleCheck
    <2>1. CASE idleTimeout /\ ~shutdownStarted
      BY <1>6, <2>1 DEF IdleCheck
    <2>2. CASE ~(idleTimeout /\ ~shutdownStarted)
      BY <1>6, <2>2 DEF IdleCheck, QuietStep, TypeOK, shutdownVars
    <2> QED
      BY <2>1, <2>2
  <1> QED
    BY <1>1, <1>2, <1>3, <1>4, <1>5, <1>6
       DEF Next, vars, handlerVars, shutdownVars, Client, Dial, SendRequest,
           ReceiveResponse, ReceiveEOF, Hangup, Accept, AcceptFails, LeaveSelect,
           CloseListener, Exit, IdleTimerFires, IdleGoroutine, PruneTimerFires,
           PruneGoroutine, PruneLoop, PruneReceive, ScheduledPrune, RearmRead, RearmReset

\* No step lets a second caller behind the compare-and-swap.
LEMMA OneShutdownStep ==
    ASSUME TypeOK, NoEarlyHandler, OneShutdown, [Next]_vars
    PROVE  OneShutdown'
  <1> USE DEF OneShutdown, ShutdownSteps
  <1>1. CASE QuietStep
    BY <1>1 DEF QuietStep, shutdownVars
  <1>2. ASSUME NEW p \in Callers, pc[p] \notin ShutdownSteps, CompareAndSwap(p),
               UNCHANGED shutdownChan
        PROVE  OneShutdown'
    <2>1. CASE shutdownStarted
      BY <1>2, <2>1 DEF CompareAndSwap, AfterShutdown, TypeOK
    <2>2. CASE ~shutdownStarted
      BY <1>2, <2>2 DEF CompareAndSwap, TypeOK
    <2> QED
      BY <2>1, <2>2
  <1>3. ASSUME NEW p \in Callers, ShutdownStep(p)
        PROVE  OneShutdown'
    BY <1>3 DEF ShutdownStep, ForceIdle, ForcePrune, CloseChan, AfterShutdown, TypeOK,
                shutdownVars
  <1> QED
    BY <1>1, <1>2, <1>3, StepKinds

\* No step puts a waiting prune goroutine back to sleep once handleShutdown
\* has reset its timer.
LEMMA PrunerWakesStep ==
    ASSUME TypeOK, NoEarlyHandler, OneShutdown, PrunerWakes, [Next]_vars
    PROVE  PrunerWakes'
  <1> SUFFICES ASSUME TimersReset', pruner' = "wait"
               PROVE  pruneTimer' = "fired"
    BY DEF PrunerWakes
  <1>1. ASSUME NEW p \in Callers, ForcePrune(p)
        PROVE  pruneTimer' = "fired"
    BY <1>1 DEF ForcePrune, Armed
  <1>2. ASSUME \A p \in Callers : ~ForcePrune(p)
        PROVE  TimersReset
    <2>1. CASE QuietStep
      BY <2>1 DEF QuietStep, TimersReset, shutdownVars, ShutdownSteps
    <2>2. ASSUME NEW p \in Callers, pc[p] \notin ShutdownSteps, CompareAndSwap(p)
          PROVE  TimersReset
      <3>1. shutdownStarted
        BY <2>2 DEF CompareAndSwap, TimersReset, TypeOK
      <3> QED
        BY <2>2, <3>1 DEF CompareAndSwap, TimersReset, TypeOK, ShutdownSteps
    <2>3. ASSUME NEW p \in Callers, ForceIdle(p)
          PROVE  FALSE
      BY <2>3 DEF ForceIdle, TimersReset, TypeOK
    <2>4. ASSUME NEW p \in Callers, CloseChan(p)
          PROVE  TimersReset
      BY <2>4 DEF CloseChan, TimersReset, TypeOK
    <2> QED
      BY <1>2, <2>1, <2>2, <2>3, <2>4, StepKinds DEF ShutdownStep
  <1>3. CASE TimersReset
    <2>1. shutdownStarted
      BY <1>3 DEF TimersReset
    <2>2. pruner = "wait"
      <3>1. CASE PruneGoroutine
        BY <2>1, <3>1 DEF PruneGoroutine, PruneLoop, PruneReceive, ScheduledPrune,
                          RearmRead, RearmReset
      <3>2. CASE UNCHANGED pruner
        BY <3>2
      <3> QED
        BY <3>1, <3>2
           DEF Next, vars, prunerVars, Client, Dial, SendRequest, ReceiveResponse,
               ReceiveEOF, Hangup, Accept, AcceptFails, HandOver, LeaveSelect,
               CloseListener, Exit, IdleTimerFires, IdleGoroutine, IdleReceive, IdleCheck,
               PruneTimerFires, HandleConn, Decode, DecodeFails, DecodeEOF,
               ResetIdleTimer, Dispatch, Respond, ShutdownStep, ForceIdle, ForcePrune,
               CloseChan
    <2>3. pruneTimer = "fired"
      BY <1>3, <2>2 DEF PrunerWakes
    <2>4. CASE PruneGoroutine
      BY <2>2, <2>4 DEF PruneGoroutine, PruneLoop, PruneReceive, ScheduledPrune, RearmRead,
                        RearmReset
    <2>5. CASE UNCHANGED pruneTimer
      BY <2>3, <2>5
    <2> QED
      BY <1>1, <2>3, <2>4, <2>5
         DEF Next, vars, timerVars, Client, Dial, SendRequest, ReceiveResponse,
             ReceiveEOF, Hangup, Accept, AcceptFails, HandOver, LeaveSelect,
             CloseListener, Exit, IdleTimerFires, IdleGoroutine, IdleReceive, IdleCheck,
             PruneTimerFires, HandleConn, Decode, DecodeFails, DecodeEOF,
             ResetIdleTimer, Dispatch, Respond, ShutdownStep, ForceIdle, CloseChan
  <1> QED
    BY <1>1, <1>2, <1>3

\* The shutdown invariant holds in every reachable state.
THEOREM ShutdownInvariance == Spec => []ShutdownInv
  <1>1. Init => ShutdownInv
    <2> SUFFICES ASSUME Init
                 PROVE  ShutdownInv
      OBVIOUS
    <2>1. \A p \in Callers : pc[p] \notin ShutdownSteps
      BY DEF Init, ShutdownSteps
    <2>2. NoEarlyHandler
      BY IdlerIsNoConn DEF Init, NoEarlyHandler
    <2> QED
      BY <2>1, <2>2, TypeInit DEF Init, ShutdownInv, OneShutdown, PrunerWakes, TimersReset
  <1>2. ShutdownInv /\ [Next]_vars => ShutdownInv'
    BY TypeStep, NoEarlyHandlerStep, OneShutdownStep, PrunerWakesStep DEF ShutdownInv
  <1> QED
    BY <1>1, <1>2, PTL DEF Spec

\* However many connections ask for a shutdown while the idle timer fires,
\* shutdownChan is closed once (handleShutdown).
THEOREM NoPanic == Spec => []ClosedOnce
  <1>1. ShutdownInv => ClosedOnce
    BY DEF ShutdownInv, OneShutdown, ClosedOnce
  <1> QED
    BY <1>1, ShutdownInvariance, PTL

\* Once shutdownChan is closed the prune goroutine does not sleep out its
\* interval, whatever order the two Resets were in (handleShutdown and Serve).
THEOREM PrunerStopsEarly == Spec => []PrunerForced
  <1>1. ShutdownInv => PrunerForced
    <2> SUFFICES ASSUME ShutdownInv, shutdownChan = "closed", pruner = "wait"
                 PROVE  pruneTimer # "armed"
      BY DEF PrunerForced
    <2>1. TimersReset
      BY DEF ShutdownInv, OneShutdown, TimersReset, ShutdownSteps, TypeOK
    <2> QED
      BY <2>1 DEF ShutdownInv, PrunerWakes
  <1> QED
    BY <1>1, ShutdownInvariance, PTL

-----------------------------------------------------------------------------
(***************************************************************************)
(* Requests and answers.                                                   *)
(***************************************************************************)

\* The steps of handleConn between decoding a request and answering it.
Working == {"reset", "dispatch", "respond"} \cup ShutdownSteps

\* Both fields are in the message, so Decode overwrites what an earlier
\* request left behind.
Complete(message) ==
    message \in Fields /\ message.method # Unset /\ message.payload # Unset

\* A request is on the wire, in the hands of its handler, or answered, and
\* in one of these places only; a handler that is done leaves none behind.
OneRequest(c) ==
    /\ pc[c] = "done" => conn[c] = "closed" /\ (peer[c] = "awaiting" => outbox[c] # Null)
    /\ inbox[c] # Null =>
        /\ inbox[c] = asked[c]
        /\ outbox[c] = Null
        /\ peer[c] # "idle"
        /\ pc[c] \notin Working
    /\ pc[c] \in Working =>
        /\ outbox[c] = Null
        /\ peer[c] # "idle"
        /\ Complete(asked[c]) => req[c] = asked[c]
    /\ pc[c] \in Working \ {"reset", "dispatch"} =>
        resp[c] \in Responses /\ resp[c].ran = req[c]
    /\ (outbox[c] # Null /\ Complete(asked[c])) => outbox[c].ran = asked[c]

\* wg.Wait has returned, so every goroutine has.
Drained == main = "exited" => AllDone

AnswerInv ==
    /\ TypeOK
    /\ NoEarlyHandler
    /\ \A c \in Conns : OneRequest(c)
    /\ Drained

\* A complete request is decoded to itself, whatever req held before.
LEMMA DecodeComplete ==
    ASSUME NEW old \in Fields, NEW message, Complete(message)
    PROVE  DecodeInto(old, message) = message
  BY DEF Complete, DecodeInto, Given, Fields

\* A step that leaves a connection's part of the state alone.
Untouched(c) ==
    /\ pc'[c] = pc[c] /\ req'[c] = req[c] /\ resp'[c] = resp[c]
    /\ conn'[c] = conn[c] /\ peer'[c] = peer[c] /\ inbox'[c] = inbox[c]
    /\ outbox'[c] = outbox[c] /\ asked'[c] = asked[c]

\* Such a step keeps the connection's invariant.
LEMMA UntouchedKeeps ==
    ASSUME NEW c \in Conns, OneRequest(c), Untouched(c)
    PROVE  OneRequest(c)'
  BY DEF OneRequest, Untouched

\* The clients' steps keep requests and answers together.
LEMMA ClientOneRequest ==
    ASSUME TypeOK, NoEarlyHandler, NEW c \in Conns, OneRequest(c), Client(c)
    PROVE  OneRequest(c)'
  <1> USE DEF OneRequest, Working, ShutdownSteps
  <1>1. CASE Dial(c)
    <2>1. pc[c] = "none"
      BY <1>1 DEF Dial, NoEarlyHandler
    <2> QED
      BY <1>1, <2>1 DEF Dial, handlerVars
  <1>2. ASSUME NEW request \in Requests, SendRequest(c, request)
        PROVE  OneRequest(c)'
    <2>1. pc[c] # "done" /\ pc[c] \notin Working
      BY <1>2 DEF SendRequest
    <2>2. /\ inbox'[c] = request /\ asked'[c] = request /\ outbox'[c] = Null
          /\ peer'[c] = "awaiting" /\ pc'[c] = pc[c]
      BY <1>2 DEF SendRequest, TypeOK, handlerVars
    <2> QED
      BY <2>1, <2>2
  <1>3. CASE ReceiveResponse(c)
    BY <1>3 DEF ReceiveResponse, TypeOK, handlerVars
  <1>4. CASE ReceiveEOF(c) \/ Hangup(c)
    BY <1>4 DEF ReceiveEOF, Hangup, TypeOK, handlerVars
  <1> QED
    BY <1>1, <1>2, <1>3, <1>4 DEF Client

\* handleConn's steps keep requests and answers together.
LEMMA HandleConnOneRequest ==
    ASSUME TypeOK, NEW c \in Conns, OneRequest(c), HandleConn(c)
    PROVE  OneRequest(c)'
  <1> USE IdlerIsNoConn DEF OneRequest, Working, ShutdownSteps
  <1>1. CASE Decode(c)
    <2>1. inbox[c] = asked[c] /\ outbox[c] = Null /\ peer[c] # "idle"
      BY <1>1, ConstantsAssumption DEF Decode
    <2>2. Complete(asked[c]) => req'[c] = asked[c]
      BY <1>1, <2>1, DecodeComplete DEF Decode, TypeOK
    <2>3. /\ pc'[c] = "reset" /\ inbox'[c] = Null
          /\ UNCHANGED <<outbox, peer, asked>>
      BY <1>1 DEF Decode, TypeOK
    <2> QED
      BY <2>1, <2>2, <2>3
  <1>2. CASE DecodeFails(c)
    <2>1. asked[c] = Garbage
      BY <1>2, ConstantsAssumption DEF DecodeFails
    <2>2. ~Complete(asked'[c])
      BY <1>2, <2>1, ConstantsAssumption DEF DecodeFails, Complete
    <2>3. outbox'[c] # Null
      <3>1. [status |-> "error", ran |-> Garbage] \in Responses
        BY DEF Responses
      <3> QED
        BY <1>2, <3>1, ConstantsAssumption DEF DecodeFails, TypeOK
    <2> QED
      BY <1>2, <2>2, <2>3 DEF DecodeFails, TypeOK
  <1>3. CASE DecodeEOF(c)
    BY <1>3 DEF DecodeEOF, TypeOK
  <1>4. CASE ResetIdleTimer(c)
    BY <1>4 DEF ResetIdleTimer, TypeOK, clientVars
  <1>5. CASE Dispatch(c)
    <2>1. \E s \in {"ok", "cache-miss", "error"} :
            resp'[c] = [status |-> s, ran |-> req[c]]
      BY <1>5 DEF Dispatch, HandleRetrieve, HandleStore, HandlePrune, HandleShutdown,
                  HandleUnknown, Answer, TypeOK
    <2>2. resp'[c] \in Responses /\ resp'[c].ran = req[c]
      BY <2>1 DEF TypeOK, Responses
    <2>3. pc[c] = "dispatch" /\ pc'[c] \in {"respond", "forceIdle"}
      BY <1>5 DEF Dispatch, HandleRetrieve, HandleStore, HandlePrune, HandleShutdown,
                  HandleUnknown, Answer, CompareAndSwap, AfterShutdown, TypeOK
    <2>4. UNCHANGED <<req, clientVars>>
      BY <1>5 DEF Dispatch
    <2> QED
      BY <2>2, <2>3, <2>4 DEF clientVars
  <1>6. CASE Respond(c)
    BY <1>6 DEF Respond, TypeOK
  <1> QED
    BY <1>1, <1>2, <1>3, <1>4, <1>5, <1>6 DEF HandleConn

\* A step of one connection's client or handler leaves the others alone.
LEMMA OthersUntouched ==
    ASSUME TypeOK, NEW c \in Conns, NEW d \in Conns, c # d,
           Client(d) \/ HandleConn(d) \/ Accept(d)
    PROVE  Untouched(c)
  <1>1. CASE Client(d)
    BY <1>1 DEF Client, Dial, SendRequest, ReceiveResponse, ReceiveEOF, Hangup, TypeOK,
                Untouched, handlerVars
  <1>2. CASE HandleConn(d)
    <2>1. c \in Callers /\ d \in Callers
      BY IdlerIsNoConn
    <2>2. CASE Dispatch(d)
      BY <2>1, <2>2 DEF Dispatch, HandleRetrieve, HandleStore, HandlePrune, HandleUnknown,
                        HandleShutdown, CompareAndSwap, Answer, TypeOK, Untouched,
                        clientVars
    <2> QED
      BY <1>2, <2>1, <2>2 DEF HandleConn, Decode, DecodeFails, DecodeEOF, ResetIdleTimer,
                              Respond, TypeOK, Untouched, clientVars
  <1>3. CASE Accept(d)
    BY <1>3 DEF Accept, TypeOK, Untouched, handlerVars
  <1> QED
    BY <1>1, <1>2, <1>3

\* Every step keeps requests and answers together.
LEMMA OneRequestStep ==
    ASSUME TypeOK, NoEarlyHandler, NEW c \in Conns, OneRequest(c), [Next]_vars
    PROVE  OneRequest(c)'
  <1> USE IdlerIsNoConn
  <1>1. CASE UNCHANGED <<handlerVars, clientVars>>
    BY <1>1, UntouchedKeeps DEF Untouched, handlerVars, clientVars
  <1>2. ASSUME NEW d \in Conns, Client(d) \/ HandleConn(d) \/ Accept(d)
        PROVE  OneRequest(c)'
    <2>1. CASE c # d
      BY <1>2, <2>1, OthersUntouched, UntouchedKeeps
    <2>2. CASE c = d /\ Accept(d)
      <3>1. pc[c] = "none"
        BY <2>2 DEF Accept, NoEarlyHandler
      <3> QED
        BY <2>2, <3>1 DEF Accept, TypeOK, OneRequest, Working, ShutdownSteps, handlerVars
    <2> QED
      BY <1>2, <2>1, <2>2, ClientOneRequest, HandleConnOneRequest
  <1>3. ASSUME NEW p \in Callers, ShutdownStep(p)
        PROVE  OneRequest(c)'
    <2>1. CASE p # c
      BY <1>3, <2>1, UntouchedKeeps
         DEF ShutdownStep, ForceIdle, ForcePrune, CloseChan, TypeOK, Untouched, clientVars
    <2>2. CASE p = c
      BY <1>3, <2>2 DEF ShutdownStep, ForceIdle, ForcePrune, CloseChan, AfterShutdown,
                        TypeOK, OneRequest, Working, ShutdownSteps, clientVars
    <2> QED
      BY <2>1, <2>2
  <1>4. CASE HandOver
    <2>1. hand \in Conns /\ pc[hand] = "none"
      BY <1>4 DEF HandOver, TypeOK, NoEarlyHandler
    <2> QED
      BY <1>4, <2>1 DEF HandOver, TypeOK, OneRequest, Working, ShutdownSteps
  <1>5. CASE CloseListener
    BY <1>5 DEF CloseListener, TypeOK, OneRequest, handlerVars
  <1>6. CASE IdleReceive \/ IdleCheck
    BY <1>6, UntouchedKeeps
       DEF IdleReceive, IdleCheck, CompareAndSwap, TypeOK, Untouched, clientVars
  <1> QED
    BY <1>1, <1>2, <1>3, <1>4, <1>5, <1>6
       DEF Next, vars, AcceptFails, LeaveSelect, Exit, IdleTimerFires, IdleGoroutine,
           PruneTimerFires, PruneGoroutine, PruneLoop, PruneReceive, ScheduledPrune,
           RearmRead, RearmReset

\* Once wg.Wait has returned no goroutine starts again.
LEMMA DrainedStep ==
    ASSUME TypeOK, Drained, [Next]_vars
    PROVE  Drained'
  <1> USE IdlerIsNoConn
  <1>1. CASE Exit
    BY <1>1 DEF Exit, AllDone, Drained, prunerVars, handlerVars
  <1>2. CASE main # "exited" /\ ~Exit
    <2>1. main' # "exited"
      BY <1>2
         DEF Next, vars, goroutineVars, Client, Dial, SendRequest, ReceiveResponse,
             ReceiveEOF, Hangup, Accept, AcceptFails, HandOver, LeaveSelect,
             CloseListener, IdleTimerFires, IdleGoroutine, IdleReceive, IdleCheck,
             PruneTimerFires, PruneGoroutine, PruneLoop, PruneReceive, ScheduledPrune,
             RearmRead, RearmReset, HandleConn, Decode, DecodeFails, DecodeEOF,
             ResetIdleTimer, Dispatch, Respond, ShutdownStep, ForceIdle, ForcePrune,
             CloseChan
    <2> QED
      BY <2>1 DEF Drained
  <1>3. CASE main = "exited"
    <2>1. AllDone
      BY <1>3 DEF Drained
    <2>2. UNCHANGED <<accepter, pruner, pc>>
      BY <1>3, <2>1
         DEF AllDone, Next, vars, goroutineVars, prunerVars, handlerVars, Client, Dial,
             SendRequest, ReceiveResponse, ReceiveEOF, Hangup, Accept, AcceptFails,
             HandOver, LeaveSelect, CloseListener, Exit, IdleTimerFires, IdleGoroutine,
             IdleReceive, IdleCheck, PruneTimerFires, PruneGoroutine, PruneLoop,
             PruneReceive, ScheduledPrune, RearmRead, RearmReset, HandleConn, Decode,
             DecodeFails, DecodeEOF, ResetIdleTimer, Dispatch, Respond, ShutdownStep,
             ForceIdle, ForcePrune, CloseChan, Callers
    <2> QED
      BY <2>1, <2>2 DEF AllDone, Drained
  <1> QED
    BY <1>1, <1>2, <1>3

\* Requests and answers stay together in every reachable state.
THEOREM AnswerInvariance == Spec => []AnswerInv
  <1>1. Init => AnswerInv
    <2> SUFFICES ASSUME Init
                 PROVE  AnswerInv
      OBVIOUS
    <2>1. NoEarlyHandler
      BY IdlerIsNoConn DEF Init, NoEarlyHandler
    <2>2. ASSUME NEW c \in Conns
          PROVE  OneRequest(c)
      BY IdlerIsNoConn DEF Init, OneRequest, Working, ShutdownSteps
    <2> QED
      BY <2>1, <2>2, TypeInit DEF Init, AnswerInv, Drained
  <1>2. AnswerInv /\ [Next]_vars => AnswerInv'
    BY TypeStep, NoEarlyHandlerStep, OneRequestStep, DrainedStep DEF AnswerInv
  <1> QED
    BY <1>1, <1>2, PTL DEF Spec

\* An agent that exits leaves no client that it handed to a handler without
\* the answer to its request (wg.Wait in Serve and the returns of handleConn).
THEOREM NobodyDropped == Spec => []AcceptedAreAnswered
  <1>1. AnswerInv => AcceptedAreAnswered
    BY DEF AnswerInv, Drained, AllDone, OneRequest, AcceptedAreAnswered
  <1> QED
    BY <1>1, AnswerInvariance, PTL

\* A complete request is answered for what it asked, although handleConn
\* decodes every request of a connection into the same structure.
THEOREM AnswersMatch == Spec => []AnsweredAsAsked
  <1>1. AnswerInv => AnsweredAsAsked
    BY DEF AnswerInv, OneRequest, Complete, AnsweredAsAsked
  <1> QED
    BY <1>1, AnswerInvariance, PTL

=============================================================================
