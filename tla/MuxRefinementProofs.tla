---------------------- MODULE MuxRefinementProofs ----------------------
(***************************************************************************)
(* The multiplexer implements the relay, and the boundary of a session,    *)
(* for every value of the constants: whatever the clients send, however    *)
(* connections fail.                                                       *)
(***************************************************************************)
EXTENDS MuxImplementsRelay, MuxImplementsBoundary, MuxSessionProofs,
        MuxReverseProofs

USE DEF worldVars, sessionVars, partyVars, connVars, lifecycleVars, argVars,
        handshakeVars, replayVars, seqVars, reverseVars, answerVars, viewVars,
        adapterVars, queueVars

\* What a client waits for is what it has sent.
AwaitedIsSent == \A a \in awaiting : HasSent(a)

\* All that the refinement rests on.
Accounts ==
    /\ TypeOK /\ RoutesIntact /\ HandshakeTracked /\ ReverseAccounted
    /\ AwaitedIsSent

\* A client waits for nothing it has not sent.
LEMMA AwaitedStep ==
    ASSUME TypeOK, AwaitedIsSent, [Next]_vars
    PROVE  AwaitedIsSent'
<1>0. sent \in [Client -> Nat] /\ awaiting \subseteq Requests
  BY DEF TypeOK, TypeConnections, TypeHandshake
<1>1. CASE UNCHANGED routeVars
  BY <1>1 DEF routeVars, AwaitedIsSent, HasSent
<1>2. CASE Register \/ UpstreamLost
  BY <1>2 DEF Register, UpstreamLost, AwaitedIsSent, HasSent
<1>3. ASSUME NEW c \in Client, NEW q \in 0..MaxRequests, OneMoreSent(c, q),
             Absorbed(c, q) \/ Buffered(c, q) \/ Forwarded(c, q)
      PROVE  AwaitedIsSent'
  <2>1. \A d \in Client : sent'[d] = IF d = c THEN sent[c] + 1 ELSE sent[d]
    BY <1>0, <1>3 DEF OneMoreSent
  <2>2. awaiting' \subseteq awaiting \cup Asked(c, q)
    BY <1>3 DEF Absorbed, Buffered, Forwarded, Settle
  <2>3. \A a \in Asked(c, q) : a.client = c /\ a.seq = sent[c] + 1
    BY <1>3 DEF Asked, PendingRequest, OneMoreSent
  <2>. QED BY <1>0, <2>1, <2>2, <2>3 DEF AwaitedIsSent, HasSent, Requests
<1>4. ASSUME NEW c \in Client, Left(c)
      PROVE  AwaitedIsSent'
  <2>1. /\ awaiting' \subseteq awaiting /\ sent' \in [Client -> Nat]
        /\ \A d \in Client : sent'[d] >= sent[d]
    BY <1>4 DEF Left, Depart
  <2>. QED BY <1>0, <2>1 DEF AwaitedIsSent, HasSent, Requests
<1>5. ASSUME NEW r \in atAdapter, Returned(r)
      PROVE  AwaitedIsSent'
  BY <1>5 DEF Returned, RouteResponse, Settle, AwaitedIsSent, HasSent
<1>6. CASE EndSession
  BY <1>6 DEF EndSession, AwaitedIsSent
<1>. QED BY <1>1, <1>2, <1>3, <1>4, <1>5, <1>6, RouteSteps

\* The accounts are in order before anybody connects.
LEMMA AccountsInit == ASSUME Init PROVE Accounts
BY TypeInit, RoutesInit, HandshakeInit, ReverseInit
   DEF Accounts, AwaitedIsSent, Init

\* Every step keeps them in order.
LEMMA AccountsStep == ASSUME Accounts, [Next]_vars PROVE Accounts'
BY TypeStep, RoutesStep, HandshakeStep, ReverseStep, AwaitedStep DEF Accounts

\* As long as they are, nothing is misrouted.
LEMMA NothingMisrouted == ASSUME Accounts, Accounts' PROVE UNCHANGED misrouted
<1>1. misrouted \in BOOLEAN /\ misrouted' \in BOOLEAN
  BY DEF Accounts, TypeOK, TypeHandshake
<1>2. ~misrouted /\ ~misrouted'
  BY DEF Accounts, RoutesIntact, ResponsesRouted
<1>. QED BY <1>1, <1>2

-----------------------------------------------------------------------------
(* Each step of the multiplexer as a step of the relay.                    *)

relayVars == <<clients, sent, awaiting, upstream, accepted, atAdapter,
               configured, asks, owed, misrouted, doubled>>

\* A step that touches none of these is none of the relay's.
LEMMA StutterMaps ==
    ASSUME UNCHANGED relayVars PROVE UNCHANGED R!vars
BY DEF relayVars, R!vars, AdapterHandshake, InFlight

\* A client that connects joins.
LEMMA RegisterMaps ==
    ASSUME TypeOK, Register PROVE \E c \in Client : R!Join(c)
<1>1. clientCounter + 1 \in Client \ clients
  BY MuxAssumption DEF Register, TypeOK, TypeConnections, Client
<1>. QED BY <1>1 DEF Register, R!Join, R!adapterSide, R!broken,
         AdapterHandshake, InFlight

\* What a request does to the handshake is what the relay allows.
LEMMA RequestMapsOpening ==
    ASSUME Accounts, NEW c \in Client, NEW q \in 0..MaxRequests,
           ClientRequest(c, q), ~Disconnect(c, q)
    PROVE  R!Opening
<1>1. CASE UNCHANGED opening
  BY <1>1 DEF opening, R!Opening, AdapterHandshake, InFlight
<1>2. ASSUME NEW optsIn \in OptIns, ForwardInitialize(c, q, optsIn)
      PROVE  R!Opening
  <2>1. /\ phase = "PreInit" /\ Forward(c, q, "initialize")
        /\ UNCHANGED <<accepted, upstream>>
    BY <1>2 DEF ForwardInitialize, MayForwardInitialize
  <2>2. ~accepted /\ InFlight("initialize") = {} /\ UNCHANGED configured
    BY <2>1 DEF Accounts, HandshakeTracked, Forward
  <2>3. AdapterHandshake = "none"
    BY <2>2 DEF AdapterHandshake
  <2>4. \/ UNCHANGED atAdapter
        \/ upstream = "open" /\ InFlight("initialize")' # {}
    <3>1. CASE q # NoSeq /\ upstream = "open"
      <4> DEFINE r == [proxy |-> nextSeq, command |-> "initialize",
                       origin |-> PendingRequest(c, q)]
      <4>1. r.command = "initialize" /\ atAdapter' = atAdapter \cup {r}
        BY <2>1, <3>1 DEF Forward
      <4> HIDE DEF r
      <4>. QED BY <3>1, <4>1 DEF InFlight
    <3>. QED BY <2>1, <3>1 DEF Forward
  <2>5. UNCHANGED AdapterHandshake \/ (upstream = "open" /\ AdapterHandshake' = "asked")
    BY <2>1, <2>2, <2>4 DEF AdapterHandshake, InFlight
  <2>. QED BY <2>2, <2>3, <2>5 DEF R!Opening
<1>3. CASE ForwardConfigurationDone(c, q)
  <2>1. /\ phase # "Configured" /\ Forward(c, q, "configurationDone")
        /\ UNCHANGED <<accepted, upstream>>
    BY <1>3 DEF ForwardConfigurationDone
  <2>2. /\ configured = 0
        /\ UNCHANGED configured \/ (upstream = "open" /\ configured' = 1)
    BY <2>1 DEF Accounts, HandshakeTracked, Forward
  <2>3. UNCHANGED AdapterHandshake
    BY <2>1, ForwardOpensNothing DEF AdapterHandshake
  <2>. QED BY <2>2, <2>3 DEF R!Opening
<1>4. ASSUME NEW command \in {"launch", "terminate", "restart", "continue",
                              "threads"},
             Forward(c, q, command), UNCHANGED <<phase, accepted>>
      PROVE  R!Opening
  <2>1. UNCHANGED <<AdapterHandshake, configured>>
    BY <1>4, ForwardOpensNothing DEF AdapterHandshake
  <2>. QED BY <2>1 DEF R!Opening
<1>. QED BY <1>1, <1>2, <1>3, <1>4, RequestOpens

\* A request, other than a disconnect, is asked.
LEMMA RequestMaps ==
    ASSUME Accounts, NEW c \in Client, NEW q \in 0..MaxRequests,
           ClientRequest(c, q), ~Disconnect(c, q)
    PROVE  R!Ask(c)
<1> DEFINE new == PendingRequest(c, q)
<1>1. /\ OneMoreSent(c, q)
      /\ Absorbed(c, q) \/ Buffered(c, q) \/ Forwarded(c, q)
  BY RequestRoutes DEF Accounts
<1>2. sent' = R!Counted(c) /\ UNCHANGED clients
  BY <1>1 DEF OneMoreSent, R!Counted
<1>3. \/ awaiting' = awaiting \cup Asked(c, q)
      \/ awaiting' = (awaiting \cup Asked(c, q)) \ Delivered({new})
  BY <1>1 DEF Absorbed, Buffered, Forwarded, Settle, Delivered
<1>4. UNCHANGED <<upstream, asks, owed, doubled, misrouted>>
  <2>1. ClientStep(c)
    BY DEF ClientStep
  <2>2. Accounts'
    BY <2>1, AccountsStep DEF Next
  <2>. QED BY <2>2, NothingMisrouted, RequestFrame
<1>5. CASE Asked(c, q) = {}
  <2>1. Delivered({new}) = {}
    BY <1>5 DEF Asked, Delivered, Reachable, PendingRequest
  <2>. QED BY <1>2, <1>3, <1>4, <1>5, <2>1, RequestMapsOpening
           DEF R!Ask, R!broken
<1>6. CASE Asked(c, q) # {}
  <2>1. c \in clients /\ q = sent[c] + 1 /\ Asked(c, q) = {new}
    BY <1>1, <1>6 DEF Asked, OneMoreSent
  <2>2. new \notin awaiting /\ new = [client |-> c, seq |-> sent[c] + 1]
    BY <2>1 DEF PendingRequest, Accounts, AwaitedIsSent, HasSent, TypeOK,
       TypeConnections
  <2>3. Delivered({new}) \subseteq {new}
    BY DEF Delivered
  <2>4. UNCHANGED awaiting \/ awaiting' = awaiting \cup {new}
    BY <1>3, <2>1, <2>2, <2>3
  <2>. QED BY <1>2, <1>4, <2>1, <2>2, <2>4, RequestMapsOpening
           DEF R!Ask, R!broken
<1>. QED BY <1>5, <1>6

\* A client that disconnects or hangs up leaves.
LEMMA DepartMaps ==
    ASSUME Accounts, NEW c \in Client, Depart(c),
           sent' \in {sent, [sent EXCEPT ![c] = sent[c] + 1]}
    PROVE  R!Leave(c)
<1>1. /\ clients' = clients \ {c}
      /\ awaiting' = {a \in awaiting : a.client # c}
      /\ UNCHANGED <<upstream, accepted, atAdapter, configured, asks, misrouted>>
      /\ AnswerAdapter({reverse[p].adapterSeq : p \in HeldFor(c)})
  BY DEF Depart
<1>2. /\ owed' \subseteq owed /\ (upstream = "open" \/ UNCHANGED owed)
      /\ UNCHANGED doubled
  <2>1. upstream = "open" => ~doubled /\ {reverse[p].adapterSeq : p \in HeldFor(c)} \subseteq owed
    BY DEF Accounts, ReverseAccounted, HeldFor
  <2>2. doubled \in BOOLEAN
    BY DEF Accounts, TypeOK, TypeReverse
  <2>. QED BY <1>1, <2>1, <2>2 DEF AnswerAdapter
<1>. QED BY <1>1, <1>2 DEF R!Leave, R!Counted, R!broken, AdapterHandshake, InFlight

\* An answer of the adapter settles one request, or the handshake.
LEMMA AnswerMaps ==
    ASSUME Accounts, NEW r \in atAdapter, AdapterAnswer(r)
    PROVE  R!Answer \/ UNCHANGED R!vars
<1> DEFINE home == Origin(r) \cup Served(r)
<1>1. /\ atAdapter' = atAdapter \ {r}
      /\ awaiting' = awaiting \ Delivered(home)
      /\ UNCHANGED <<clients, sent, configured, upstream>>
  BY AnswerRoutes, AdapterFrame DEF Returned, RouteResponse, Settle
<1>2. UNCHANGED <<asks, owed, doubled>>
  BY DEF AdapterAnswer, InitializeSucceeds, InitializeFails, Answers,
         RestartFails
<1>3. UNCHANGED misrouted
  <2>1. Accounts'
    BY AccountsStep DEF Next
  <2>. QED BY <2>1, NothingMisrouted
<1>4. CASE r.command = "initialize" /\ ~accepted
  <2>1. AdapterHandshake = "asked"
    BY <1>4 DEF AdapterHandshake, InFlight
  <2>2. InFlight("initialize")' = {}
    BY <1>1, <1>4 DEF Accounts, HandshakeTracked, HandshakeOnce, InFlight
  <2>3. AdapterHandshake' \in {"none", "accepted"}
    BY <2>2 DEF AdapterHandshake
  <2>. QED BY <1>1, <1>2, <1>3, <2>1, <2>3 DEF R!Answer, R!broken
<1>5. CASE ~(r.command = "initialize" /\ ~accepted)
  <2>1. r.command # "initialize"
    BY <1>5 DEF AdapterAnswer, InitializeSucceeds, InitializeFails, Answers,
                RestartFails
  <2>2. UNCHANGED accepted /\ Served(r) = {}
    BY <2>1 DEF AdapterAnswer, InitializeSucceeds, InitializeFails, Answers,
                RestartFails, Served, SettlesHandshake
  <2>3. UNCHANGED AdapterHandshake
    BY <1>1, <2>1, <2>2 DEF AdapterHandshake, InFlight
  <2>4. CASE Delivered(home) = {}
    BY <1>1, <1>2, <1>3, <2>3, <2>4 DEF R!vars
  <2>5. CASE Delivered(home) # {}
    <3>1. PICK a \in awaiting : Delivered(home) = {a}
      BY <2>2, <2>5 DEF Delivered, Origin, Reachable, Accounts, RoutesIntact
    <3>. QED BY <1>1, <1>2, <1>3, <2>3, <3>1 DEF R!Answer, R!broken
  <2>. QED BY <2>4, <2>5
<1>. QED BY <1>4, <1>5

\* A client's answer to a reverse request is passed on, once.
LEMMA AnswerReverseMaps ==
    ASSUME Accounts, NEW c \in Client, NEW p \in DOMAIN reverse,
           AnswerReverse(c, p)
    PROVE  (\E a \in owed : R!AnswerBack(a)) \/ UNCHANGED R!vars
<1>1. /\ AnswerAdapter({reverse[p].adapterSeq})
      /\ UNCHANGED <<clients, sent, awaiting, upstream, accepted, atAdapter,
                     configured, asks, misrouted>>
  BY DEF AnswerReverse
<1>2. UNCHANGED AdapterHandshake
  BY <1>1 DEF AdapterHandshake, InFlight
<1>3. doubled \in BOOLEAN
  BY DEF Accounts, TypeOK, TypeReverse
<1>4. CASE upstream = "open"
  <2>1. ~doubled /\ reverse[p].adapterSeq \in owed
    BY <1>4 DEF Accounts, ReverseAccounted
  <2>2. owed' = owed \ {reverse[p].adapterSeq} /\ UNCHANGED doubled
    BY <1>1, <1>3, <1>4, <2>1 DEF AnswerAdapter
  <2>3. R!AnswerBack(reverse[p].adapterSeq)
    BY <1>1, <1>2, <1>4, <2>1, <2>2 DEF R!AnswerBack, R!broken
  <2>. QED BY <2>1, <2>3
<1>5. CASE upstream # "open"
  BY <1>1, <1>2, <1>3, <1>5 DEF AnswerAdapter, R!vars
<1>. QED BY <1>4, <1>5

\* The adapter asks.
LEMMA ReverseRequestMaps ==
    ASSUME NEW command \in AsksFor, ReverseRequest(command)
    PROVE  R!AskBack
BY DEF ReverseRequest, R!AskBack, R!broken, AdapterHandshake, InFlight

\* The way to the adapter is lost, or the session is closed.
LEMMA LosingMaps ==
    ASSUME UpstreamWriteFails \/ UpstreamLost \/ EndSession
    PROVE  R!Lose \/ R!Close
BY DEF UpstreamWriteFails, UpstreamLost, EndSession, R!Lose, R!Close, R!broken,
       R!adapterSide, AdapterHandshake, InFlight

\* Every step of the multiplexer is one of the relay, or none.
LEMMA StepMaps ==
    ASSUME Accounts, [Next]_vars
    PROVE  [R!Next]_(R!vars)
<1>1. ASSUME NEW c \in Client, ClientStep(c) \/ TaskStep(c)
      PROVE  [R!Next]_(R!vars)
  <2>1. \/ \E q \in 0..MaxRequests : ClientRequest(c, q) /\ ~Disconnect(c, q)
        \/ /\ Depart(c)
           /\ sent' \in {sent, [sent EXCEPT ![c] = sent[c] + 1]}
        \/ \E p \in DOMAIN reverse : AnswerReverse(c, p)
        \/ UNCHANGED relayVars
    BY <1>1 DEF ClientStep, TaskStep, ReadEnds, WriteFails, RecordHandle,
                CancelledReadDropped, Disconnect, Sends, relayVars
  <2>. QED BY <2>1, RequestMaps, DepartMaps, AnswerReverseMaps, StutterMaps
           DEF R!Next
<1>2. ASSUME AdapterEvent \/ StopAccepting \/ UNCHANGED vars
      PROVE  UNCHANGED R!vars
  <2>1. UNCHANGED relayVars
    BY <1>2 DEF AdapterEvent, InitializedEvent, StoppedEvent, ResumedEvent,
                StopAccepting, relayVars, vars
  <2>. QED BY <2>1, StutterMaps
<1>3. CASE Register
  BY <1>3, RegisterMaps DEF Accounts, R!Next
<1>4. CASE \E r \in atAdapter : AdapterAnswer(r)
  BY <1>4, AnswerMaps DEF R!Next
<1>5. CASE \E command \in AsksFor : ReverseRequest(command)
  BY <1>5, ReverseRequestMaps DEF R!Next
<1>6. CASE UpstreamWriteFails \/ UpstreamLost \/ EndSession
  BY <1>6, LosingMaps DEF R!Next
<1>. QED BY <1>1, <1>2, <1>3, <1>4, <1>5, <1>6 DEF Next, Boundary

\* For every number of clients and requests, for clients that obey no protocol
\* and connections that fail by halves: the multiplexer is a relay.
THEOREM MuxIsRelay == Spec => ImplementsRelay
<1>1. Init => R!Init
  BY DEF Init, R!Init, AdapterHandshake, InFlight
<1>2. Accounts /\ [Next]_vars => [R!Next]_(R!vars)
  BY StepMaps
<1>3. Accounts /\ [Next]_vars => Accounts'
  BY AccountsStep
<1>4. Init => Accounts
  BY AccountsInit
<1>. QED BY <1>1, <1>2, <1>3, <1>4, PTL DEF Spec, ImplementsRelay, R!Spec

-----------------------------------------------------------------------------
(* The boundary.                                                           *)

\* A session that is over has no way to its adapter, and a listed client has a
\* read task that nobody has cancelled.
Bounded ==
    /\ over => upstream = "none"
    /\ \A c \in clients : reader[c] \in {"fresh", "running"}

boundaryVars == <<adapterUp, upstream, accepting, over, reader, clients>>

\* The steps that concern the boundary.
LEMMA BoundarySteps ==
    ASSUME [Next]_vars
    PROVE  \/ UNCHANGED boundaryVars
           \/ Register
           \/ \E c \in Client :
                \/ RecordHandle(c) \/ ReadEnds(c) \/ CancelledReadDropped(c)
                \/ \E q \in 0..MaxRequests : Disconnect(c, q)
           \/ Boundary
<1>1. ASSUME NEW c \in Client, NEW q \in 0..MaxRequests,
             ClientRequest(c, q), ~Disconnect(c, q)
      PROVE  UNCHANGED boundaryVars
  BY <1>1, RequestFrame DEF boundaryVars
<1>2. ASSUME NEW c \in Client, WriteFails(c)
      PROVE  UNCHANGED boundaryVars
  BY <1>2 DEF WriteFails, boundaryVars
<1>3. ASSUME NEW c \in Client, NEW p \in DOMAIN reverse, AnswerReverse(c, p)
      PROVE  UNCHANGED boundaryVars
  BY <1>3 DEF AnswerReverse, boundaryVars
<1>4. ASSUME UNCHANGED worldVars PROVE UNCHANGED boundaryVars
  BY <1>4 DEF boundaryVars
<1>. QED BY <1>1, <1>2, <1>3, <1>4, AdapterFrame DEF Next, ClientStep, TaskStep, vars

\* Every step leaves the session bounded.
LEMMA BoundedStep ==
    ASSUME TypeOK, Bounded, [Next]_vars
    PROVE  Bounded'
<1> USE ClientsInClient DEF TypeOK, TypeConnections
<1>1. CASE UNCHANGED boundaryVars
  BY <1>1 DEF boundaryVars, Bounded
<1>2. CASE Register
  BY <1>2, MuxAssumption DEF Register, Bounded, Client
<1>3. ASSUME NEW c \in Client, RecordHandle(c) \/ CancelledReadDropped(c)
      PROVE  Bounded'
  <2>1. DOMAIN reader = Client /\ clients \subseteq Client
    OBVIOUS
  <2>2. CASE RecordHandle(c)
    BY <2>1, <2>2 DEF RecordHandle, Bounded
  <2>3. CASE CancelledReadDropped(c)
    BY <2>1, <2>3 DEF CancelledReadDropped, Bounded
  <2>. QED BY <1>3, <2>2, <2>3
<1>4. ASSUME NEW c \in Client, ReadEnds(c)
      PROVE  Bounded'
  BY <1>4 DEF ReadEnds, Depart, Bounded
<1>5. ASSUME NEW c \in Client, NEW q \in 0..MaxRequests, Disconnect(c, q)
      PROVE  Bounded'
  BY <1>5 DEF Disconnect, Depart, AbortAll, Bounded
<1>6. CASE Boundary
  BY <1>6 DEF Boundary, UpstreamWriteFails, UpstreamLost, EndSession, StopAccepting,
              Bounded
<1>. QED BY <1>1, <1>2, <1>3, <1>4, <1>5, <1>6, BoundarySteps

\* Every step is one of the boundary, or none.
LEMMA BoundaryMaps ==
    ASSUME TypeOK, Bounded, [Next]_vars
    PROVE  [B!Next]_(B!vars)
<1> USE ClientsInClient DEF TypeOK, TypeConnections, B!vars
<1>1. CASE UNCHANGED boundaryVars
  BY <1>1 DEF boundaryVars
<1>2. CASE Register
  <2> DEFINE c == clientCounter + 1
  <2>1. c \in Client /\ reader[c] = "unborn"
    BY <1>2, MuxAssumption DEF Register, Client
  <2>2. B!Take(c)
    BY <1>2, <2>1 DEF Register, B!Take
  <2>. QED BY <2>1, <2>2 DEF B!Next
<1>3. ASSUME NEW c \in Client, RecordHandle(c)
      PROVE  B!Next
  <2>1. B!Record(c)
    BY <1>3 DEF RecordHandle, B!Record
  <2>. QED BY <2>1 DEF B!Next
<1>4. ASSUME NEW c \in Client, ReadEnds(c) \/ CancelledReadDropped(c)
      PROVE  B!Next
  <2>1. CASE ReadEnds(c)
    <3>1. reader[c] = "cancelled" => c \notin clients
      BY DEF Bounded
    <3>2. B!HangUp(c)
      BY <2>1, <3>1 DEF ReadEnds, CanHandle, Depart, B!HangUp
    <3>. QED BY <3>2 DEF B!Next
  <2>2. CASE CancelledReadDropped(c)
    <3>1. c \notin clients /\ clients \ {c} = clients
      BY <2>2 DEF CancelledReadDropped, Bounded
    <3>2. B!HangUp(c)
      BY <2>2, <3>1 DEF CancelledReadDropped, B!HangUp
    <3>. QED BY <3>2 DEF B!Next
  <2>. QED BY <1>4, <2>1, <2>2
<1>5. ASSUME NEW c \in Client, NEW q \in 0..MaxRequests, Disconnect(c, q)
      PROVE  [B!Next]_(B!vars)
  <2>1. /\ reader' = AbortAll({c} \cap clients) /\ clients' = clients \ {c}
        /\ UNCHANGED <<adapterUp, upstream, accepting>>
    BY <1>5 DEF Disconnect, Depart
  <2>2. CASE c \in clients
    <3>1. B!Disconnect(c)
      BY <2>1, <2>2 DEF AbortAll, B!Disconnect, B!Strike
    <3>. QED BY <3>1 DEF B!Next
  <2>3. CASE c \notin clients
    BY <2>1, <2>3 DEF AbortAll
  <2>. QED BY <2>2, <2>3
<1>6. CASE EndSession
  <2>1. B!EndSession
    BY <1>6 DEF EndSession, AbortAll, B!EndSession, B!Strike
  <2>. QED BY <2>1 DEF B!Next
<1>7. CASE UpstreamLost
  <2>1. B!Lose
    BY <1>7 DEF UpstreamLost, B!Lose
  <2>. QED BY <2>1 DEF B!Next
<1>8. CASE StopAccepting
  <2>1. B!Close
    BY <1>8 DEF StopAccepting, Bounded, B!Close
  <2>. QED BY <2>1 DEF B!Next
<1>9. CASE UpstreamWriteFails
  BY <1>9 DEF UpstreamWriteFails
<1>. QED BY <1>1, <1>2, <1>3, <1>4, <1>5, <1>6, <1>7, <1>8, <1>9, BoundarySteps
         DEF Boundary

\* For every number of clients, whatever they ask and however the adapter answers:
\* the session takes, lists and closes clients as its boundary says.
THEOREM MuxIsBounded == Spec => ImplementsBoundary
<1>1. Init => B!Init
  BY DEF Init, B!Init
<1>2. Init => Bounded
  BY DEF Init, Bounded
<1>3. TypeOK /\ Bounded /\ [Next]_vars => [B!Next]_(B!vars)
  BY BoundaryMaps
<1>4. TypeOK /\ Bounded /\ [Next]_vars => Bounded'
  BY BoundedStep
<1>. QED BY <1>1, <1>2, <1>3, <1>4, TypeInit, TypeStep, PTL
         DEF Spec, ImplementsBoundary, B!Spec

=============================================================================
