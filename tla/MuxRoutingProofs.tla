------------------------ MODULE MuxRoutingProofs ------------------------
(***************************************************************************)
(* Responses find their way home, for every value of the constants and     *)
(* however undisciplined the clients are.                                  *)
(*                                                                         *)
(* ResponsesRouted is not inductive: that a response meets a client which  *)
(* waits for it depends on what the sequence map and the buffer hold, so   *)
(* the invariant is RoutesIntact.  A step changes the routes in one of     *)
(* few ways (RouteSteps), each treated once.                               *)
(***************************************************************************)
EXTENDS MuxTypeProofs

USE DEF worldVars, sessionVars, partyVars, connVars, lifecycleVars, argVars,
        handshakeVars, replayVars, seqVars, reverseVars, answerVars, viewVars,
        adapterVars, queueVars

routeVars == <<clients, sent, answerVars, pending, pendingInitialize,
               atAdapter>>

\* Client c sends request q and is answered, buffered or forwarded.
OneMoreSent(c, q) ==
    /\ q = sent[c] + 1 \/ q = NoSeq
    /\ sent' = [sent EXCEPT ![c] = sent[c] + 1]
    /\ UNCHANGED clients

Absorbed(c, q) ==
    /\ Settle(Asked(c, q), {PendingRequest(c, q)})
    /\ UNCHANGED <<pending, pendingInitialize, atAdapter>>

Buffered(c, q) ==
    /\ Settle(Asked(c, q), {})
    /\ pendingInitialize' = pendingInitialize \cup {PendingRequest(c, q)}
    /\ UNCHANGED <<pending, atAdapter>>

Forwarded(c, q) ==
    /\ Settle(Asked(c, q), {})
    /\ \E command \in AllCommands : Forward(c, q, command)
    /\ UNCHANGED pendingInitialize

\* A response goes home, and with it those buffered behind it.
Returned(r) ==
    /\ RouteResponse(r)
    /\ pendingInitialize' = pendingInitialize \ Served(r)
    /\ UNCHANGED <<clients, sent>>

\* A client leaves, by a request or by hanging up.
Left(c) ==
    /\ Depart(c)
    /\ sent' \in [Client -> Nat]
    /\ \A d \in Client : sent'[d] >= sent[d]

-----------------------------------------------------------------------------

\* A request, other than a disconnect, is absorbed, buffered or forwarded.
LEMMA RequestRoutes ==
    ASSUME TypeOK, NEW c \in Client, NEW q \in 0..MaxRequests,
           ClientRequest(c, q), ~Disconnect(c, q)
    PROVE  /\ OneMoreSent(c, q)
           /\ Absorbed(c, q) \/ Buffered(c, q) \/ Forwarded(c, q)
<1>1. OneMoreSent(c, q)
  BY RequestFrame, RequestSends DEF OneMoreSent, Sends
<1>2. Absorbed(c, q) \/ Buffered(c, q) \/ Forwarded(c, q)
  BY MuxAssumption
     DEF ClientRequest, InitializeFromCache, BufferInitialize,
         ForwardInitialize, AbsorbLaunch, ForwardOther, ForwardLaunch,
         ForwardConfigurationDone, ForwardTerminate, AbsorbTerminate,
         RejectRestart, ForwardRestart, Absorbed, Buffered, Forwarded,
         AllCommands
<1>. QED BY <1>1, <1>2

\* An answer of the adapter returns one response.
LEMMA AnswerRoutes ==
    ASSUME NEW r \in atAdapter, AdapterAnswer(r)
    PROVE  Returned(r)
<1>1. RouteResponse(r) /\ UNCHANGED <<clients, sent>>
  BY DEF AdapterAnswer, InitializeSucceeds, InitializeFails, Answers,
         RestartFails
<1>2. pendingInitialize' = pendingInitialize \ Served(r)
  BY DEF AdapterAnswer, InitializeSucceeds, InitializeFails, Answers,
         RestartFails, Served, SettlesHandshake
<1>. QED BY <1>1, <1>2 DEF Returned

\* Everything a step can do to the routes.
LEMMA RouteSteps ==
    ASSUME TypeOK, [Next]_vars
    PROVE  \/ UNCHANGED routeVars
           \/ Register
           \/ \E c \in Client, q \in 0..MaxRequests :
                /\ OneMoreSent(c, q)
                /\ Absorbed(c, q) \/ Buffered(c, q) \/ Forwarded(c, q)
           \/ \E c \in Client : Left(c)
           \/ \E r \in atAdapter : Returned(r)
           \/ UpstreamLost
           \/ EndSession
<1>1. ASSUME NEW c \in Client, ClientStep(c) \/ TaskStep(c)
      PROVE  \/ UNCHANGED routeVars
             \/ Depart(c) /\ UNCHANGED sent
             \/ \E q \in 0..MaxRequests : ClientRequest(c, q)
  BY <1>1 DEF ClientStep, TaskStep, ReadEnds, WriteFails, AnswerReverse,
              RecordHandle, CancelledReadDropped, routeVars
<1>2. ASSUME NEW c \in Client,
             \/ Depart(c) /\ UNCHANGED sent
             \/ \E q \in 0..MaxRequests : Disconnect(c, q)
      PROVE  Left(c)
  <2>1. Depart(c)
    BY <1>2 DEF Disconnect
  <2>2. sent' = sent \/ sent' = [sent EXCEPT ![c] = sent[c] + 1]
    BY <1>2 DEF Disconnect, Sends
  <2>. QED BY <2>1, <2>2 DEF Left, TypeOK, TypeConnections
<1>3. ASSUME \/ AdapterEvent \/ UpstreamWriteFails \/ StopAccepting
             \/ \E command \in AsksFor : ReverseRequest(command)
      PROVE  UNCHANGED routeVars
  BY <1>3 DEF AdapterEvent, InitializedEvent, StoppedEvent, ResumedEvent,
              ReverseRequest, UpstreamWriteFails, StopAccepting, routeVars
<1>. QED BY <1>1, <1>2, <1>3, RequestRoutes, AnswerRoutes
         DEF Next, Boundary, vars, routeVars

-----------------------------------------------------------------------------

\* A request sent, whatever becomes of it, keeps every route: its seq is new,
\* so it is no request that has a route already.
LEMMA SendKeepsRoutes ==
    ASSUME TypeOK, RoutesIntact,
           NEW c \in Client, NEW q \in 0..MaxRequests, OneMoreSent(c, q),
           Absorbed(c, q) \/ Buffered(c, q) \/ Forwarded(c, q)
    PROVE  RoutesIntact'
<1> DEFINE new == PendingRequest(c, q)
<1>1. /\ sent \in [Client -> Nat] /\ sent[c] \in Nat
      /\ \A d \in Client : sent'[d] = IF d = c THEN sent[c] + 1 ELSE sent[d]
      /\ clients' = clients /\ (q = sent[c] + 1 \/ q = 0)
  BY DEF OneMoreSent, TypeOK, TypeConnections, NoSeq
<1>2. /\ \A p \in DOMAIN pending : pending[p] \in Requests
      /\ pendingInitialize \subseteq Requests
  BY DEF TypeOK, TypeRouting, TypeHandshake
<1>3. \A a \in Requests : HasSent(a) => HasSent(a)' /\ a # new
  BY <1>1 DEF HasSent, Requests, PendingRequest
<1>4. new.client = c /\ new.seq = q /\ (q # NoSeq => HasSent(new)')
  BY <1>1 DEF HasSent, PendingRequest, NoSeq
<1>5. \A a \in awaiting : a # new => a \in awaiting'
  BY DEF Absorbed, Buffered, Forwarded, Settle, Delivered
<1>6. ~misrouted'
  <2>1. Delivered({new}) \subseteq Asked(c, q) /\ Delivered({}) = {}
    BY DEF Delivered, Asked, Reachable, PendingRequest
  <2>2. ~misrouted
    BY DEF RoutesIntact, ResponsesRouted
  <2>. QED BY <2>1, <2>2 DEF Absorbed, Buffered, Forwarded, Settle
<1>7. CASE Absorbed(c, q)
  <2>1. UNCHANGED <<pending, pendingInitialize, atAdapter>>
    BY <1>7 DEF Absorbed
  <2>. QED BY <1>1, <1>2, <1>3, <1>5, <1>6, <2>1
           DEF RoutesIntact, ResponsesRouted
<1>8. CASE Buffered(c, q)
  <2>1. /\ UNCHANGED <<pending, atAdapter>>
        /\ pendingInitialize' = pendingInitialize \cup {new}
        /\ c \in clients /\ q # NoSeq => new \in awaiting'
    BY <1>8 DEF Buffered, Settle, Delivered, Asked
  <2>. QED BY <1>1, <1>2, <1>3, <1>4, <1>5, <1>6, <2>1
           DEF RoutesIntact, ResponsesRouted
<1>9. CASE Forwarded(c, q)
  <2>1. /\ UNCHANGED pendingInitialize
        /\ c \in clients /\ q # NoSeq => new \in awaiting'
    BY <1>9 DEF Forwarded, Settle, Delivered, Asked
  <2>2. CASE q = NoSeq
    <3>1. UNCHANGED <<pending, atAdapter>>
      BY <1>9, <2>2 DEF Forwarded, Forward
    <3>. QED BY <1>1, <1>2, <1>3, <1>5, <1>6, <2>1, <3>1
             DEF RoutesIntact, ResponsesRouted
  <2>3. CASE q # NoSeq
    <3>1. PICK command \in AllCommands : Forward(c, q, command)
      BY <1>9 DEF Forwarded
    <3>2. /\ pending' = Insert(pending, nextSeq, new)
          /\ \A r \in atAdapter' :
               r \in atAdapter \/ (r.proxy = nextSeq /\ r.origin = new)
      BY <2>3, <3>1 DEF Forward, Allocate
    <3>3. /\ nextSeq \notin DOMAIN pending
          /\ \A r \in atAdapter : r.proxy # nextSeq
      BY DEF TypeOK, TypeRouting
    <3>4. /\ DOMAIN pending' = DOMAIN pending \cup {nextSeq}
          /\ pending'[nextSeq] = new
          /\ \A p \in DOMAIN pending : pending'[p] = pending[p]
      BY <3>2, <3>3 DEF Insert
    <3>5. \A r \in atAdapter' : r.proxy \in DOMAIN pending' =>
                                  pending'[r.proxy] = r.origin
      BY <3>2, <3>3, <3>4 DEF RoutesIntact, ResponsesRouted
    <3>6. \A p \in DOMAIN pending' :
            /\ HasSent(pending[p])'
            /\ pending'[p].client \in clients' => pending'[p] \in awaiting'
      BY <1>1, <1>2, <1>3, <1>4, <1>5, <2>1, <2>3, <3>4 DEF RoutesIntact
    <3>7. new \notin pendingInitialize
      BY <1>1, <1>2, <1>3, <1>4, <2>3 DEF RoutesIntact
    <3>8. \A p \in DOMAIN pending' : pending'[p] \notin pendingInitialize'
      BY <2>1, <3>4, <3>7 DEF RoutesIntact
    <3>9. \A p, s \in DOMAIN pending' : pending'[p] = pending'[s] => p = s
      BY <1>2, <1>3, <3>4 DEF RoutesIntact
    <3>10. \A a \in pendingInitialize' : a.seq # NoSeq =>
             HasSent(a)' /\ (a.client \in clients' => a \in awaiting')
      BY <1>1, <1>2, <1>3, <1>5, <2>1 DEF RoutesIntact
    <3>. QED BY <1>6, <3>5, <3>6, <3>8, <3>9, <3>10
             DEF RoutesIntact, ResponsesRouted
  <2>. QED BY <2>2, <2>3
<1>. QED BY <1>7, <1>8, <1>9

\* A response settles its own request and those it serves, no other: the map
\* names a request once, and none that is buffered.
LEMMA ReturnKeepsRoutes ==
    ASSUME TypeOK, RoutesIntact, NEW r \in atAdapter, Returned(r)
    PROVE  RoutesIntact'
<1> DEFINE home == Origin(r) \cup Served(r)
<1>1. /\ pending' = Resolve(pending, r.proxy) /\ Settle({}, home)
      /\ atAdapter' \subseteq atAdapter
      /\ pendingInitialize' = pendingInitialize \ Served(r)
      /\ UNCHANGED <<clients, sent>>
  BY DEF Returned, RouteResponse
<1>2. /\ DOMAIN pending' = DOMAIN pending \ {r.proxy}
      /\ \A p \in DOMAIN pending' : pending'[p] = pending[p]
  BY <1>1 DEF Resolve, Restrict
<1>3. Served(r) \subseteq pendingInitialize
  BY DEF Served
<1>4. Delivered(home) \subseteq awaiting
  BY <1>3 DEF Delivered, Origin, Reachable, RoutesIntact
<1>5. ~misrouted' /\ awaiting' = awaiting \ Delivered(home)
  BY <1>1, <1>4 DEF Settle, RoutesIntact, ResponsesRouted
<1>6. \A p \in DOMAIN pending' : pending[p] \notin home
  BY <1>2, <1>3 DEF Origin, RoutesIntact
<1>7. \A a \in pendingInitialize' : a \notin home
  BY <1>1 DEF Origin, RoutesIntact
<1>8. \A a : HasSent(a)' = HasSent(a)
  BY <1>1 DEF HasSent
<1>9. Delivered(home) \subseteq home
  BY DEF Delivered
<1> HIDE DEF home
<1>10. \A p \in DOMAIN pending' :
         /\ HasSent(pending[p])'
         /\ pending'[p].client \in clients' => pending'[p] \in awaiting'
         /\ pending'[p] \notin pendingInitialize'
  BY <1>1, <1>2, <1>5, <1>6, <1>8, <1>9 DEF RoutesIntact
<1>11. \A a \in pendingInitialize' : a.seq # NoSeq =>
         HasSent(a)' /\ (a.client \in clients' => a \in awaiting')
  BY <1>1, <1>5, <1>7, <1>8, <1>9 DEF RoutesIntact
<1>12. /\ \A p, s \in DOMAIN pending' : pending'[p] = pending'[s] => p = s
       /\ ResponsesRouted'
  BY <1>1, <1>2, <1>5 DEF RoutesIntact, ResponsesRouted
<1>. QED BY <1>10, <1>11, <1>12 DEF RoutesIntact

\* What a departing client leaves behind is every route but its own.
LEMMA LeavingKeepsRoutes ==
    ASSUME TypeOK, RoutesIntact, NEW c \in Client, Left(c)
    PROVE  RoutesIntact'
<1>1. /\ clients' = clients \ {c}
      /\ pending' = Cleanup(pending, c)
      /\ pendingInitialize' = {a \in pendingInitialize : a.client # c}
      /\ awaiting' = {a \in awaiting : a.client # c}
      /\ UNCHANGED <<misrouted, atAdapter>>
      /\ \A d \in Client : sent'[d] >= sent[d]
  BY DEF Left, Depart
<1>2. /\ DOMAIN pending' = {p \in DOMAIN pending : pending[p].client # c}
      /\ \A p \in DOMAIN pending' : pending'[p] = pending[p]
  BY <1>1 DEF Cleanup, Restrict
<1>3. /\ sent \in [Client -> Nat]
      /\ \A p \in DOMAIN pending : pending[p] \in Requests
      /\ pendingInitialize \subseteq Requests
  BY DEF TypeOK, TypeConnections, TypeRouting, TypeHandshake
<1>4. \A d \in Client : sent'[d] \in Nat
  BY DEF Left
<1>5. \A a \in Requests : HasSent(a) => HasSent(a)'
  BY <1>1, <1>3, <1>4 DEF HasSent, Requests
<1>. QED BY <1>1, <1>2, <1>3, <1>5 DEF RoutesIntact, ResponsesRouted

-----------------------------------------------------------------------------

\* The routes are intact before anybody connects.
LEMMA RoutesInit == ASSUME Init PROVE RoutesIntact
BY DEF Init, RoutesIntact, ResponsesRouted, EmptyMap

\* Every step keeps every route.
LEMMA RoutesStep == ASSUME TypeOK, RoutesIntact, [Next]_vars PROVE RoutesIntact'
<1>1. CASE UNCHANGED routeVars
  BY <1>1 DEF routeVars, RoutesIntact, ResponsesRouted, HasSent
<1>2. CASE Register
  <2>1. /\ clients' = clients \cup {clientCounter + 1}
        /\ UNCHANGED <<sent, answerVars, pending, pendingInitialize, atAdapter>>
    BY <1>2 DEF Register
  <2>2. sent[clientCounter + 1] = 0
    BY <1>2, MuxAssumption DEF Register, TypeOK, TypeConnections, Client
  <2>3. \A a : HasSent(a)' = HasSent(a)
    BY <2>1 DEF HasSent
  <2>4. \A a : HasSent(a) => a.client # clientCounter + 1
    BY <2>2 DEF HasSent
  <2>. QED BY <2>1, <2>3, <2>4 DEF RoutesIntact, ResponsesRouted
<1>3. CASE UpstreamLost
  <2>1. /\ atAdapter' = {}
        /\ UNCHANGED <<clients, sent, answerVars, pending, pendingInitialize>>
    BY <1>3 DEF UpstreamLost
  <2>. QED BY <2>1 DEF RoutesIntact, ResponsesRouted, HasSent
<1>4. CASE EndSession
  <2>1. /\ clients' = {}
        /\ UNCHANGED <<sent, misrouted, pending, pendingInitialize, atAdapter>>
    BY <1>4 DEF EndSession
  <2>. QED BY <2>1 DEF RoutesIntact, ResponsesRouted, HasSent
<1>. QED BY <1>1, <1>2, <1>3, <1>4, RouteSteps, SendKeepsRoutes,
            ReturnKeepsRoutes, LeavingKeepsRoutes

\* For every number of clients and requests, and for clients that obey no
\* protocol: the routes stay intact.
THEOREM RoutesStayIntact == Spec => []RoutesIntact
BY TypeInit, TypeStep, RoutesInit, RoutesStep, PTL DEF Spec

\* No response goes to a client that does not wait for it, under any seq but
\* the one that client sent.
THEOREM EveryResponseRouted == Spec => []ResponsesRouted
<1>1. RoutesIntact => ResponsesRouted
  BY DEF RoutesIntact
<1>. QED BY <1>1, RoutesStayIntact, PTL

=============================================================================
