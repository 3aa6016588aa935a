------------------------ MODULE MuxSessionProofs ------------------------
(***************************************************************************)
(* One session shared by many clients, for every value of the constants:   *)
(* the adapter sees one handshake, late joiners are caught up, a departed  *)
(* client leaves nothing behind and no request is lost.                    *)
(***************************************************************************)
EXTENDS MuxRoutingProofs, WellFoundedInduction

USE DEF worldVars, sessionVars, partyVars, connVars, lifecycleVars, argVars,
        handshakeVars, replayVars, seqVars, reverseVars, answerVars, viewVars,
        adapterVars, queueVars

-----------------------------------------------------------------------------
(* One handshake.                                                          *)

\* The phase says what the adapter has been asked: as long as it is PreInit no
\* initialize is in flight and none was accepted, and until it is Configured no
\* configurationDone has gone out.
HandshakeTracked ==
    /\ HandshakeOnce
    /\ InFlight("initialize") # {} => phase # "PreInit"
    /\ accepted => phase # "PreInit"
    /\ phase # "Configured" => configured = 0

opening == <<phase, accepted, atAdapter, configured>>

\* A request that is neither initialize nor configurationDone opens nothing.
LEMMA ForwardOpensNothing ==
    ASSUME NEW c, NEW q, NEW command, Forward(c, q, command),
           command # "initialize"
    PROVE  /\ InFlight("initialize")' = InFlight("initialize")
           /\ command # "configurationDone" => UNCHANGED configured
BY DEF Forward, InFlight

\* What a request can do to the handshake.
LEMMA RequestOpens ==
    ASSUME NEW c \in Client, NEW q \in 0..MaxRequests, ClientRequest(c, q)
    PROVE  \/ UNCHANGED opening
           \/ \E optsIn \in OptIns : ForwardInitialize(c, q, optsIn)
           \/ ForwardConfigurationDone(c, q)
           \/ /\ \E command \in {"launch", "terminate", "restart",
                                 "continue", "threads"} :
                   Forward(c, q, command)
              /\ UNCHANGED <<phase, accepted>>
BY DEF ClientRequest, InitializeFromCache, BufferInitialize, AbsorbLaunch,
       ForwardOther, ForwardLaunch, ForwardTerminate, AbsorbTerminate,
       Disconnect, Depart, RejectRestart, ForwardRestart, opening

\* Everything a step can do to the handshake.
LEMMA OpeningSteps ==
    ASSUME [Next]_vars
    PROVE  \/ UNCHANGED opening
           \/ \E c \in Client, q \in 0..MaxRequests :
                \/ \E optsIn \in OptIns : ForwardInitialize(c, q, optsIn)
                \/ ForwardConfigurationDone(c, q)
                \/ /\ \E command \in {"launch", "terminate", "restart",
                                      "continue", "threads"} :
                        Forward(c, q, command)
                   /\ UNCHANGED <<phase, accepted>>
           \/ \E r \in atAdapter : AdapterAnswer(r)
           \/ atAdapter' = {} /\ UNCHANGED <<phase, accepted, configured>>
<1>1. ASSUME NEW c \in Client, ClientStep(c) \/ TaskStep(c)
      PROVE  UNCHANGED opening \/ \E q \in 0..MaxRequests : ClientRequest(c, q)
  BY <1>1 DEF ClientStep, TaskStep, ReadEnds, Depart, WriteFails, AnswerReverse,
              RecordHandle, CancelledReadDropped, opening
<1>2. ASSUME \/ Register \/ AdapterEvent \/ Boundary \/ UNCHANGED vars
             \/ \E command \in AsksFor : ReverseRequest(command)
      PROVE  \/ UNCHANGED opening
             \/ atAdapter' = {} /\ UNCHANGED <<phase, accepted, configured>>
  BY <1>2 DEF Register, AdapterEvent, InitializedEvent, StoppedEvent,
              ResumedEvent, ReverseRequest, Boundary, UpstreamWriteFails,
              UpstreamLost, EndSession, StopAccepting, opening, vars
<1>. QED BY <1>1, <1>2, RequestOpens DEF Next

\* No step opens a second handshake.
LEMMA HandshakeStep ==
    ASSUME TypeOK, HandshakeTracked, [Next]_vars
    PROVE  HandshakeTracked'
<1>1. CASE UNCHANGED opening
  BY <1>1 DEF opening, HandshakeTracked, HandshakeOnce, InFlight
<1>2. ASSUME NEW c \in Client, NEW q \in 0..MaxRequests, NEW optsIn \in OptIns,
             ForwardInitialize(c, q, optsIn)
      PROVE  HandshakeTracked'
  <2>1. /\ phase = "PreInit" /\ phase' = "Initializing"
        /\ Forward(c, q, "initialize") /\ UNCHANGED accepted
    BY <1>2 DEF ForwardInitialize, MayForwardInitialize
  <2>2. InFlight("initialize") = {} /\ ~accepted
    BY <2>1 DEF HandshakeTracked
  <2>3. UNCHANGED configured
    BY <2>1 DEF Forward
  <2>4. \A r, s \in InFlight("initialize")' : r = s
    BY <2>1, <2>2 DEF Forward, InFlight
  <2>. QED BY <2>1, <2>2, <2>3, <2>4 DEF HandshakeTracked, HandshakeOnce
<1>3. ASSUME NEW c \in Client, NEW q \in 0..MaxRequests,
             ForwardConfigurationDone(c, q)
      PROVE  HandshakeTracked'
  <2>1. /\ phase # "Configured" /\ phase' = "Configured"
        /\ Forward(c, q, "configurationDone") /\ UNCHANGED accepted
    BY <1>3 DEF ForwardConfigurationDone, Configure
  <2>2. configured' \in {0, 1}
    BY <2>1 DEF Forward, HandshakeTracked
  <2>3. InFlight("initialize")' = InFlight("initialize")
    BY <2>1, ForwardOpensNothing
  <2>. QED BY <2>1, <2>2, <2>3 DEF HandshakeTracked, HandshakeOnce
<1>4. ASSUME NEW c \in Client, NEW q \in 0..MaxRequests,
             NEW command \in {"launch", "terminate", "restart", "continue",
                              "threads"},
             Forward(c, q, command), UNCHANGED <<phase, accepted>>
      PROVE  HandshakeTracked'
  BY <1>4, ForwardOpensNothing DEF HandshakeTracked, HandshakeOnce
<1>5. ASSUME NEW r \in atAdapter, AdapterAnswer(r)
      PROVE  HandshakeTracked'
  <2>1. atAdapter' = atAdapter \ {r} /\ UNCHANGED configured
    BY <1>5 DEF AdapterAnswer, InitializeSucceeds, InitializeFails, Answers,
                RestartFails, RouteResponse
  <2>2. InFlight("initialize")' = InFlight("initialize") \ {r}
    BY <2>1 DEF InFlight
  <2>3. CASE UNCHANGED <<phase, accepted>>
    BY <2>1, <2>2, <2>3 DEF HandshakeTracked, HandshakeOnce
  <2>4. CASE r.command = "initialize" /\ ~UNCHANGED <<phase, accepted>>
    <3>1. InFlight("initialize")' = {} /\ ~accepted /\ phase # "PreInit"
      BY <2>2, <2>4 DEF InFlight, HandshakeTracked, HandshakeOnce
    <3>2. \/ accepted' = TRUE /\ phase' \in {phase, "Initialized"}
          \/ accepted' = FALSE /\ phase' \in {phase, "PreInit"}
      BY <1>5, <2>4, <3>1
         DEF AdapterAnswer, InitializeSucceeds, InitializeFails, Answers,
             RestartFails, TypeOK, TypeHandshake
    <3>3. phase' # "Configured" => phase # "Configured"
      BY <1>5, <2>4 DEF AdapterAnswer, InitializeSucceeds, InitializeFails,
                        Answers, RestartFails, SettlesHandshake
    <3>. QED BY <2>1, <3>1, <3>2, <3>3 DEF HandshakeTracked, HandshakeOnce
  <2>. QED BY <1>5, <2>3, <2>4
           DEF AdapterAnswer, InitializeSucceeds, InitializeFails, Answers,
               RestartFails
<1>6. CASE atAdapter' = {} /\ UNCHANGED <<phase, accepted, configured>>
  BY <1>6 DEF HandshakeTracked, HandshakeOnce, InFlight
<1>. QED BY <1>1, <1>2, <1>3, <1>4, <1>5, <1>6, OpeningSteps

\* Nothing is in flight at first.
LEMMA HandshakeInit == ASSUME Init PROVE HandshakeTracked
BY DEF Init, HandshakeTracked, HandshakeOnce, InFlight

\* Whatever initialize and configurationDone requests however many clients
\* send, in whatever order, and whatever the adapter answers: it never has two
\* initializes at once, never one after it accepted, and gets at most one
\* configurationDone.
THEOREM OneHandshake == Spec => []HandshakeOnce
<1>1. HandshakeTracked => HandshakeOnce
  BY DEF HandshakeTracked
<1>. QED BY <1>1, TypeInit, TypeStep, HandshakeInit, HandshakeStep, PTL DEF Spec

-----------------------------------------------------------------------------
(* The cached stop.                                                        *)

\* What a step can do to the cached stop and to the debuggee it speaks of: an
\* event sets both, a restart forgets the cached one, and an answer or the loss
\* of the adapter may leave the debuggee at no stop.
LEMMA StopMoves ==
    ASSUME [Next]_vars
    PROVE  \/ UNCHANGED <<lastStopped, halted, rerunning>>
           \/ lastStopped' = halted'
           \/ lastStopped' = NoStop /\ rerunning' /\ UNCHANGED halted
           \/ halted' = NoStop /\ UNCHANGED <<lastStopped, rerunning>>
<1>1. CASE StoppedEvent \/ ResumedEvent
  BY <1>1 DEF StoppedEvent, ResumedEvent
<1>2. ASSUME NEW r \in atAdapter, AdapterAnswer(r)
      PROVE  /\ UNCHANGED <<lastStopped, rerunning>>
             /\ UNCHANGED halted \/ halted' = NoStop
  BY <1>2 DEF AdapterAnswer, InitializeSucceeds, InitializeFails, Answers,
              RestartFails
<1>3. ASSUME NEW c \in Client, NEW q \in 0..MaxRequests, ForwardRestart(c, q)
      PROVE  lastStopped' = NoStop /\ rerunning' /\ UNCHANGED halted
  BY <1>3 DEF ForwardRestart
<1>4. ASSUME NEW c \in Client, ClientStep(c) \/ TaskStep(c),
             ~\E q \in 0..MaxRequests : ForwardRestart(c, q)
      PROVE  UNCHANGED <<lastStopped, halted, rerunning>>
  <2>1. ASSUME NEW q \in 0..MaxRequests, ClientRequest(c, q)
        PROVE  UNCHANGED <<lastStopped, halted, rerunning>>
    BY <1>4, <2>1 DEF ClientRequest, InitializeFromCache, BufferInitialize,
       ForwardInitialize, AbsorbLaunch, ForwardOther, ForwardLaunch,
       ForwardConfigurationDone, ForwardTerminate, AbsorbTerminate, Disconnect,
       Depart, RejectRestart
  <2>. QED BY <1>4, <2>1 DEF ClientStep, TaskStep, ReadEnds, Depart, WriteFails,
           AnswerReverse, RecordHandle, CancelledReadDropped
<1>5. ASSUME \/ Register \/ InitializedEvent \/ Boundary \/ UNCHANGED vars
             \/ \E command \in AsksFor : ReverseRequest(command)
      PROVE  /\ UNCHANGED <<lastStopped, rerunning>>
             /\ UNCHANGED halted \/ halted' = NoStop
  BY <1>5 DEF Register, InitializedEvent, ReverseRequest, Boundary,
              UpstreamWriteFails, UpstreamLost, EndSession, StopAccepting, vars
<1>. QED BY <1>1, <1>2, <1>3, <1>4, <1>5 DEF Next, AdapterEvent

\* Whatever the clients and the adapter do, the stop the debuggee sits at is
\* cached for late joiners, unless a restart was forwarded since.
THEOREM StopsAreKept == Spec => []StopKept
<1>1. Init => StopKept
  BY DEF Init, StopKept
<1>2. StopKept /\ [Next]_vars => StopKept'
  BY StopMoves DEF StopKept
<1>. QED BY <1>1, <1>2, PTL DEF Spec

-----------------------------------------------------------------------------
(* Late joiners.                                                           *)

\* What makes a joiner caught up is what holds before it joins: nothing is
\* cached and nobody heard of a stop before the adapter accepted an initialize,
\* a client that is yet to connect has heard of none, and a connected one, told
\* or not that its initialize succeeded, has heard of none but the cached one.
JoinersTracked ==
    /\ JoinersCaughtUp
    /\ \A c \in Client : c > clientCounter => view[c] = NoStop
    /\ ~accepted => /\ ~initializedEvent /\ lastStopped = NoStop
                    /\ \A c \in Client : view[c] = NoStop
    /\ \A c \in Reachable : c \notin detached =>
         view[c] \in {NoStop, lastStopped} \/ (rerunning /\ lastStopped = NoStop)

hearingVars == <<clients, broken, clientCounter, viewVars, replayVars, accepted,
                 rerunning>>

\* Everything a step can do to what clients have heard.
LEMMA HearingSteps ==
    ASSUME [Next]_vars
    PROVE  \/ UNCHANGED hearingVars
           \/ \E c \in Client, q \in 0..MaxRequests :
                \/ \E optsIn \in OptIns : InitializeFromCache(c, q, optsIn)
                \/ AbsorbTerminate(c, q)
                \/ ForwardRestart(c, q)
           \/ \E c \in Client : Depart(c) \/ WriteFails(c)
           \/ \E r \in atAdapter, offered \in Offers :
                InitializeSucceeds(r, offered)
           \/ AdapterEvent \/ Register \/ UpstreamLost \/ EndSession
<1>1. ASSUME NEW c \in Client, NEW q \in 0..MaxRequests, ClientRequest(c, q)
      PROVE  \/ UNCHANGED hearingVars
             \/ \E optsIn \in OptIns : InitializeFromCache(c, q, optsIn)
             \/ AbsorbTerminate(c, q) \/ ForwardRestart(c, q) \/ Depart(c)
  BY <1>1 DEF ClientRequest, BufferInitialize, ForwardInitialize, AbsorbLaunch,
              ForwardOther, ForwardLaunch, ForwardConfigurationDone,
              ForwardTerminate, Disconnect, RejectRestart, hearingVars
<1>2. ASSUME NEW c \in Client, ClientStep(c) \/ TaskStep(c)
      PROVE  \/ UNCHANGED hearingVars \/ Depart(c) \/ WriteFails(c)
             \/ \E q \in 0..MaxRequests : ClientRequest(c, q)
  BY <1>2 DEF ClientStep, TaskStep, ReadEnds, AnswerReverse, RecordHandle,
              CancelledReadDropped, hearingVars
<1>3. ASSUME NEW r \in atAdapter, AdapterAnswer(r)
      PROVE  \/ UNCHANGED hearingVars
             \/ \E offered \in Offers : InitializeSucceeds(r, offered)
  BY <1>3 DEF AdapterAnswer, InitializeFails, Answers, RestartFails, hearingVars
<1>4. ASSUME \/ UpstreamWriteFails \/ StopAccepting \/ UNCHANGED vars
             \/ \E command \in AsksFor : ReverseRequest(command)
      PROVE  UNCHANGED hearingVars
  BY <1>4 DEF ReverseRequest, UpstreamWriteFails, StopAccepting, hearingVars,
              vars
<1>. QED BY <1>1, <1>2, <1>3, <1>4 DEF Next, Boundary

\* No step leaves a joiner behind.
LEMMA JoinersStep ==
    ASSUME TypeOK, JoinersTracked, [Next]_vars
    PROVE  JoinersTracked'
<1> USE DEF JoinersTracked, JoinersCaughtUp, Reachable
<1>0. /\ clients \subseteq Client /\ clients \subseteq 1..clientCounter
      /\ view \in [Client -> 0..MaxStops]
      /\ clientCounter \in Nat /\ joined \subseteq clients
  BY ClientsInClient DEF TypeOK, TypeConnections, TypeViews
<1>1. CASE UNCHANGED hearingVars
  BY <1>1 DEF hearingVars
<1>2. ASSUME NEW c \in Client, NEW q \in 0..MaxRequests, NEW optsIn \in OptIns,
             InitializeFromCache(c, q, optsIn)
      PROVE  JoinersTracked'
  <2>1. /\ UNCHANGED <<clients, broken, clientCounter, detached, replayVars,
                       accepted, rerunning>>
        /\ joined' = joined \cup ({c} \cap Reachable)
        /\ RespondWithCachedInitialize({PendingRequest(c, q)})
    BY <1>2 DEF InitializeFromCache
  <2>2. Senders({PendingRequest(c, q)}) = {c}
    BY DEF Senders, PendingRequest
  <2>3. /\ ready' = IF initializedEvent THEN ready \cup ({c} \cap Reachable)
                    ELSE ready
        /\ \A d \in Client : view'[d] =
             IF d = c /\ c \in Reachable /\ lastStopped # NoStop
             THEN lastStopped ELSE view[d]
    BY <2>1, <2>2 DEF RespondWithCachedInitialize, HearStop
  <2>. QED BY <1>0, <2>1, <2>3
<1>3. ASSUME NEW c \in Client, NEW q \in 0..MaxRequests, AbsorbTerminate(c, q)
      PROVE  JoinersTracked'
  <2>1. /\ UNCHANGED <<clients, broken, clientCounter, joined, ready,
                       replayVars, accepted, rerunning>>
        /\ detached' = detached \cup ({c} \cap Reachable)
        /\ \A d \in Client : view'[d] =
             IF d = c /\ c \in Reachable THEN NoStop ELSE view[d]
    BY <1>3 DEF AbsorbTerminate, HearStop
  <2>. QED BY <1>0, <2>1
<1>4. ASSUME NEW c \in Client, NEW q \in 0..MaxRequests, ForwardRestart(c, q)
      PROVE  JoinersTracked'
  <2>1. /\ UNCHANGED <<clients, broken, clientCounter, viewVars,
                       initializedEvent, accepted>>
        /\ lastStopped' = NoStop /\ rerunning' = TRUE
    BY <1>4 DEF ForwardRestart
  <2>. QED BY <1>0, <2>1
<1>5. ASSUME NEW c \in Client, Depart(c)
      PROVE  JoinersTracked'
  <2>1. /\ UNCHANGED <<broken, clientCounter, replayVars, accepted, rerunning>>
        /\ clients' = clients \ {c} /\ joined' = joined \ {c}
        /\ ready' = ready \ {c} /\ detached' = detached \ {c}
        /\ \A d \in Client : view'[d] = IF d = c THEN NoStop ELSE view[d]
    BY <1>5 DEF Depart, HearStop
  <2>. QED BY <1>0, <2>1
<1>6. ASSUME NEW c \in Client, WriteFails(c)
      PROVE  JoinersTracked'
  <2>1. /\ UNCHANGED <<clients, clientCounter, viewVars, replayVars, accepted,
                       rerunning>>
        /\ broken' = broken \cup {c}
    BY <1>6 DEF WriteFails
  <2>. QED BY <1>0, <2>1
<1>7. ASSUME NEW r \in atAdapter, NEW offered \in Offers,
             InitializeSucceeds(r, offered)
      PROVE  JoinersTracked'
  <2>1. /\ UNCHANGED <<clients, broken, clientCounter, detached, replayVars,
                       rerunning>>
        /\ ~accepted /\ accepted' = TRUE
        /\ joined' \subseteq joined \cup Reachable
        /\ RespondWithCachedInitialize(Served(r))
    BY <1>7 DEF InitializeSucceeds
  <2>2. UNCHANGED <<ready, view>>
    BY <1>0, <2>1 DEF RespondWithCachedInitialize, HearStop
  <2>. QED BY <1>0, <2>1, <2>2
<1>8. CASE InitializedEvent
  <2>1. /\ UNCHANGED <<clients, broken, clientCounter, joined, view, detached,
                       lastStopped, accepted, rerunning>>
        /\ accepted /\ ready' = ready \cup Reachable
    BY <1>8 DEF InitializedEvent
  <2>. QED BY <1>0, <2>1
<1>9. CASE StoppedEvent \/ ResumedEvent
  <2>1. /\ UNCHANGED <<clients, broken, clientCounter, joined, ready, detached,
                       initializedEvent, accepted>>
        /\ accepted
        /\ \A d \in Client : view'[d] =
             IF d \in Reachable THEN lastStopped' ELSE view[d]
    BY <1>9 DEF StoppedEvent, ResumedEvent, HearStop
  <2>. QED BY <1>0, <2>1
<1>10. CASE Register
  <2>1. /\ UNCHANGED <<broken, viewVars, replayVars, accepted, rerunning>>
        /\ clientCounter + 1 \in Client
        /\ clients' = clients \cup {clientCounter + 1}
        /\ clientCounter' = clientCounter + 1
    BY <1>0, <1>10, MuxAssumption DEF Register, Client
  <2>2. clientCounter + 1 \notin joined /\ view[clientCounter + 1] = NoStop
    BY <1>0, <2>1, MuxAssumption DEF Client
  <2>3. \A c \in Client : c \in Nat
    BY MuxAssumption DEF Client
  <2>. QED BY <1>0, <2>1, <2>2, <2>3
<1>11. CASE UpstreamLost
  <2>1. /\ UNCHANGED <<clients, broken, clientCounter, joined, ready, replayVars,
                       accepted, rerunning>>
        /\ detached' = detached \cup Reachable
        /\ \A d \in Client : view'[d] =
             IF d \in Reachable THEN NoStop ELSE view[d]
    BY <1>11 DEF UpstreamLost, HearStop
  <2>. QED BY <1>0, <2>1
<1>12. CASE EndSession
  <2>1. /\ UNCHANGED <<clientCounter, view, replayVars, accepted>>
        /\ clients' = {}
    BY <1>12 DEF EndSession
  <2>. QED BY <1>0, <2>1
<1>. QED BY <1>1, <1>2, <1>3, <1>4, <1>5, <1>6, <1>7, <1>8, <1>9, <1>10, <1>11,
            <1>12, HearingSteps DEF AdapterEvent

\* Nobody has heard anything at first.
LEMMA JoinersInit == ASSUME Init PROVE JoinersTracked
BY DEF Init, JoinersTracked, JoinersCaughtUp, Reachable

\* Whenever a client joins and whatever the others do: once its initialize
\* succeeded it knows what they know.
THEOREM JoinersAreCaughtUp == Spec => []JoinersCaughtUp
<1>1. JoinersTracked => JoinersCaughtUp
  BY DEF JoinersTracked
<1>. QED BY <1>1, TypeInit, TypeStep, JoinersInit, JoinersStep, PTL DEF Spec

-----------------------------------------------------------------------------
(* Departures.                                                             *)

Distinct(order) ==
    \A i, j \in DOMAIN order : order[i] = order[j] => i = j

\* Dropping c from a list without repetitions leaves the others, once each.
LEMMA ForgetsJustOne ==
    ASSUME NEW S, NEW order \in Seq(S), NEW c, Distinct(order)
    PROVE  /\ Listed(Forget(order, c)) \subseteq Listed(order) \ {c}
           /\ Distinct(Forget(order, c))
<1>1. CASE c \notin Listed(order)
  BY <1>1 DEF Forget
<1>2. CASE c \in Listed(order)
  <2> DEFINE at == CHOOSE i \in DOMAIN order : order[i] = c
             left == SubSeq(order, 1, at - 1)
             right == SubSeq(order, at + 1, Len(order))
             Was(i) == IF i < at THEN i ELSE i + 1
  <2>1. at \in 1..Len(order) /\ order[at] = c
    BY <1>2 DEF Listed
  <2>2. Forget(order, c) = left \o right
    BY <1>2 DEF Forget
  <2> HIDE DEF at
  <2>3. /\ left \in Seq(S) /\ Len(left) = at - 1
        /\ \A i \in 1..(at - 1) : left[i] = order[i]
    BY <2>1
  <2>4. /\ right \in Seq(S) /\ Len(right) = Len(order) - at
        /\ \A i \in 1..(Len(order) - at) : right[i] = order[at + i]
    BY <2>1
  <2> HIDE DEF left, right
  <2>5. DOMAIN (left \o right) = 1..(Len(order) - 1)
    BY <2>1, <2>3, <2>4
  <2>6. ASSUME NEW i \in 1..(Len(order) - 1)
        PROVE  Was(i) \in 1..Len(order) /\ Was(i) # at
    BY <2>1
  <2>7. ASSUME NEW i \in 1..(Len(order) - 1)
        PROVE  (left \o right)[i] = order[Was(i)]
    <3>1. CASE i < at
      BY <2>1, <2>3, <2>4, <3>1
    <3>2. CASE ~(i < at)
      <4>1. PICK k \in 1..(Len(order) - at) : k = i - (at - 1)
        BY <2>1, <3>2
      <4>2. (left \o right)[i] = right[k] /\ right[k] = order[at + k]
        BY <2>1, <2>3, <2>4, <3>2, <4>1
      <4>3. at + k = Was(i)
        BY <2>1, <3>2, <4>1
      <4>. QED BY <4>2, <4>3
    <3>. QED BY <3>1, <3>2
  <2>8. \A i, j \in 1..(Len(order) - 1) : Was(i) = Was(j) => i = j
    BY <2>1
  <2> HIDE DEF Was
  <2>9. Distinct(left \o right)
    <3> SUFFICES ASSUME NEW i \in 1..(Len(order) - 1),
                        NEW j \in 1..(Len(order) - 1),
                        (left \o right)[i] = (left \o right)[j]
                 PROVE  i = j
      BY <2>5 DEF Distinct
    <3>1. order[Was(i)] = order[Was(j)]
      BY <2>7
    <3>2. Was(i) \in DOMAIN order /\ Was(j) \in DOMAIN order
      BY <2>6
    <3>. QED BY <2>8, <3>1, <3>2 DEF Distinct
  <2>10. Listed(left \o right) \subseteq Listed(order) \ {c}
    <3> SUFFICES ASSUME NEW i \in 1..(Len(order) - 1)
                 PROVE  (left \o right)[i] \in Listed(order) \ {c}
      BY <2>5 DEF Listed
    <3>1. Was(i) \in DOMAIN order /\ at \in DOMAIN order /\ Was(i) # at
      BY <2>1, <2>6
    <3>. QED BY <2>1, <2>7, <3>1 DEF Listed, Distinct
  <2>. QED BY <2>2, <2>9, <2>10
<1>. QED BY <1>1, <1>2

\* Nothing of a departed client is left, and each client's arguments are held
\* once: dropping them drops all of them.
GoneTracked == GoneLeaveNothing /\ Distinct(initOrder)

heldVars == <<clients, over, pending, pendingInitialize, initOrder>>

\* c, which is connected, may add its request and its arguments, no more.
Added(c, q) ==
    /\ c \in clients /\ UNCHANGED <<clients, over>>
    /\ \/ UNCHANGED pending \/ pending' = Allocate(pending, nextSeq, c, q)
    /\ pendingInitialize' \subseteq pendingInitialize \cup {PendingRequest(c, q)}
    /\ \/ UNCHANGED initOrder
       \/ \E optsIn \in OptIns : SetInitArgs(c, optsIn)

\* A request of a disciplined client, other than a disconnect, adds at most
\* that request and its sender's arguments.
LEMMA RequestAdds ==
    ASSUME Disciplined, NEW c \in Client, NEW q \in 0..MaxRequests,
           ClientRequest(c, q), ~Disconnect(c, q)
    PROVE  Added(c, q)
<1>1. c \in clients
  BY RequestSends DEF Sends
<1>2. UNCHANGED <<clients, over>>
  BY RequestFrame
<1>3. UNCHANGED pending \/ pending' = Allocate(pending, nextSeq, c, q)
  BY DEF ClientRequest, InitializeFromCache, BufferInitialize,
         ForwardInitialize, AbsorbLaunch, ForwardOther, ForwardLaunch,
         ForwardConfigurationDone, ForwardTerminate, AbsorbTerminate,
         RejectRestart, ForwardRestart, Forward
<1>4. pendingInitialize' \subseteq pendingInitialize \cup {PendingRequest(c, q)}
  BY DEF ClientRequest, InitializeFromCache, BufferInitialize,
         ForwardInitialize, AbsorbLaunch, ForwardOther, ForwardLaunch,
         ForwardConfigurationDone, ForwardTerminate, AbsorbTerminate,
         RejectRestart, ForwardRestart
<1>5. UNCHANGED initOrder \/ \E optsIn \in OptIns : SetInitArgs(c, optsIn)
  BY DEF ClientRequest, InitializeFromCache, BufferInitialize,
         ForwardInitialize, AbsorbLaunch, ForwardOther, ForwardLaunch,
         ForwardConfigurationDone, ForwardTerminate, AbsorbTerminate,
         RejectRestart, ForwardRestart
<1>. QED BY <1>1, <1>2, <1>3, <1>4, <1>5 DEF Added

\* No step leaves anything of a departed client behind.
LEMMA GoneStep ==
    ASSUME Disciplined, TypeOK, GoneTracked, [Next]_vars
    PROVE  GoneTracked'
<1>0. /\ initOrder \in Seq(Client) /\ clients \subseteq Client
      /\ DOMAIN initOrder = 1..Len(initOrder)
  BY ClientsInClient DEF TypeOK, TypeHandshake, TypeConnections
<1>1. CASE UNCHANGED heldVars
  BY <1>1 DEF heldVars, GoneTracked, GoneLeaveNothing, Distinct
<1>2. ASSUME NEW c \in Client, NEW q \in 0..MaxRequests, Added(c, q)
      PROVE  GoneTracked'
  <2>1. /\ \A p \in DOMAIN pending' :
             \/ p \in DOMAIN pending /\ pending'[p] = pending[p]
             \/ pending'[p] = PendingRequest(c, q)
    BY <1>2 DEF Added, Allocate, Insert
  <2>2. c \in Listed(initOrder) => initOrder' = initOrder
    BY <1>2 DEF Added, SetInitArgs
  <2>3. initOrder' = initOrder \/ initOrder' = Append(initOrder, c)
    BY <1>2 DEF Added, SetInitArgs
  <2>4. Distinct(initOrder')
    BY <1>0, <2>2, <2>3 DEF GoneTracked, Distinct, Listed
  <2>5. Listed(initOrder') \subseteq Listed(initOrder) \cup {c}
    BY <1>0, <2>3 DEF Listed
  <2>6. PendingRequest(c, q).client = c
    BY DEF PendingRequest
  <2>. QED BY <1>2, <2>1, <2>4, <2>5, <2>6
           DEF GoneTracked, GoneLeaveNothing, Added, Senders
<1>3. ASSUME NEW c \in Client, Depart(c)
      PROVE  GoneTracked'
  <2>1. /\ clients' = clients \ {c} /\ UNCHANGED over
        /\ pending' = Cleanup(pending, c)
        /\ pendingInitialize' = {a \in pendingInitialize : a.client # c}
        /\ initOrder' = Forget(initOrder, c)
    BY <1>3 DEF Depart
  <2>2. /\ Distinct(initOrder')
        /\ Listed(initOrder') \subseteq Listed(initOrder) \ {c}
    BY <1>0, <2>1, ForgetsJustOne DEF GoneTracked
  <2>3. /\ DOMAIN pending' = {p \in DOMAIN pending : pending[p].client # c}
        /\ \A p \in DOMAIN pending' : pending'[p] = pending[p]
    BY <2>1 DEF Cleanup, Restrict
  <2>. QED BY <2>1, <2>2, <2>3 DEF GoneTracked, GoneLeaveNothing, Senders
<1>4. ASSUME NEW r \in atAdapter, AdapterAnswer(r)
      PROVE  GoneTracked'
  <2>1. Returned(r)
    BY <1>4, AnswerRoutes
  <2>2. UNCHANGED <<clients, over, initOrder>>
    BY <1>4, AdapterFrame
  <2>3. /\ DOMAIN pending' \subseteq DOMAIN pending
        /\ \A p \in DOMAIN pending' : pending'[p] = pending[p]
    BY <2>1 DEF Returned, RouteResponse, Resolve, Restrict
  <2>4. pendingInitialize' \subseteq pendingInitialize
    BY <2>1 DEF Returned
  <2>. QED BY <2>2, <2>3, <2>4
           DEF GoneTracked, GoneLeaveNothing, Senders, Distinct
<1>5. CASE Register
  BY <1>5 DEF Register, GoneTracked, GoneLeaveNothing, Distinct
<1>6. CASE EndSession
  BY <1>6 DEF EndSession, GoneTracked, GoneLeaveNothing, Distinct
<1>7. ASSUME NEW c \in Client, ClientStep(c) \/ TaskStep(c)
      PROVE  \/ UNCHANGED heldVars \/ Depart(c)
             \/ \E q \in 0..MaxRequests : Added(c, q)
  BY <1>7, RequestAdds
     DEF ClientStep, TaskStep, ReadEnds, WriteFails, AnswerReverse,
         RecordHandle, CancelledReadDropped, Disconnect, heldVars
<1>8. ASSUME \/ AdapterEvent \/ UpstreamWriteFails \/ UpstreamLost
             \/ StopAccepting \/ UNCHANGED vars
             \/ \E command \in AsksFor : ReverseRequest(command)
      PROVE  UNCHANGED heldVars
  BY <1>8 DEF AdapterEvent, InitializedEvent, StoppedEvent, ResumedEvent,
              ReverseRequest, UpstreamWriteFails, UpstreamLost, StopAccepting,
              heldVars, vars
<1>. QED BY <1>1, <1>2, <1>3, <1>4, <1>5, <1>6, <1>7, <1>8 DEF Next, Boundary

\* Nothing is held at first.
LEMMA GoneInit == ASSUME Init PROVE GoneTracked
BY DEF Init, GoneTracked, GoneLeaveNothing, Distinct, EmptyMap, Senders, Listed

\* If clients send nothing once they were removed, one that left has left
\* nothing: no pending request, no buffered initialize, no arguments.
THEOREM GoneAreForgotten == Disciplined => (Spec => []GoneLeaveNothing)
<1> SUFFICES ASSUME Disciplined PROVE Spec => []GoneLeaveNothing
  OBVIOUS
<1>1. TypeOK /\ GoneTracked /\ [Next]_vars => GoneTracked'
  BY GoneStep
<1>2. GoneTracked => GoneLeaveNothing
  BY DEF GoneTracked
<1>. QED BY <1>1, <1>2, TypeInit, TypeStep, GoneInit, PTL DEF Spec

-----------------------------------------------------------------------------
(* No request is lost.                                                     *)

\* Between them: the seqs put on requests are unique; an initialize is in
\* flight just while the phase is Initializing (so that what is buffered behind
\* it has somebody to settle it); no client is told it has joined before the
\* phase is past that, so none sends what moves the phase meanwhile; and only
\* connected clients wait, for requests that have a seq.
LossTracked ==
    /\ NothingLost
    /\ \A r, s \in atAdapter : r.proxy = s.proxy => r = s
    /\ InFlight("initialize") # {} => phase = "Initializing"
    /\ upstream = "open" /\ phase = "Initializing" => InFlight("initialize") # {}
    /\ phase \in {"PreInit", "Initializing"} => joined = {}
    /\ \A a \in awaiting : a.client \in clients /\ a.seq # NoSeq

lossVars == <<clients, broken, upstream, pending, pendingInitialize, atAdapter,
              awaiting, phase, accepted, joined>>

\* What becomes of the request q of c, and what it does to the phase.
AbsorbedInPhase(c, q) ==
    /\ Absorbed(c, q)
    /\ UNCHANGED phase
    /\ joined' = joined \/ phase \in {"Initialized", "Configured"}

BufferedInPhase(c, q) ==
    /\ Buffered(c, q)
    /\ phase = "Initializing"
    /\ UNCHANGED <<phase, joined>>

ForwardedInPhase(c, q, command) ==
    /\ Settle(Asked(c, q), {})
    /\ Forward(c, q, command)
    /\ UNCHANGED <<pendingInitialize, joined>>
    /\ \/ command # "initialize" /\ UNCHANGED phase
       \/ command = "initialize" /\ phase = "PreInit" /\ phase' = "Initializing"
       \/ command = "configurationDone" /\ c \in joined /\ phase' = "Configured"

SentInPhase(c, q) ==
    /\ q # NoSeq
    /\ UNCHANGED <<clients, broken, upstream, accepted>>
    /\ \/ AbsorbedInPhase(c, q) \/ BufferedInPhase(c, q)
       \/ \E command \in AllCommands : ForwardedInPhase(c, q, command)

LeftInPhase(c) ==
    /\ Depart(c)
    /\ UNCHANGED <<broken, upstream, atAdapter, phase, accepted>>

\* A request of a disciplined client, other than a disconnect.
LEMMA RequestPhases ==
    ASSUME Disciplined, ~SeqMayBeMissing, NEW c \in Client,
           NEW q \in 0..MaxRequests, ClientRequest(c, q), ~Disconnect(c, q),
           TypeOK
    PROVE  SentInPhase(c, q)
<1>1. q # NoSeq /\ c \in clients
  BY RequestSends DEF Sends, NoSeq, TypeOK, TypeConnections
<1>2. UNCHANGED <<clients, broken, upstream>>
  BY RequestFrame
<1>3. UNCHANGED accepted
  BY DEF ClientRequest, InitializeFromCache, BufferInitialize,
         ForwardInitialize, AbsorbLaunch, ForwardOther, ForwardLaunch,
         ForwardConfigurationDone, ForwardTerminate, AbsorbTerminate,
         RejectRestart, ForwardRestart
<1>4. ASSUME NEW optsIn \in OptIns,
             \/ InitializeFromCache(c, q, optsIn)
             \/ BufferInitialize(c, q, optsIn)
             \/ ForwardInitialize(c, q, optsIn)
      PROVE  \/ AbsorbedInPhase(c, q) \/ BufferedInPhase(c, q)
             \/ \E command \in AllCommands : ForwardedInPhase(c, q, command)
  BY <1>4 DEF InitializeFromCache, BufferInitialize, ForwardInitialize,
              MayForwardInitialize, AllCommands, AbsorbedInPhase, Absorbed,
              BufferedInPhase, Buffered, ForwardedInPhase
<1>5. CASE \/ \E command \in Commands : AbsorbLaunch(c, q, command)
           \/ AbsorbTerminate(c, q) \/ RejectRestart(c, q)
  BY <1>1, <1>2, <1>3, <1>5 DEF AbsorbLaunch, AbsorbTerminate, RejectRestart,
     AbsorbedInPhase, Absorbed, SentInPhase
<1>6. CASE \/ \E command \in Commands : ForwardOther(c, q, command)
           \/ ForwardLaunch(c, q) \/ ForwardTerminate(c, q)
           \/ ForwardRestart(c, q)
  <2>1. \E command \in AllCommands : ForwardedInPhase(c, q, command)
    BY <1>6 DEF ForwardOther, ForwardLaunch, ForwardTerminate, ForwardRestart,
                AllCommands, ForwardedInPhase
  <2>. QED BY <1>1, <1>2, <1>3, <2>1 DEF SentInPhase
<1>7. CASE ForwardConfigurationDone(c, q)
  <2>1. c \in joined
    BY <1>7 DEF ForwardConfigurationDone, Sends
  <2>2. ForwardedInPhase(c, q, "configurationDone")
    BY <1>7, <2>1 DEF ForwardConfigurationDone, Configure, ForwardedInPhase
  <2>. QED BY <1>1, <1>2, <1>3, <2>2 DEF SentInPhase, AllCommands
<1>. QED BY <1>1, <1>2, <1>3, <1>4, <1>5, <1>6, <1>7
         DEF ClientRequest, SentInPhase

\* Everything a step can do to the requests under way.
LEMMA LossSteps ==
    ASSUME Disciplined, ~SeqMayBeMissing, TypeOK, [Next]_vars
    PROVE  \/ UNCHANGED lossVars
           \/ \E c \in Client, q \in 0..MaxRequests : SentInPhase(c, q)
           \/ \E c \in Client : LeftInPhase(c) \/ WriteFails(c)
           \/ \E r \in atAdapter : AdapterAnswer(r)
           \/ Register \/ UpstreamWriteFails \/ UpstreamLost \/ EndSession
<1>1. ASSUME NEW c \in Client, ClientStep(c) \/ TaskStep(c)
      PROVE  \/ UNCHANGED lossVars \/ LeftInPhase(c) \/ WriteFails(c)
             \/ \E q \in 0..MaxRequests : ClientRequest(c, q) /\ ~Disconnect(c, q)
  BY <1>1 DEF ClientStep, TaskStep, ReadEnds, AnswerReverse, RecordHandle,
              CancelledReadDropped, Disconnect, Depart, LeftInPhase, lossVars
<1>2. ASSUME \/ AdapterEvent \/ StopAccepting \/ UNCHANGED vars
             \/ \E command \in AsksFor : ReverseRequest(command)
      PROVE  UNCHANGED lossVars
  BY <1>2 DEF AdapterEvent, InitializedEvent, StoppedEvent, ResumedEvent,
              ReverseRequest, StopAccepting, lossVars, vars
<1>. QED BY <1>1, <1>2, RequestPhases DEF Next, Boundary

\* A request sent is at the adapter, behind the initialize in flight, or
\* answered at once.
LEMMA SendLosesNothing ==
    ASSUME TypeOK, HandshakeTracked, LossTracked, NEW c \in Client,
           NEW q \in 0..MaxRequests, SentInPhase(c, q)
    PROVE  LossTracked'
<1> DEFINE new == PendingRequest(c, q)
<1>1. /\ UNCHANGED <<clients, broken, upstream, accepted>> /\ q # NoSeq
      /\ new.client = c /\ new.seq = q
      /\ Asked(c, q) = IF c \in clients THEN {new} ELSE {}
  BY DEF SentInPhase, PendingRequest, Asked
<1> HIDE DEF new
<1>2. CASE AbsorbedInPhase(c, q)
  <2>1. /\ UNCHANGED <<pending, pendingInitialize, atAdapter, phase>>
        /\ joined' = joined \/ phase \in {"Initialized", "Configured"}
        /\ awaiting' = (awaiting \cup Asked(c, q)) \ Delivered({new})
    BY <1>2 DEF AbsorbedInPhase, Absorbed, Settle, new
  <2>2. new \in awaiting' => c \notin Reachable
    BY <1>1, <2>1 DEF Delivered
  <2>. QED BY <1>1, <2>1, <2>2 DEF LossTracked, NothingLost, InFlight, Origin,
       SettlesHandshake, Reachable
<1>3. CASE BufferedInPhase(c, q)
  <2>1. /\ UNCHANGED <<pending, atAdapter, phase, joined>>
        /\ pendingInitialize' = pendingInitialize \cup {new}
        /\ phase = "Initializing"
        /\ awaiting' = awaiting \cup Asked(c, q)
    BY <1>3 DEF BufferedInPhase, Buffered, Settle, Delivered, new
  <2>2. upstream = "open" =>
          \E r \in atAdapter : SettlesHandshake(r) /\ ~accepted
    BY <2>1 DEF LossTracked, HandshakeTracked, HandshakeOnce, InFlight,
       SettlesHandshake
  <2>. QED BY <1>1, <2>1, <2>2 DEF LossTracked, NothingLost, InFlight, Origin,
       SettlesHandshake, Reachable
<1>4. ASSUME NEW command \in AllCommands, ForwardedInPhase(c, q, command)
      PROVE  LossTracked'
  <2> DEFINE r0 == [proxy |-> nextSeq, command |-> command, origin |-> new]
  <2>1. /\ UNCHANGED <<pendingInitialize, joined>>
        /\ awaiting' = awaiting \cup Asked(c, q)
        /\ pending' = Insert(pending, nextSeq, new)
        /\ atAdapter' = IF upstream = "open" THEN atAdapter \cup {r0}
                        ELSE atAdapter
    BY <1>1, <1>4 DEF ForwardedInPhase, Forward, Settle, Delivered, Allocate, new
  <2>2. \/ command # "initialize" /\ UNCHANGED phase
        \/ command = "initialize" /\ phase = "PreInit" /\ phase' = "Initializing"
        \/ /\ command = "configurationDone" /\ phase' = "Configured"
           /\ phase \notin {"PreInit", "Initializing"}
    BY <1>4 DEF ForwardedInPhase, LossTracked
  <2>3. \A r \in atAdapter : r.proxy # nextSeq
    BY DEF TypeOK, TypeRouting
  <2>4. \A r \in atAdapter : Origin(r)' = Origin(r)
    <3>1. /\ DOMAIN pending' = DOMAIN pending \cup {nextSeq}
          /\ \A p \in DOMAIN pending : p # nextSeq => pending'[p] = pending[p]
      BY <2>1 DEF Insert
    <3>. QED BY <2>3, <3>1 DEF Origin
  <2>5. \A r \in atAdapter' : r.proxy = nextSeq => Origin(r)' = {new}
    BY <2>1 DEF Origin, Insert
  <2>6. /\ r0.proxy = nextSeq /\ r0.command = command
    OBVIOUS
  <2> HIDE DEF r0
  <2>7. \A r, s \in atAdapter' : r.proxy = s.proxy => r = s
    BY <2>1, <2>3, <2>6 DEF LossTracked
  <2>8. InFlight("initialize")' # {} => phase' = "Initializing"
    BY <2>1, <2>2, <2>6 DEF LossTracked, InFlight
  <2>9. upstream' = "open" /\ phase' = "Initializing"
          => InFlight("initialize")' # {}
    BY <1>1, <2>1, <2>2, <2>6 DEF LossTracked, InFlight
  <2>10. phase' \in {"PreInit", "Initializing"} => joined' = {}
    BY <2>1, <2>2 DEF LossTracked
  <2>11. \A a \in awaiting' : a.client \in clients' /\ a.seq # NoSeq
    BY <1>1, <2>1 DEF LossTracked
  <2>12. NothingLost'
    <3> SUFFICES ASSUME upstream = "open", NEW a \in awaiting',
                        a.client \in Reachable
                 PROVE  \/ \E r \in atAdapter' : Origin(r)' = {a}
                        \/ /\ a \in pendingInitialize'
                           /\ \E r \in atAdapter' : SettlesHandshake(r)' /\ ~accepted'
      BY <1>1 DEF NothingLost, Reachable
    <3>1. CASE a = new
      BY <1>1, <2>1, <2>5, <2>6, <3>1
    <3>2. CASE a # new /\ \E r \in atAdapter : Origin(r) = {a}
      BY <2>1, <2>4, <3>2
    <3>3. CASE /\ a # new /\ a \in pendingInitialize
               /\ \E r \in atAdapter : SettlesHandshake(r) /\ ~accepted
      BY <1>1, <2>1, <2>2, <3>3 DEF SettlesHandshake
    <3>. QED BY <1>1, <2>1, <3>1, <3>2, <3>3 DEF LossTracked, NothingLost
  <2>. QED BY <2>7, <2>8, <2>9, <2>10, <2>11, <2>12 DEF LossTracked
<1>. QED BY <1>2, <1>3, <1>4 DEF SentInPhase

\* A response settles what it is for, and leaves the others where they are.
LEMMA ReturnLosesNothing ==
    ASSUME TypeOK, HandshakeTracked, LossTracked, NEW r \in atAdapter,
           AdapterAnswer(r)
    PROVE  LossTracked'
<1>1. /\ atAdapter' = atAdapter \ {r} /\ pending' = Resolve(pending, r.proxy)
      /\ awaiting' = awaiting \ Delivered(Origin(r) \cup Served(r))
      /\ pendingInitialize' = pendingInitialize \ Served(r)
      /\ UNCHANGED <<clients, broken, upstream>>
  BY AnswerRoutes, AdapterFrame DEF Returned, RouteResponse, Settle
<1>2. \A s \in atAdapter' : Origin(s)' = Origin(s)
  <2>1. \A s \in atAdapter' : s.proxy # r.proxy
    BY <1>1 DEF LossTracked
  <2>. QED BY <1>1, <2>1 DEF Origin, Resolve, Restrict
<1>3. \A a \in awaiting' : a.client \in Reachable =>
        a \in awaiting /\ a \notin Origin(r) /\ a \notin Served(r)
  BY <1>1 DEF LossTracked, Delivered
<1>4. CASE r.command = "initialize"
  <2>1. phase = "Initializing" /\ ~accepted /\ InFlight("initialize") = {r}
    BY <1>4 DEF LossTracked, HandshakeTracked, HandshakeOnce, InFlight
  <2>2. Served(r) = pendingInitialize
    BY <1>4, <2>1 DEF Served, SettlesHandshake
  <2>3. phase' = "Initialized" \/ (phase' = "PreInit" /\ UNCHANGED joined)
    BY <1>4, <2>1 DEF AdapterAnswer, InitializeSucceeds, InitializeFails,
       Answers, RestartFails, SettlesHandshake
  <2>4. InFlight("initialize")' = {}
    BY <1>1, <2>1 DEF InFlight
  <2>5. NothingLost'
    <3> SUFFICES ASSUME upstream = "open", NEW a \in awaiting',
                        a.client \in Reachable
                 PROVE  \E s \in atAdapter' : Origin(s)' = {a}
      BY <1>1 DEF NothingLost, Reachable
    <3>1. PICK s \in atAdapter : Origin(s) = {a}
      BY <1>3, <2>2 DEF LossTracked, NothingLost
    <3>. QED BY <1>1, <1>2, <1>3, <3>1
  <2>. QED BY <1>1, <2>1, <2>3, <2>4, <2>5 DEF LossTracked
<1>5. CASE r.command # "initialize"
  <2>1. UNCHANGED <<phase, accepted, joined>> /\ Served(r) = {}
    BY <1>5 DEF AdapterAnswer, InitializeSucceeds, InitializeFails, Answers,
       RestartFails, Served, SettlesHandshake
  <2>2. InFlight("initialize")' = InFlight("initialize")
    BY <1>1, <1>5 DEF InFlight
  <2>3. NothingLost'
    <3> SUFFICES ASSUME upstream = "open", NEW a \in awaiting',
                        a.client \in Reachable
                 PROVE  \/ \E s \in atAdapter' : Origin(s)' = {a}
                        \/ /\ a \in pendingInitialize'
                           /\ \E s \in atAdapter' : SettlesHandshake(s)' /\ ~accepted'
      BY <1>1 DEF NothingLost, Reachable
    <3>1. CASE \E s \in atAdapter : Origin(s) = {a}
      BY <1>1, <1>2, <1>3, <3>1
    <3>2. CASE /\ a \in pendingInitialize
               /\ \E s \in atAdapter : SettlesHandshake(s) /\ ~accepted
      BY <1>1, <1>5, <2>1, <3>2 DEF SettlesHandshake
    <3>. QED BY <1>3, <3>1, <3>2 DEF LossTracked, NothingLost
  <2>. QED BY <1>1, <2>1, <2>2, <2>3 DEF LossTracked
<1>. QED BY <1>4, <1>5

\* No step loses a request.
LEMMA LossStep ==
    ASSUME Disciplined, ~SeqMayBeMissing, TypeOK, HandshakeTracked, LossTracked,
           [Next]_vars
    PROVE  LossTracked'
<1>1. CASE UNCHANGED lossVars
  BY <1>1 DEF lossVars, LossTracked, NothingLost, InFlight, Origin,
              SettlesHandshake, Reachable
<1>2. ASSUME NEW c \in Client, LeftInPhase(c)
      PROVE  LossTracked'
  <2>1. /\ clients' = clients \ {c} /\ joined' = joined \ {c}
        /\ pending' = Cleanup(pending, c)
        /\ pendingInitialize' = {a \in pendingInitialize : a.client # c}
        /\ awaiting' = {a \in awaiting : a.client # c}
        /\ UNCHANGED <<broken, upstream, atAdapter, phase, accepted>>
    BY <1>2 DEF LeftInPhase, Depart
  <2>2. \A r \in atAdapter, a \in awaiting' :
          Origin(r) = {a} => Origin(r)' = {a}
    BY <2>1 DEF Origin, Cleanup, Restrict
  <2>3. NothingLost'
    BY <2>1, <2>2 DEF LossTracked, NothingLost, SettlesHandshake, Reachable
  <2>. QED BY <2>1, <2>3 DEF LossTracked, InFlight
<1>3. ASSUME NEW c \in Client, WriteFails(c)
      PROVE  LossTracked'
  BY <1>3 DEF WriteFails, LossTracked, NothingLost, InFlight, Origin,
              SettlesHandshake, Reachable
<1>4. CASE Register
  <2>1. /\ clients' = clients \cup {clientCounter + 1}
        /\ UNCHANGED <<broken, upstream, pending, pendingInitialize, atAdapter,
                       awaiting, phase, accepted, joined>>
    BY <1>4 DEF Register
  <2>2. clientCounter + 1 \notin clients
    BY DEF TypeOK, TypeConnections
  <2>. QED BY <2>1, <2>2 DEF LossTracked, NothingLost, InFlight, Origin,
           SettlesHandshake, Reachable
<1>5. CASE UpstreamWriteFails
  BY <1>5 DEF UpstreamWriteFails, LossTracked, NothingLost, InFlight
<1>6. CASE UpstreamLost
  BY <1>6 DEF UpstreamLost, LossTracked, NothingLost, InFlight
<1>7. CASE EndSession
  BY <1>7 DEF EndSession, LossTracked, NothingLost, InFlight
<1>. QED BY <1>1, <1>2, <1>3, <1>4, <1>5, <1>6, <1>7, LossSteps,
            SendLosesNothing, ReturnLosesNothing

\* There is nothing to lose at first.
LEMMA LossInit == ASSUME Init PROVE LossTracked
BY DEF Init, LossTracked, NothingLost, InFlight

\* With clients that follow the protocol and put a seq on every request, no
\* request of a reachable client is lost while the adapter is connected.
THEOREM NoRequestIsLost ==
    Disciplined /\ ~SeqMayBeMissing => (Spec => []NothingLost)
<1> SUFFICES ASSUME Disciplined, ~SeqMayBeMissing PROVE Spec => []NothingLost
  OBVIOUS
<1>1. TypeOK /\ HandshakeTracked /\ LossTracked /\ [Next]_vars => LossTracked'
  BY LossStep
<1>2. TypeOK /\ HandshakeTracked /\ [Next]_vars => HandshakeTracked'
  BY HandshakeStep
<1>3. LossTracked => NothingLost
  BY DEF LossTracked
<1>. QED BY <1>1, <1>2, <1>3, TypeInit, TypeStep, HandshakeInit, LossInit, PTL
         DEF Spec

-----------------------------------------------------------------------------
(* Where reverse requests go.                                              *)

\* The earliest of some listed candidates is one of them.
LEMMA EarliestSpec ==
    ASSUME NEW S, NEW order \in Seq(S), NEW candidates,
           Listed(order) \cap candidates # {}
    PROVE  EarliestOf(order, candidates) \in candidates
<1> DEFINE places == {i \in DOMAIN order : order[i] \in candidates}
<1>1. places # {} /\ places \subseteq Nat
  BY DEF Listed
<1>2. PICK i \in places : \A j \in places : ~(<<j, i>> \in OpToRel(<, Nat))
  BY <1>1, NatLessThanWellFounded, WFMin
<1>3. \A j \in places : ~(j < i)
  BY <1>1, <1>2 DEF OpToRel
<1>4. i \in DOMAIN order /\ order[i] \in candidates
  OBVIOUS
<1>5. \A j \in 1..(i - 1) : order[j] \notin candidates
  BY <1>1, <1>3, <1>4
<1>. QED BY <1>4, <1>5 DEF EarliestOf

\* Until the session is ended, whoever has sent its initialize is connected; so a
\* reverse request is turned down only if nobody has, and a runInTerminal goes to
\* a client that opted in if there is one.
THEOREM AsksGoToTheWilling ==
    Disciplined => (Spec => AsksReachWillingClients)
<1> SUFFICES ASSUME Disciplined PROVE Spec => AsksReachWillingClients
  OBVIOUS
<1> DEFINE routed == DOMAIN reverse' \ DOMAIN reverse
           Willing ==
             /\ asks' # asks /\ ~over /\ clients \cap Listed(initOrder) # {}
                  => routed # {}
             /\ \A p \in routed :
                  reverse'[p].command = "runInTerminal" =>
                    \/ over \/ clients \cap willing = {}
                    \/ reverse'[p].client \in clients \cap willing
<1>1. ASSUME TypeOK, Listed(initOrder) \subseteq clients,
             NEW command \in AsksFor, ReverseRequest(command)
      PROVE  Willing
  <2> DEFINE target == PickReverseRequestTarget(initOrder, willing, command)
  <2>1. /\ initOrder \in Seq(Client) /\ willing \subseteq Listed(initOrder)
        /\ nextReverse \notin DOMAIN reverse /\ clients \subseteq Client
    BY <1>1, ClientsInClient DEF TypeOK, TypeConnections, TypeHandshake,
       TypeReverse
  <2>2. NoClient \notin clients
    BY <2>1, MuxAssumption DEF Client, NoClient
  <2>3. Listed(initOrder) # {} => target \in clients
    <3>1. ASSUME initOrder # <<>>
          PROVE  initOrder[1] \in Listed(initOrder)
      BY <2>1, <3>1 DEF Listed
    <3>2. ASSUME command = "runInTerminal", Listed(initOrder) \cap willing # {}
          PROVE  EarliestOf(initOrder, willing) \in Listed(initOrder)
      BY <2>1, <3>2, EarliestSpec
    <3>. QED BY <1>1, <3>1, <3>2 DEF PickReverseRequestTarget, Listed
  <2>4. command = "runInTerminal" /\ willing # {} => target \in willing
    BY <2>1, EarliestSpec DEF PickReverseRequestTarget, Listed
  <2>5. CASE CanTake(target)
    <3>1. /\ DOMAIN reverse' = DOMAIN reverse \cup {nextReverse}
          /\ reverse'[nextReverse] = [client |-> target, command |-> command,
                                      adapterSeq |-> asks + 1]
      BY <1>1, <2>5 DEF ReverseRequest, Insert
    <3>2. routed = {nextReverse}
      BY <2>1, <3>1
    <3>. QED BY <2>4, <2>5, <3>1, <3>2 DEF CanTake
  <2>6. CASE ~CanTake(target)
    <3>1. UNCHANGED reverse /\ Listed(initOrder) = {}
      BY <1>1, <2>3, <2>6 DEF ReverseRequest, CanTake
    <3>. QED BY <3>1
  <2>. QED BY <2>5, <2>6
<1>2. ASSUME [Next]_vars, ~\E command \in AsksFor : ReverseRequest(command)
      PROVE  UNCHANGED asks /\ routed = {}
  <2>1. ASSUME NEW c \in Client, Depart(c) \/ \E p \in DOMAIN reverse : AnswerReverse(c, p)
        PROVE  UNCHANGED asks /\ routed = {}
    BY <2>1 DEF Depart, AnswerReverse, Restrict
  <2>2. CASE UpstreamLost
    BY <2>2 DEF UpstreamLost
  <2>. QED BY <1>2, <2>1, <2>2, ReverseFrame
<1>3. TypeOK /\ GoneTracked /\ [Next]_vars => Willing
  <2>1. CASE over
    BY <2>1
  <2>2. CASE ~over
    BY <1>1, <1>2, <2>2 DEF GoneTracked, GoneLeaveNothing
  <2>. QED BY <2>1, <2>2
<1>4. TypeOK /\ GoneTracked /\ [Next]_vars => GoneTracked'
  BY GoneStep
<1> HIDE DEF Willing
<1>5. [][Willing]_vars => AsksReachWillingClients
  BY PTL DEF Willing, AsksReachWillingClients
<1>. QED BY <1>3, <1>4, <1>5, TypeInit, TypeStep, GoneInit, PTL
         DEF Spec

=============================================================================
