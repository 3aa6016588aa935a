------------------------- MODULE MuxTypeProofs -------------------------
(***************************************************************************)
(* Type correctness of the multiplexer for every value of the constants,   *)
(* and the lemmas on its operators that every proof about it uses.         *)
(*                                                                         *)
(* TypeOK is inductive.  It is proved part by part: for each part, the     *)
(* steps that touch its variables, then one frame step for the others.     *)
(***************************************************************************)
EXTENDS MuxProperties, TLAPS

-----------------------------------------------------------------------------
(* What the operations of the sequence map return, for maps of any size.   *)

\* Insert gives the key its value and leaves every other key alone.
LEMMA InsertSpec ==
    ASSUME NEW V, NEW K, NEW map \in [K -> V], NEW key, NEW value \in V
    PROVE  /\ DOMAIN Insert(map, key, value) = K \cup {key}
           /\ Insert(map, key, value) \in [K \cup {key} -> V]
           /\ Insert(map, key, value)[key] = value
           /\ \A k \in K : k # key => Insert(map, key, value)[k] = map[k]
BY DEF Insert

\* A restriction keeps the values of the keys it keeps.
LEMMA RestrictSpec ==
    ASSUME NEW V, NEW K, NEW map \in [K -> V], NEW S \in SUBSET K
    PROVE  /\ DOMAIN Restrict(map, S) = S
           /\ Restrict(map, S) \in [S -> V]
           /\ \A k \in S : Restrict(map, S)[k] = map[k]
BY DEF Restrict

\* allocate records the client's request under the proxy seq, and no other.
LEMMA AllocateSpec ==
    ASSUME NEW V, NEW K, NEW map \in [K -> V], NEW proxy,
           NEW client, NEW seq, PendingRequest(client, seq) \in V
    PROVE  LET after == Allocate(map, proxy, client, seq) IN
             /\ DOMAIN after = K \cup {proxy}
             /\ after \in [K \cup {proxy} -> V]
             /\ after[proxy] = PendingRequest(client, seq)
             /\ \A k \in K : k # proxy => after[k] = map[k]
BY DEF Allocate, Insert

\* resolve forgets the proxy seq, and no other.
LEMMA ResolveSpec ==
    ASSUME NEW V, NEW K, NEW map \in [K -> V], NEW proxy
    PROVE  LET after == Resolve(map, proxy) IN
             /\ DOMAIN after = K \ {proxy}
             /\ after \in [K \ {proxy} -> V]
             /\ \A k \in K \ {proxy} : after[k] = map[k]
BY DEF Resolve, Restrict

\* cleanup forgets the requests of the client, and no others.
LEMMA CleanupSpec ==
    ASSUME NEW V, NEW K, NEW map \in [K -> V], NEW client
    PROVE  LET kept == {k \in K : map[k].client # client}
               after == Cleanup(map, client)
           IN  /\ DOMAIN after = kept
               /\ after \in [kept -> V]
               /\ \A k \in kept : after[k] = map[k]
BY DEF Cleanup, Restrict

USE DEF worldVars, sessionVars, partyVars, connVars, lifecycleVars, argVars,
        handshakeVars, replayVars, seqVars, reverseVars, answerVars, viewVars,
        adapterVars, queueVars

-----------------------------------------------------------------------------
(* Helpers.                                                                *)

\* Forgetting an id keeps a sequence of ids one, and drops no other id.
LEMMA ForgetSpec ==
    ASSUME NEW S, NEW order \in Seq(S), NEW c
    PROVE  /\ Forget(order, c) \in Seq(S)
           /\ Listed(order) \ {c} \subseteq Listed(Forget(order, c))
<1>1. CASE c \notin Listed(order)
  BY <1>1 DEF Forget
<1>2. CASE c \in Listed(order)
  <2> DEFINE at == CHOOSE i \in DOMAIN order : order[i] = c
             left == SubSeq(order, 1, at - 1)
             right == SubSeq(order, at + 1, Len(order))
  <2>1. at \in 1..Len(order) /\ order[at] = c
    BY <1>2 DEF Listed
  <2>2. Forget(order, c) = left \o right
    BY <1>2 DEF Forget
  <2> HIDE DEF at
  <2>3. /\ left \in Seq(S) /\ Len(left) = at - 1
        /\ \A i \in 1..(at - 1) : left[i] = order[i]
    BY <2>1
  <2>4. /\ right \in Seq(S) /\ Len(right) = Len(order) - at
        /\ \A i \in 1..(Len(order) - at) : right[i] = order[at + i]
    BY <2>1
  <2> HIDE DEF left, right
  <2>5. ASSUME NEW i \in 1..Len(order), order[i] # c
        PROVE  \E j \in 1..Len(left \o right) : (left \o right)[j] = order[i]
    <3>1. CASE i < at
      <4>1. i \in 1..Len(left \o right) /\ (left \o right)[i] = order[i]
        BY <2>1, <2>3, <2>4, <3>1
      <4>. QED BY <4>1
    <3>2. CASE i > at
      <4> DEFINE j == i - 1
      <4>1. j \in 1..Len(left \o right)
        BY <2>1, <2>3, <2>4, <3>2
      <4>2. (left \o right)[j] = right[i - at]
        BY <2>1, <2>3, <2>4, <3>2
      <4>3. right[i - at] = order[i]
        BY <2>1, <2>4, <3>2
      <4>. QED BY <4>1, <4>2, <4>3
    <3>. QED BY <2>1, <2>5, <3>1, <3>2
  <2>6. left \o right \in Seq(S)
    BY <2>3, <2>4
  <2>7. DOMAIN (left \o right) = 1..Len(left \o right)
    BY <2>6
  <2>8. ASSUME NEW d \in Listed(order) \ {c}
        PROVE  d \in Listed(left \o right)
    <3>1. PICK i \in 1..Len(order) : order[i] = d
      BY DEF Listed
    <3>. QED BY <2>5, <2>7, <3>1 DEF Listed
  <2>. QED BY <2>2, <2>6, <2>8
<1>. QED BY <1>1, <1>2

\* The seq of a request a client sends is a number, and so is its command one
\* of DAP's.
LEMMA SendsSpec ==
    ASSUME TypeConnections, NEW c \in Client, NEW q, NEW command,
           Sends(c, q, command)
    PROVE  /\ PendingRequest(c, q) \in Requests
           /\ q \in Nat
           /\ command \in AllCommands
BY MuxAssumption DEF Sends, TypeConnections, PendingRequest, Requests, NoSeq

\* What a client waits for is a request.
LEMMA AskedSpec ==
    ASSUME NEW c, NEW q, PendingRequest(c, q) \in Requests
    PROVE  Asked(c, q) \subseteq Requests
BY DEF Asked

\* Answering keeps what clients wait for a set of requests.
LEMMA SettleSpec ==
    ASSUME TypeHandshake, NEW new \in SUBSET Requests, NEW answers,
           Settle(new, answers)
    PROVE  awaiting' \subseteq Requests /\ misrouted' \in BOOLEAN
BY DEF Settle, TypeHandshake

\* Recording initialize arguments keeps the opt-ins among the recorded clients.
LEMMA SetInitArgsSpec ==
    ASSUME TypeHandshake, NEW c \in Client, NEW optsIn, SetInitArgs(c, optsIn)
    PROVE  initOrder' \in Seq(Client) /\ willing' \subseteq Listed(initOrder')
BY DEF SetInitArgs, TypeHandshake, Listed

\* Telling clients of a stop keeps their views stops.
LEMMA HearStopSpec ==
    ASSUME TypeViews, NEW hearers, NEW stop \in 0..MaxStops,
           HearStop(hearers, stop)
    PROVE  view' \in [Client -> 0..MaxStops]
BY DEF HearStop, TypeViews

\* Forwarding a request keeps the sequence map and the queue typed.
LEMMA ForwardSpec ==
    ASSUME TypeRouting, NEW c, NEW q, NEW command \in AllCommands,
           PendingRequest(c, q) \in Requests, Forward(c, q, command)
    PROVE  TypeRouting'
<1>1. CASE q = NoSeq
  BY <1>1 DEF Forward, TypeRouting
<1>2. CASE q # NoSeq
  <2>1. pending' = Allocate(pending, nextSeq, c, q) /\ nextSeq' = nextSeq + 1
    BY <1>2 DEF Forward
  <2>2. /\ DOMAIN pending' = DOMAIN pending \cup {nextSeq}
        /\ pending' \in [DOMAIN pending' -> Requests]
    BY <2>1 DEF TypeRouting, Allocate, Insert
  <2>3. /\ nextSeq' \in Nat \ {0}
        /\ DOMAIN pending' \subseteq 1..(nextSeq' - 1)
        /\ 1..(nextSeq - 1) \subseteq 1..(nextSeq' - 1)
        /\ nextSeq \in 1..(nextSeq' - 1)
    BY <2>1, <2>2 DEF TypeRouting
  <2>4. configured' \in Nat
    BY <1>2 DEF Forward, TypeRouting
  <2>5. atAdapter' \subseteq [proxy : 1..(nextSeq' - 1),
                              command : AllCommands, origin : Requests]
    BY <1>2, <2>3 DEF Forward, TypeRouting
  <2>. QED BY <2>2, <2>3, <2>4, <2>5 DEF TypeRouting
<1>. QED BY <1>1, <1>2

-----------------------------------------------------------------------------
(* The parts.  Every request but disconnect leaves the connections alone;  *)
(* so do the adapter's messages.                                           *)

\* Handling a request other than disconnect touches no connection.
LEMMA RequestFrame ==
    ASSUME NEW c \in Client, NEW q \in 0..MaxRequests,
           ClientRequest(c, q), ~Disconnect(c, q)
    PROVE  UNCHANGED <<worldVars, reverseVars>>
BY DEF ClientRequest, InitializeFromCache, BufferInitialize, ForwardInitialize,
       AbsorbLaunch, ForwardOther, ForwardLaunch, ForwardConfigurationDone,
       ForwardTerminate, AbsorbTerminate, RejectRestart, ForwardRestart

\* Every request is sent by its client.
LEMMA RequestSends ==
    ASSUME NEW c \in Client, NEW q \in 0..MaxRequests, ClientRequest(c, q)
    PROVE  \E command \in Commands : Sends(c, q, command)
BY DEF ClientRequest, InitializeFromCache, BufferInitialize, ForwardInitialize,
       AbsorbLaunch, ForwardOther, ForwardLaunch, ForwardConfigurationDone,
       ForwardTerminate, AbsorbTerminate, RejectRestart, ForwardRestart,
       Disconnect, Sends

\* A message of the adapter touches no connection and is no client's step.
LEMMA AdapterFrame ==
    ASSUME \/ \E r \in atAdapter : AdapterAnswer(r)
           \/ AdapterEvent
           \/ \E command \in AsksFor : ReverseRequest(command)
    PROVE  UNCHANGED <<worldVars, argVars, sent>>
BY DEF AdapterAnswer, InitializeSucceeds, InitializeFails, Answers,
       RestartFails, AdapterEvent, InitializedEvent, StoppedEvent,
       ResumedEvent, ReverseRequest

\* Registered ids are ids of clients.
LEMMA ClientsInClient == ASSUME TypeConnections PROVE clients \subseteq Client
BY MuxAssumption DEF TypeConnections, Client

\* What a client's sending does to the counters of the connections.
LEMMA SendsCounts ==
    ASSUME TypeConnections, NEW c \in Client, NEW q, NEW command,
           Sends(c, q, command)
    PROVE  /\ sent' = [sent EXCEPT ![c] = sent[c] + 1]
           /\ reader[c] # "unborn" /\ c <= clientCounter
BY DEF Sends, CanHandle, TypeConnections, Client

\* Every step keeps the connections typed: no id is used before it is counted.
LEMMA ConnectionsTyped ==
    ASSUME TypeConnections, [Next]_vars
    PROVE  TypeConnections'
<1> USE MuxAssumption DEF Client
<1>1. CASE Register
  BY <1>1 DEF Register, TypeConnections
<1>2. ASSUME NEW c \in Client, ClientStep(c) \/ TaskStep(c)
      PROVE  TypeConnections'
  <2>1. CASE RecordHandle(c)
    BY <2>1 DEF RecordHandle, TypeConnections
  <2>2. CASE CancelledReadDropped(c)
    BY <2>2 DEF CancelledReadDropped, TypeConnections
  <2>3. CASE WriteFails(c)
    BY <2>3 DEF WriteFails, Reachable, TypeConnections
  <2>4. CASE ReadEnds(c)
    BY <2>4 DEF ReadEnds, Depart, CanHandle, TypeConnections
  <2>5. ASSUME NEW p \in DOMAIN reverse, AnswerReverse(c, p)
        PROVE  TypeConnections'
    BY <2>5 DEF AnswerReverse, TypeConnections
  <2>6. ASSUME NEW q \in 0..MaxRequests, ClientRequest(c, q), ~Disconnect(c, q)
        PROVE  TypeConnections'
    <3>1. UNCHANGED worldVars
      BY <2>6, RequestFrame
    <3>2. /\ sent' = [sent EXCEPT ![c] = sent[c] + 1]
          /\ c <= clientCounter
      BY <2>6, RequestSends, SendsCounts
    <3>. QED BY <3>1, <3>2 DEF TypeConnections
  <2>7. ASSUME NEW q \in 0..MaxRequests, Disconnect(c, q)
        PROVE  TypeConnections'
    <3>1. /\ sent' = [sent EXCEPT ![c] = sent[c] + 1]
          /\ c <= clientCounter
      BY <2>7, SendsCounts DEF Disconnect
    <3>2. /\ clients' = clients \ {c}
          /\ UNCHANGED <<lifecycleVars, broken, upstream>>
      BY <2>7 DEF Disconnect, Depart
    <3>3. reader' = AbortAll({c} \cap clients)
      BY <2>7 DEF Disconnect
    <3>4. /\ reader' \in [Client -> {"unborn", "fresh", "running",
                                     "cancelled", "ended"}]
          /\ \A d \in Client : d > clientCounter => reader'[d] = "unborn"
      BY <3>3 DEF AbortAll, TypeConnections
    <3>. QED BY <3>1, <3>2, <3>4 DEF TypeConnections
  <2>. QED BY <1>2, <2>1, <2>2, <2>3, <2>4, <2>5, <2>6, <2>7
       DEF ClientStep, TaskStep
<1>3. CASE Boundary
  <2>1. CASE EndSession
    BY <2>1 DEF EndSession, AbortAll, TypeConnections
  <2>2. CASE UpstreamWriteFails \/ UpstreamLost \/ StopAccepting
    BY <2>2 DEF UpstreamWriteFails, UpstreamLost, StopAccepting,
                TypeConnections
  <2>. QED BY <1>3, <2>1, <2>2 DEF Boundary
<1>4. CASE UNCHANGED <<worldVars, argVars, sent>>
  BY <1>4 DEF TypeConnections
<1>. QED BY <1>1, <1>2, <1>3, <1>4, AdapterFrame DEF Next, vars

\* The steps that touch the tables of reverse requests.
LEMMA ReverseFrame ==
    ASSUME [Next]_vars
    PROVE  \/ UNCHANGED <<reverseVars>>
           \/ \E c \in Client : Depart(c)
           \/ \E c \in Client : \E p \in DOMAIN reverse : AnswerReverse(c, p)
           \/ \E command \in AsksFor : ReverseRequest(command)
           \/ UpstreamLost
<1>1. ASSUME NEW c \in Client, ClientStep(c)
      PROVE  \/ UNCHANGED reverseVars
             \/ Depart(c)
             \/ \E p \in DOMAIN reverse : AnswerReverse(c, p)
  BY <1>1, RequestFrame DEF ClientStep, Disconnect, ReadEnds, WriteFails
<1>2. ASSUME NEW c \in Client, TaskStep(c)
      PROVE  UNCHANGED reverseVars
  BY <1>2 DEF TaskStep, RecordHandle, CancelledReadDropped
<1>3. ASSUME NEW r \in atAdapter, AdapterAnswer(r)
      PROVE  UNCHANGED reverseVars
  BY <1>3 DEF AdapterAnswer, InitializeSucceeds, InitializeFails, Answers,
              RestartFails
<1>4. CASE AdapterEvent
  BY <1>4 DEF AdapterEvent, InitializedEvent, StoppedEvent, ResumedEvent
<1>5. CASE Boundary
  BY <1>5 DEF Boundary, UpstreamWriteFails, EndSession, StopAccepting
<1>6. CASE Register
  BY <1>6 DEF Register
<1>. QED BY <1>1, <1>2, <1>3, <1>4, <1>5, <1>6 DEF Next, vars

\* Every step keeps the reverse requests typed.
LEMMA ReverseTyped ==
    ASSUME TypeConnections, TypeReverse, [Next]_vars
    PROVE  TypeReverse'
<1> USE MuxAssumption
<1>1. ASSUME NEW c \in Client, Depart(c)
      PROVE  TypeReverse'
  BY <1>1 DEF Depart, HeldFor, AnswerAdapter, Restrict, TypeReverse
<1>2. ASSUME NEW c \in Client, NEW p \in DOMAIN reverse, AnswerReverse(c, p)
      PROVE  TypeReverse'
  BY <1>2 DEF AnswerReverse, AnswerAdapter, Restrict, TypeReverse
<1>3. ASSUME NEW command \in AsksFor, ReverseRequest(command)
      PROVE  TypeReverse'
  <2> DEFINE target == PickReverseRequestTarget(initOrder, willing, command)
  <2>1. asks' = asks + 1 /\ asks < MaxAsks /\ UNCHANGED doubled
    BY <1>3 DEF ReverseRequest
  <2>2. /\ asks' \in 0..MaxAsks
        /\ 1..asks \subseteq 1..asks' /\ asks' \in 1..asks'
    BY <2>1 DEF TypeReverse
  <2>3. owed' \subseteq 1..asks'
    BY <1>3, <2>2 DEF ReverseRequest, TypeReverse
  <2>4. CASE ~CanTake(target)
    <3>1. UNCHANGED <<reverse, nextReverse, heard>>
      BY <1>3, <2>4 DEF ReverseRequest
    <3>. QED BY <2>1, <2>2, <2>3, <3>1 DEF TypeReverse
  <2>5. CASE CanTake(target)
    <3> DEFINE entry == [client |-> target, command |-> command,
                         adapterSeq |-> asks + 1]
    <3>1. /\ reverse' = Insert(reverse, nextReverse, entry)
          /\ nextReverse' = nextReverse + 1
          /\ heard' \subseteq heard \cup {nextReverse}
      BY <1>3, <2>5 DEF ReverseRequest
    <3>2. target \in Client
      <4>1. target \in clients
        BY <2>5 DEF CanTake
      <4>. QED BY <4>1, ClientsInClient
    <3>3. entry \in [client : Client, command : ReverseRequests,
                     adapterSeq : 1..asks']
      BY <2>1, <2>2, <3>2
    <3> HIDE DEF entry
    <3> DEFINE old == [client : Client, command : ReverseRequests,
                       adapterSeq : 1..asks]
               new == [client : Client, command : ReverseRequests,
                       adapterSeq : 1..asks']
    <3>4. old \subseteq new
      BY <2>2
    <3>5. reverse \in [DOMAIN reverse -> old] /\ entry \in new
      BY <3>3 DEF TypeReverse
    <3> HIDE DEF old, new
    <3>6. reverse \in [DOMAIN reverse -> new]
      BY <3>4, <3>5
    <3>7. reverse' \in [DOMAIN reverse \cup {nextReverse} -> new]
      BY <3>1, <3>5, <3>6 DEF Insert
    <3>8. DOMAIN reverse' = DOMAIN reverse \cup {nextReverse}
      BY <3>7
    <3>9. /\ nextReverse' \in Nat \ {0}
          /\ 1..(nextReverse - 1) \subseteq 1..(nextReverse' - 1)
          /\ nextReverse \in 1..(nextReverse' - 1)
      BY <3>1 DEF TypeReverse
    <3>. QED BY <2>1, <2>2, <2>3, <3>1, <3>7, <3>8, <3>9
         DEF TypeReverse, new
  <2>. QED BY <2>4, <2>5
<1>4. CASE UpstreamLost
  BY <1>4 DEF UpstreamLost, TypeReverse
<1>5. CASE UNCHANGED reverseVars
  BY <1>5 DEF TypeReverse
<1>. QED BY <1>1, <1>2, <1>3, <1>4, <1>5, ReverseFrame

\* The steps that touch the sequence map and the adapter's queue.
LEMMA RoutingFrame ==
    ASSUME TypeConnections, [Next]_vars
    PROVE  \/ UNCHANGED <<seqVars, queueVars>>
           \/ \E c \in Client : Depart(c)
           \/ \E c \in Client, q \in Nat, command \in AllCommands :
                /\ PendingRequest(c, q) \in Requests
                /\ Forward(c, q, command)
           \/ \E r \in atAdapter : RouteResponse(r)
           \/ UpstreamLost
<1>1. ASSUME NEW c \in Client, NEW q \in 0..MaxRequests, ClientRequest(c, q)
      PROVE  \/ UNCHANGED <<seqVars, queueVars>>
             \/ Depart(c)
             \/ \E command \in AllCommands : Forward(c, q, command)
  BY <1>1, MuxAssumption
     DEF ClientRequest, InitializeFromCache, BufferInitialize,
         ForwardInitialize, AbsorbLaunch, ForwardOther, ForwardLaunch,
         ForwardConfigurationDone, ForwardTerminate, AbsorbTerminate,
         RejectRestart, ForwardRestart, Disconnect, AllCommands
<1>2. ASSUME NEW c \in Client, NEW q \in 0..MaxRequests, ClientRequest(c, q)
      PROVE  PendingRequest(c, q) \in Requests /\ q \in Nat
  BY <1>2, RequestSends, SendsSpec
<1>3. ASSUME NEW c \in Client, ClientStep(c) \/ TaskStep(c)
      PROVE  \/ UNCHANGED <<seqVars, queueVars>>
             \/ Depart(c)
             \/ \E q \in 0..MaxRequests : ClientRequest(c, q)
  BY <1>3 DEF ClientStep, TaskStep, ReadEnds, WriteFails, AnswerReverse,
              RecordHandle, CancelledReadDropped
<1>4. ASSUME NEW r \in atAdapter, AdapterAnswer(r)
      PROVE  RouteResponse(r)
  BY <1>4 DEF AdapterAnswer, InitializeSucceeds, InitializeFails, Answers,
              RestartFails
<1>5. ASSUME \/ Register \/ AdapterEvent \/ Boundary
             \/ \E command \in AsksFor : ReverseRequest(command)
      PROVE  UNCHANGED <<seqVars, queueVars>> \/ UpstreamLost
  BY <1>5 DEF Register, AdapterEvent, InitializedEvent, StoppedEvent,
              ResumedEvent, ReverseRequest, Boundary, UpstreamWriteFails,
              EndSession, StopAccepting
<1>. QED BY <1>1, <1>2, <1>3, <1>4, <1>5 DEF Next, vars

\* Every step keeps the sequence map typed.
LEMMA RoutingTyped ==
    ASSUME TypeConnections, TypeRouting, [Next]_vars
    PROVE  TypeRouting'
<1>1. ASSUME NEW c \in Client, Depart(c)
      PROVE  TypeRouting'
  BY <1>1 DEF Depart, Cleanup, Restrict, TypeRouting
<1>2. ASSUME NEW r \in atAdapter, RouteResponse(r)
      PROVE  TypeRouting'
  BY <1>2 DEF RouteResponse, Resolve, Restrict, TypeRouting
<1>3. CASE UpstreamLost
  BY <1>3 DEF UpstreamLost, TypeRouting
<1>4. CASE UNCHANGED <<seqVars, queueVars>>
  BY <1>4 DEF TypeRouting
<1>. QED BY <1>1, <1>2, <1>3, <1>4, RoutingFrame, ForwardSpec

\* What clients hear, and what the adapter has announced.
LEMMA ViewsTyped ==
    ASSUME TypeConnections, TypeViews, [Next]_vars
    PROVE  TypeViews'
<1> USE MuxAssumption
<1> DEFINE heardVars == <<viewVars, replayVars, halted, stops, rerunning>>
<1>0. /\ 0 \in 0..MaxStops /\ lastStopped \in 0..MaxStops
      /\ NoStop = 0 /\ Reachable \subseteq clients /\ clients \subseteq Client
  BY ClientsInClient DEF TypeViews, NoStop, Reachable
<1>1. CASE Register
  BY <1>1 DEF Register, TypeViews
<1>2. ASSUME NEW c \in Client, Depart(c)
      PROVE  TypeViews'
  <2>1. view' \in [Client -> 0..MaxStops]
    BY <1>0, <1>2, HearStopSpec DEF Depart
  <2>. QED BY <1>2, <2>1 DEF Depart, TypeViews
<1>3. ASSUME NEW c \in Client, NEW q \in 0..MaxRequests, ClientRequest(c, q),
             ~Disconnect(c, q)
      PROVE  TypeViews'
  <2>1. ASSUME NEW optsIn \in OptIns, InitializeFromCache(c, q, optsIn)
        PROVE  TypeViews'
    <3>1. view' \in [Client -> 0..MaxStops]
      BY <1>0, <2>1, HearStopSpec
         DEF InitializeFromCache, RespondWithCachedInitialize
    <3>2. ready' \subseteq Client
      BY <1>0, <2>1
         DEF InitializeFromCache, RespondWithCachedInitialize, TypeViews
    <3>. QED BY <1>0, <2>1, <3>1, <3>2 DEF InitializeFromCache, TypeViews
  <2>2. CASE AbsorbTerminate(c, q)
    <3>1. view' \in [Client -> 0..MaxStops]
      BY <1>0, <2>2, HearStopSpec DEF AbsorbTerminate
    <3>. QED BY <2>2, <3>1 DEF AbsorbTerminate, TypeViews
  <2>3. CASE ForwardRestart(c, q)
    BY <2>3 DEF ForwardRestart, TypeViews, NoStop
  <2>4. ASSUME ~AbsorbTerminate(c, q), ~ForwardRestart(c, q),
               \A optsIn \in OptIns : ~InitializeFromCache(c, q, optsIn)
        PROVE  UNCHANGED <<heardVars, clients>>
    BY <1>3, <2>4
       DEF ClientRequest, BufferInitialize, ForwardInitialize, AbsorbLaunch,
           ForwardOther, ForwardLaunch, ForwardConfigurationDone,
           ForwardTerminate, RejectRestart
  <2>. QED BY <2>1, <2>2, <2>3, <2>4 DEF TypeViews
<1>4. ASSUME NEW r \in atAdapter, AdapterAnswer(r)
      PROVE  TypeViews'
  <2>1. ASSUME NEW offered \in Offers, InitializeSucceeds(r, offered)
        PROVE  TypeViews'
    <3>1. view' \in [Client -> 0..MaxStops]
      BY <1>0, <2>1, HearStopSpec
         DEF InitializeSucceeds, RespondWithCachedInitialize
    <3>2. ready' \subseteq Client
      BY <1>0, <2>1
         DEF InitializeSucceeds, RespondWithCachedInitialize, TypeViews
    <3>3. joined' \subseteq clients
      BY <1>0, <2>1 DEF InitializeSucceeds, TypeViews
    <3>. QED BY <2>1, <3>1, <3>2, <3>3 DEF InitializeSucceeds, TypeViews
  <2>2. CASE Answers(r)
    BY <2>2 DEF Answers, TypeViews, NoStop
  <2>3. CASE InitializeFails(r) \/ RestartFails(r)
    BY <2>3 DEF InitializeFails, RestartFails, TypeViews
  <2>. QED BY <1>4, <2>1, <2>2, <2>3 DEF AdapterAnswer
<1>5. CASE AdapterEvent
  <2>1. CASE InitializedEvent
    BY <1>0, <2>1 DEF InitializedEvent, TypeViews
  <2>2. CASE StoppedEvent
    <3>1. stops + 1 \in 0..MaxStops
      BY <2>2 DEF StoppedEvent, TypeViews
    <3>2. view' \in [Client -> 0..MaxStops]
      BY <2>2, <3>1, HearStopSpec DEF StoppedEvent
    <3>3. /\ stops' = stops + 1 /\ halted' = stops' /\ lastStopped' = stops'
          /\ rerunning' = FALSE
          /\ UNCHANGED <<joined, ready, detached, initializedEvent, clients>>
      BY <2>2 DEF StoppedEvent
    <3>4. stops' \in 0..stops'
      BY <3>3 DEF TypeViews
    <3>. QED BY <3>1, <3>2, <3>3, <3>4 DEF TypeViews
  <2>3. CASE ResumedEvent
    <3>1. view' \in [Client -> 0..MaxStops]
      BY <1>0, <2>3, HearStopSpec DEF ResumedEvent
    <3>2. /\ halted' = 0 /\ lastStopped' = 0 /\ rerunning' = FALSE
          /\ UNCHANGED <<joined, ready, detached, initializedEvent, stops,
                         clients>>
      BY <2>3 DEF ResumedEvent, NoStop
    <3>3. stops \in Nat /\ 0 \in 0..stops'
      BY <3>2 DEF TypeViews
    <3>4. {initializedEvent', rerunning'} \subseteq BOOLEAN
      BY <3>2 DEF TypeViews
    <3>. QED BY <3>1, <3>2, <3>3, <3>4 DEF TypeViews
  <2>. QED BY <1>5, <2>1, <2>2, <2>3 DEF AdapterEvent
<1>6. CASE UpstreamLost
  <2>1. view' \in [Client -> 0..MaxStops]
    BY <1>0, <1>6, HearStopSpec DEF UpstreamLost
  <2>. QED BY <1>0, <1>6, <2>1 DEF UpstreamLost, TypeViews
<1>7. CASE EndSession
  BY <1>7 DEF EndSession, TypeViews
<1>8. ASSUME NEW c \in Client, ClientStep(c) \/ TaskStep(c)
      PROVE  \/ UNCHANGED <<heardVars, clients>>
             \/ Depart(c)
             \/ \E q \in 0..MaxRequests : ClientRequest(c, q)
  BY <1>8 DEF ClientStep, TaskStep, ReadEnds, WriteFails, AnswerReverse,
              RecordHandle, CancelledReadDropped
<1>9. ASSUME \/ UpstreamWriteFails \/ StopAccepting
             \/ \E command \in AsksFor : ReverseRequest(command)
      PROVE  UNCHANGED <<heardVars, clients>>
  BY <1>9 DEF UpstreamWriteFails, StopAccepting, ReverseRequest
<1>10. CASE UNCHANGED <<heardVars, clients>>
  BY <1>10 DEF TypeViews
<1>11. ASSUME NEW c \in Client, NEW q \in 0..MaxRequests, Disconnect(c, q)
       PROVE  Depart(c)
  BY <1>11 DEF Disconnect
<1> HIDE DEF heardVars
<1>12. CASE UNCHANGED vars
  BY <1>12 DEF vars, TypeViews
<1>. QED BY <1>1, <1>2, <1>3, <1>4, <1>5, <1>6, <1>7, <1>8, <1>9, <1>10,
            <1>11, <1>12 DEF Next, Boundary

\* Every step keeps the handshake typed, flags only for registered clients.
LEMMA HandshakeTyped ==
    ASSUME TypeConnections, TypeHandshake, TypeRouting, [Next]_vars
    PROVE  TypeHandshake'
<1> USE MuxAssumption
<1>1. CASE Register
  BY <1>1 DEF Register, TypeHandshake
<1>2. ASSUME NEW c \in Client, Depart(c)
      PROVE  TypeHandshake'
  <2>1. /\ initOrder' \in Seq(Client)
        /\ willing' \subseteq Listed(initOrder')
    BY <1>2, ForgetSpec DEF Depart, TypeHandshake
  <2>. QED BY <1>2, <2>1 DEF Depart, TypeHandshake
<1>3. ASSUME NEW c \in Client, NEW q \in 0..MaxRequests, ClientRequest(c, q),
             ~Disconnect(c, q)
      PROVE  TypeHandshake'
  <2>1. /\ PendingRequest(c, q) \in Requests
        /\ Asked(c, q) \subseteq Requests
    BY <1>3, RequestSends, SendsSpec, AskedSpec
  <2>2. \E answers : Settle(Asked(c, q), answers)
    BY <1>3
       DEF ClientRequest, InitializeFromCache, BufferInitialize,
           ForwardInitialize, AbsorbLaunch, ForwardOther, ForwardLaunch,
           ForwardConfigurationDone, ForwardTerminate, AbsorbTerminate,
           RejectRestart, ForwardRestart
  <2>3. awaiting' \subseteq Requests /\ misrouted' \in BOOLEAN
    BY <2>1, <2>2, SettleSpec
  <2>4. \/ UNCHANGED argVars
        \/ \E optsIn \in OptIns : SetInitArgs(c, optsIn)
    BY <1>3
       DEF ClientRequest, InitializeFromCache, BufferInitialize,
           ForwardInitialize, AbsorbLaunch, ForwardOther, ForwardLaunch,
           ForwardConfigurationDone, ForwardTerminate, AbsorbTerminate,
           RejectRestart, ForwardRestart
  <2>5. /\ initOrder' \in Seq(Client)
        /\ willing' \subseteq Listed(initOrder')
    <3>1. CASE UNCHANGED argVars
      BY <3>1 DEF TypeHandshake
    <3>. QED BY <2>4, <3>1, SetInitArgsSpec
  <2>6. /\ phase' \in Phases
        /\ pendingInitialize' \subseteq pendingInitialize
                                          \cup {PendingRequest(c, q)}
        /\ initialized' \subseteq clients
        /\ UNCHANGED <<caps, clients, accepted>>
    BY <1>3
       DEF ClientRequest, InitializeFromCache, BufferInitialize,
           ForwardInitialize, AbsorbLaunch, ForwardOther, ForwardLaunch,
           ForwardConfigurationDone, ForwardTerminate, AbsorbTerminate,
           RejectRestart, ForwardRestart, Configure, TypeHandshake, Phases
  <2>. QED BY <2>1, <2>3, <2>5, <2>6 DEF TypeHandshake
<1>4. ASSUME NEW r \in atAdapter, AdapterAnswer(r)
      PROVE  TypeHandshake'
  <2>1. Settle({}, Origin(r) \cup Served(r)) /\ UNCHANGED argVars
    BY <1>4 DEF AdapterAnswer, InitializeSucceeds, InitializeFails, Answers,
                RestartFails, RouteResponse
  <2>2. awaiting' \subseteq Requests /\ misrouted' \in BOOLEAN
    BY <2>1, SettleSpec
  <2>3. /\ phase' \in Phases
        /\ pendingInitialize' \subseteq pendingInitialize
        /\ initialized' \subseteq clients
        /\ accepted' \in BOOLEAN
        /\ caps' \in SUBSET Capabilities
        /\ UNCHANGED clients
    BY <1>4 DEF AdapterAnswer, InitializeSucceeds, InitializeFails, Answers,
                RestartFails, TypeHandshake, Phases
  <2>. QED BY <2>1, <2>2, <2>3 DEF TypeHandshake
<1>5. CASE EndSession
  BY <1>5 DEF EndSession, TypeHandshake
<1>6. CASE UNCHANGED <<handshakeVars, argVars, answerVars, accepted, clients>>
  BY <1>6 DEF TypeHandshake
<1>7. ASSUME NEW c \in Client, ClientStep(c) \/ TaskStep(c)
      PROVE  \/ UNCHANGED <<handshakeVars, argVars, answerVars, accepted,
                            clients>>
             \/ Depart(c)
             \/ \E q \in 0..MaxRequests :
                  ClientRequest(c, q) /\ ~Disconnect(c, q)
  BY <1>7 DEF ClientStep, TaskStep, ReadEnds, WriteFails, AnswerReverse,
              RecordHandle, CancelledReadDropped, Disconnect
<1>8. ASSUME \/ AdapterEvent \/ Boundary
             \/ \E command \in AsksFor : ReverseRequest(command)
      PROVE  \/ UNCHANGED <<handshakeVars, argVars, answerVars, accepted,
                            clients>>
             \/ EndSession
  BY <1>8 DEF AdapterEvent, InitializedEvent, StoppedEvent, ResumedEvent,
              ReverseRequest, Boundary, UpstreamWriteFails, UpstreamLost,
              StopAccepting
<1>. QED BY <1>1, <1>2, <1>3, <1>4, <1>5, <1>6, <1>7, <1>8 DEF Next, vars

-----------------------------------------------------------------------------

\* The initial state is typed.
LEMMA TypeInit == ASSUME Init PROVE TypeOK
<1> USE MuxAssumption
<1>1. TypeConnections
  <2>1. /\ clientCounter = 0 /\ clients = {} /\ broken = {}
        /\ reader = [c \in Client |-> "unborn"]
        /\ sent = [c \in Client |-> 0]
        /\ upstream = "open"
    BY DEF Init
  <2>2. {accepting, over, shutdown, adapterUp} \subseteq BOOLEAN
    BY DEF Init
  <2>. QED BY <2>1, <2>2 DEF TypeConnections
<1>2. TypeHandshake
  <2>1. /\ phase = "PreInit" /\ pendingInitialize = {} /\ caps = {}
        /\ initialized = {} /\ initOrder = <<>> /\ willing = {}
        /\ awaiting = {}
    BY DEF Init
  <2>2. {misrouted, accepted} \subseteq BOOLEAN
    BY DEF Init
  <2>. QED BY <2>1, <2>2 DEF TypeHandshake, Phases
<1>3. TypeRouting
  BY DEF Init, TypeRouting, EmptyMap
<1>4. TypeReverse
  <2>1. /\ nextReverse = 1 /\ reverse = EmptyMap /\ heard = {}
        /\ asks = 0 /\ owed = {}
    BY DEF Init
  <2>2. doubled \in BOOLEAN
    BY DEF Init
  <2>3. DOMAIN reverse = {} /\ reverse = [k \in DOMAIN reverse |-> 0]
    BY <2>1 DEF EmptyMap
  <2>4. /\ DOMAIN reverse \subseteq 1..(nextReverse - 1)
        /\ reverse \in [DOMAIN reverse -> [client : Client,
                          command : ReverseRequests, adapterSeq : 1..asks]]
    <3> DEFINE entries == [client : Client, command : ReverseRequests,
                           adapterSeq : 1..asks]
    <3> HIDE DEF entries
    <3>1. reverse \in [DOMAIN reverse -> entries]
      BY <2>3
    <3>. QED BY <2>3, <3>1 DEF entries
  <2>5. nextReverse \in Nat \ {0} /\ asks \in 0..MaxAsks
    BY <2>1
  <2>6. heard \subseteq 1..(nextReverse - 1) /\ owed \subseteq 1..asks
    BY <2>1
  <2>. QED BY <2>2, <2>4, <2>5, <2>6 DEF TypeReverse
<1>5. TypeViews
  <2>1. /\ joined = {} /\ ready = {} /\ detached = {} /\ stops = 0
        /\ halted = 0 /\ lastStopped = 0 /\ view = [c \in Client |-> 0]
    BY DEF Init, NoStop
  <2>2. {initializedEvent, rerunning} \subseteq BOOLEAN
    BY DEF Init
  <2>. QED BY <2>1, <2>2 DEF TypeViews
<1>. QED BY <1>1, <1>2, <1>3, <1>4, <1>5 DEF TypeOK

\* Every step keeps the whole state typed.
LEMMA TypeStep == TypeOK /\ [Next]_vars => TypeOK'
BY ConnectionsTyped, HandshakeTyped, RoutingTyped, ReverseTyped, ViewsTyped
   DEF TypeOK

\* For every number of clients and requests, whatever clients send and however
\* connections fail: every table of the mux is keyed by numbers it has handed
\* out, and flags are kept only for registered clients.
THEOREM TypeCorrect == Spec => []TypeOK
BY TypeInit, TypeStep, PTL DEF Spec

=============================================================================
