------------------------- MODULE MuxProperties -------------------------
(***************************************************************************)
(* What the multiplexer owes its clients, its adapter and its operator.    *)
(***************************************************************************)
EXTENDS Mux

(* The state has the shape the code's types give it, part by part.         *)

TypeConnections ==
    /\ clientCounter \in 0..MaxClients
    /\ clients \subseteq 1..clientCounter
    /\ broken \subseteq 1..clientCounter
    /\ reader \in [Client ->
                    {"unborn", "fresh", "running", "cancelled", "ended"}]
    /\ sent \in [Client -> Nat]
    /\ \A c \in Client :
         c > clientCounter => reader[c] = "unborn" /\ sent[c] = 0
    /\ upstream \in {"open", "broken", "none"}
    /\ {accepting, over, shutdown, adapterUp} \subseteq BOOLEAN

TypeHandshake ==
    /\ phase \in Phases
    /\ pendingInitialize \subseteq Requests
    /\ caps \in SUBSET Capabilities
    /\ initialized \subseteq clients
    /\ initOrder \in Seq(Client)
    /\ willing \subseteq Listed(initOrder)
    /\ awaiting \subseteq Requests
    /\ {misrouted, accepted} \subseteq BOOLEAN

TypeRouting ==
    /\ nextSeq \in Nat \ {0}
    /\ DOMAIN pending \subseteq 1..(nextSeq - 1)
    /\ pending \in [DOMAIN pending -> Requests]
    /\ atAdapter \subseteq [proxy : 1..(nextSeq - 1), command : AllCommands,
                            origin : Requests]
    /\ configured \in Nat

TypeReverse ==
    /\ nextReverse \in Nat \ {0}
    /\ DOMAIN reverse \subseteq 1..(nextReverse - 1)
    /\ reverse \in [DOMAIN reverse -> [client : Client,
                       command : ReverseRequests, adapterSeq : 1..asks]]
    /\ heard \subseteq 1..(nextReverse - 1)
    /\ asks \in 0..MaxAsks
    /\ owed \subseteq 1..asks
    /\ doubled \in BOOLEAN

TypeViews ==
    /\ joined \subseteq clients
    /\ ready \subseteq Client
    /\ detached \subseteq Client
    /\ stops \in 0..MaxStops
    /\ halted \in 0..stops
    /\ lastStopped \in 0..stops
    /\ view \in [Client -> 0..MaxStops]
    /\ {initializedEvent, rerunning} \subseteq BOOLEAN

\* The shape of the state: maps are keyed by numbers already handed out, and
\* connection ids are those already counted.
TypeOK ==
    /\ TypeConnections
    /\ TypeHandshake
    /\ TypeRouting
    /\ TypeReverse
    /\ TypeViews

-----------------------------------------------------------------------------
(* Responses.                                                              *)

\* Every response reaches the client that asked, under that client's own seq,
\* and no request is answered twice, whatever mixture of forwarding, buffering,
\* caching, synthetic answers and departures is in progress.
ResponsesRouted ==
    /\ ~misrouted
    /\ \A r \in atAdapter : r.proxy \in DOMAIN pending =>
                              pending[r.proxy] = r.origin

HasSent(a) == a.seq \in 1..sent[a.client]

\* What makes it so: a pending request, or one buffered behind an initialize in
\* flight, is one its client sent and, if still connected, waits for, and no
\* request has two ways home (the id of a client that is yet to connect has
\* none).  A request that came without a seq has none either.
RoutesIntact ==
    /\ ResponsesRouted
    /\ \A p \in DOMAIN pending :
         /\ HasSent(pending[p])
         /\ pending[p].client \in clients => pending[p] \in awaiting
         /\ pending[p] \notin pendingInitialize
    /\ \A p, s \in DOMAIN pending : pending[p] = pending[s] => p = s
    /\ \A a \in pendingInitialize : a.seq # NoSeq =>
         /\ HasSent(a)
         /\ a.client \in clients => a \in awaiting

InFlight(command) == {r \in atAdapter : r.command = command}

\* While the adapter is connected no request of a reachable client is lost: it
\* is at the adapter with its route home intact, or it is a buffered initialize
\* behind one whose answer will settle it.
NothingLost ==
    upstream = "open" =>
      \A a \in awaiting : a.client \in Reachable =>
        \/ \E r \in atAdapter : Origin(r) = {a}
        \/ /\ a \in pendingInitialize
           /\ \E r \in atAdapter : SettlesHandshake(r) /\ ~accepted

\* The adapter sees one handshake whatever its clients send: at most one
\* initialize at a time and none after it accepted one (it would ignore it),
\* and at most one configurationDone.
HandshakeOnce ==
    /\ \A r, s \in InFlight("initialize") : r = s
    /\ accepted => InFlight("initialize") = {}
    /\ configured <= 1

\* A departed client leaves nothing in the session: no pending request, no
\* buffered initialize, no arguments that attract reverse requests.
GoneLeaveNothing ==
    ~over =>
      /\ \A p \in DOMAIN pending : pending[p].client \in clients
      /\ Senders(pendingInitialize) \subseteq clients
      /\ Listed(initOrder) \subseteq clients

-----------------------------------------------------------------------------
(* Late joiners.                                                           *)

\* A client whose initialize succeeded knows what the others know, whenever it
\* joined: the adapter is initialized, and which stop is current.  (Between a
\* restart and the next event the mux has forgotten the stop its clients saw.)
JoinersCaughtUp ==
    \A c \in joined \cap Reachable :
      /\ initializedEvent => c \in ready
      /\ c \notin detached =>
           \/ view[c] = lastStopped
           \/ rerunning /\ lastStopped = NoStop

\* The mux "replays session state to late joiners" (lib.rs): what a joiner is
\* told of is the stop the debuggee sits at, never one that is over.
NoStaleStop ==
    [][ \A c \in joined' \ joined : view'[c] \in {NoStop, halted'} ]_vars

\* None is left unaware of one: the stop the debuggee sits at is cached, unless
\* a restart was forwarded since the last event.  Who joins, leaves, terminates
\* or is answered meanwhile changes nothing of that.
StopKept == halted # NoStop /\ ~rerunning => lastStopped = halted

\* A late joiner is told of the stop the debuggee sits at, unless a restart is
\* on its way.
NoForgottenStop ==
    halted # NoStop /\ InFlight("restart") = {} => lastStopped = halted

-----------------------------------------------------------------------------
(* Reverse requests.                                                       *)

\* The adapter, blocked on its own request, is neither stranded nor answered
\* twice: each request it waits for is held for exactly one connected client,
\* and nothing else is held.
ReverseAccounted ==
    upstream = "open" =>
      /\ ~doubled
      /\ \A a \in owed : \E p \in DOMAIN reverse :
           reverse[p].adapterSeq = a /\ reverse[p].client \in clients
      /\ \A p \in DOMAIN reverse : reverse[p].adapterSeq \in owed
      /\ \A p, s \in DOMAIN reverse :
           reverse[p].adapterSeq = reverse[s].adapterSeq => p = s

\* "any path that cannot deliver the request to a client must answer the
\* adapter itself" (route_reverse_request): what is held for a client was
\* delivered to it.
UndeliverableIsAnswered ==
    upstream = "open" => DOMAIN reverse \subseteq heard

\* Until the session is ended a reverse request is turned down only when no
\* connected client has sent its initialize, and a runInTerminal goes to one that
\* opted in when there is one.
AsksReachWillingClients ==
    [][ LET routed == DOMAIN reverse' \ DOMAIN reverse IN
          /\ asks' # asks /\ ~over /\ clients \cap Listed(initOrder) # {}
               => routed # {}
          /\ \A p \in routed :
               reverse'[p].command = "runInTerminal" =>
                 \/ over \/ clients \cap willing = {}
                 \/ reverse'[p].client \in clients \cap willing ]_vars

-----------------------------------------------------------------------------
(* The shared debuggee and the session boundary.                           *)

\* end_session: "close every downstream client connection"; once the operator
\* interface has gone on after a lost adapter and the accept loop has stopped
\* too, no read task serves a client of the dead session.
BoundaryClosesConnections ==
    /\ shutdown /\ over /\ ~accepting
    /\ \A c \in Client : reader[c] # "fresh"
    => \A c \in Client : reader[c] # "running"

-----------------------------------------------------------------------------
(* Progress.                                                               *)

\* Every request is answered, its client leaves or can no longer be written to,
\* or the adapter is gone.
EveryRequestSettled ==
    \A c \in Client, q \in 1..MaxRequests :
      PendingRequest(c, q) \in awaiting
        ~> \/ PendingRequest(c, q) \notin awaiting
           \/ c \in broken
           \/ upstream # "open"

HeldUndelivered(a) ==
    \E p \in DOMAIN reverse : reverse[p].adapterSeq = a /\ p \notin heard

\* Every reverse request is answered while the adapter is there to hear it,
\* unless it was held for a client without being delivered.
EveryAskSettled ==
    \A a \in 1..MaxAsks :
      a \in owed ~> a \notin owed \/ HeldUndelivered(a) \/ upstream # "open"

=============================================================================
