------------------------------ MODULE Mux ------------------------------
(***************************************************************************)
(* mux.rs: one debug adapter shared by many clients.                       *)
(*                                                                         *)
(* Every handler of the Multiplexer takes the one mutex around MuxState    *)
(* for its whole body, so each is one action.  What is not atomic, and is  *)
(* modelled step by step, is everything around the mutex: a client is      *)
(* registered under one lock and gets its abort handle under another, an   *)
(* aborted read task goes on handling the messages it already buffered, a  *)
(* write loop dies while its queue is still registered, the accept loop    *)
(* outlives the session it feeds, and the adapter answers in any order.    *)
(*                                                                         *)
(* A message counts as sent when the mux handles it (the wire before that  *)
(* is the sender's delay) and as heard when the mux enqueues it to a live  *)
(* write loop (the queue is unbounded, FIFO and drained before it closes). *)
(* Messages that change nothing (non-requests nobody asked for, filtered   *)
(* and unknown events) are stuttering steps.                               *)
(***************************************************************************)
EXTENDS Integers, Sequences, FiniteSets, SeqMap, Compat

CONSTANTS
    MaxClients,        \* bound: connections accepted in the session
    MaxRequests,       \* bound: requests the clients send, together
    MaxStops,          \* bound: stopped events of the adapter
    MaxAsks,           \* bound: reverse requests of the adapter
    MaxBroken,         \* bound: write loops that die before the read side notices
    Commands,          \* the commands clients send in this instance
    AsksFor,           \* the reverse requests the adapter makes
    OptIns,            \* whether clients opt in to runInTerminal
    Offers,            \* capability sets the adapter may advertise
    OperatorOwned,     \* new_operator_owned(): the TUI owns the session
    Disciplined,       \* clients follow DAP: initialize first, wait for it
    SeqMayBeMissing,   \* a request may come without a seq
    UpstreamMayBreak,  \* the write loop to the adapter may die
    UpstreamMayDrop    \* the adapter connection may be lost

AllCommands == {"initialize", "launch", "configurationDone", "terminate",
                "disconnect", "restart", "continue", "threads"}

Capabilities == {"restart", "terminate"}

ASSUME MuxAssumption ==
    /\ MaxClients \in Nat /\ MaxRequests \in Nat
    /\ MaxStops \in Nat /\ MaxAsks \in Nat /\ MaxBroken \in Nat
    /\ Commands \subseteq AllCommands
    /\ AsksFor \subseteq ReverseRequests
    /\ OptIns \subseteq BOOLEAN
    /\ Offers \subseteq SUBSET Capabilities
    /\ {OperatorOwned, Disciplined, SeqMayBeMissing, UpstreamMayBreak,
        UpstreamMayDrop} \subseteq BOOLEAN

Client == 1..MaxClients         \* client_counter numbers them

NoSeq == 0                      \* a request without a seq, and its answer

Requests == [client : Client, seq : Nat]

Phases == {"PreInit", "Initializing", "Initialized", "Configured"}

NoStop == 0                     \* no stopped event

VARIABLES
    (* MuxState *)
    clients,           \* ids in the `clients` vector
    initialized,       \* those whose `initialized` flag is set
    clientCounter,
    phase,
    pendingInitialize, \* buffered initialize requests
    caps,              \* cached_capabilities ({} when there are none)
    initializedEvent,  \* whether an initialized event is cached
    lastStopped,       \* the cached stopped event, or NoStop
    initOrder,         \* client_init_args: the ids, in initialize order
    willing,           \* client_init_args: ids that opted in
    upstream,          \* upstream_tx: "open", "broken" (queue with no
                       \* reader) or "none"
    pending, nextSeq,  \* seq_map
    reverse, nextReverse,
    (* the tasks around it *)
    reader,            \* the read task of each client
    broken,            \* clients whose write loop has died
    accepting,         \* the accept loop still feeds this mux
    over,              \* end_session has run
    shutdown,          \* the shutdown notification is set
    (* the clients, as they see the session *)
    sent,              \* requests each has sent
    awaiting,          \* requests a connected client waits for
    misrouted,         \* a response came that nobody waited for
    joined,            \* clients told their initialize succeeded
    ready,             \* clients that heard the initialized event
    view,              \* the stop each client last heard of
    detached,          \* clients told the debuggee is over for them
    (* the adapter *)
    adapterUp,         \* its connection is up
    atAdapter,         \* requests it has not answered
    accepted,          \* it accepted an initialize
    configured,        \* configurationDone requests that reached it
    halted,            \* the stop the debuggee sits at, or NoStop
    stops,             \* stopped events so far
    rerunning,         \* a restart was forwarded after the last event
    asks,              \* reverse requests made so far
    owed,              \* reverse requests it waits for
    heard,             \* proxy seqs of those delivered to a client
    doubled            \* a reverse request was answered twice

lifecycleVars == <<clientCounter, accepting, over, shutdown, adapterUp>>
connVars      == <<clients, reader, broken>>
argVars       == <<initOrder, willing>>
handshakeVars == <<phase, pendingInitialize, caps, initialized>>
replayVars    == <<initializedEvent, lastStopped>>
seqVars       == <<pending, nextSeq>>
reverseVars   == <<reverse, nextReverse, asks, owed, heard, doubled>>
answerVars    == <<awaiting, misrouted>>
viewVars      == <<joined, ready, view, detached>>
adapterVars   == <<accepted, halted, stops, rerunning>>
queueVars     == <<atAdapter, configured>>

worldVars   == <<connVars, lifecycleVars, upstream>>
sessionVars == <<argVars, handshakeVars, replayVars, seqVars, reverseVars>>
partyVars   == <<answerVars, viewVars, adapterVars, queueVars, sent>>

vars == <<worldVars, sessionVars, partyVars>>

-----------------------------------------------------------------------------
(* What a client hears: only a registered client has a queue, and only a   *)
(* live write loop drains it.  The result of every send is ignored.        *)

Reachable == clients \ broken

Delivered(answers) ==
    {a \in answers : a.client \in Reachable /\ a.seq # NoSeq}

\* The client asks `new` and the mux sends `answers`, in one step.
Settle(new, answers) ==
    /\ awaiting' = (awaiting \cup new) \ Delivered(answers)
    /\ misrouted' =
         (misrouted \/ ~(Delivered(answers) \subseteq awaiting \cup new))

Senders(requests) == {a.client : a \in requests}

HearStop(hearers, stop) ==
    view' = [c \in Client |-> IF c \in hearers THEN stop ELSE view[c]]

\* What c waits for once it has sent request q.
Asked(c, q) ==
    IF c \in clients /\ q # NoSeq THEN {PendingRequest(c, q)} ELSE {}

\* The mux tells the adapter that the reverse requests `ids` are settled.
AnswerAdapter(ids) ==
    LET told == IF upstream = "open" THEN ids ELSE {}
    IN  /\ owed' = owed \ told
        /\ doubled' = (doubled \/ ~(told \subseteq owed))

-----------------------------------------------------------------------------
(* Connections.                                                            *)

Init ==
    /\ clients = {} /\ initialized = {} /\ clientCounter = 0
    /\ phase = "PreInit" /\ pendingInitialize = {} /\ caps = {}
    /\ initializedEvent = FALSE /\ lastStopped = NoStop
    /\ initOrder = <<>> /\ willing = {}
    /\ upstream = "open"
    /\ pending = EmptyMap /\ nextSeq = 1
    /\ reverse = EmptyMap /\ nextReverse = 1
    /\ reader = [c \in Client |-> "unborn"] /\ broken = {}
    /\ accepting = TRUE /\ over = FALSE /\ shutdown = FALSE
    /\ sent = [c \in Client |-> 0] /\ awaiting = {} /\ misrouted = FALSE
    /\ joined = {} /\ ready = {} /\ detached = {}
    /\ view = [c \in Client |-> NoStop]
    /\ adapterUp = TRUE /\ atAdapter = {} /\ accepted = FALSE
    /\ configured = 0 /\ halted = NoStop /\ stops = 0 /\ rerunning = FALSE
    /\ asks = 0 /\ owed = {} /\ heard = {} /\ doubled = FALSE

\* Bug: the id is used before it is counted.
RegisterUncounted ==
    /\ accepting /\ clientCounter < MaxClients
    /\ clients' = clients \cup {clientCounter + 1}
    /\ reader' = [reader EXCEPT ![clientCounter + 1] = "fresh"]
    /\ UNCHANGED <<partyVars, sessionVars, broken, lifecycleVars, upstream>>

\* register_client, first lock: the client is in the vector, its loops run.
Register ==
    /\ accepting /\ clientCounter < MaxClients
    /\ clientCounter' = clientCounter + 1
    /\ clients' = clients \cup {clientCounter + 1}
    /\ reader' = [reader EXCEPT ![clientCounter + 1] = "fresh"]
    /\ UNCHANGED <<partyVars, sessionVars, broken, accepting, over, shutdown,
                   adapterUp, upstream>>

\* register_client, second lock: the abort handle is stored if the client is
\* still in the vector; otherwise the read task runs on with nobody to stop it.
RecordHandle(c) ==
    /\ reader[c] = "fresh"
    /\ reader' = [reader EXCEPT ![c] = "running"]
    /\ UNCHANGED <<partyVars, sessionVars, clients, broken, lifecycleVars,
                   upstream>>

\* Bug: not only the departing client's task is aborted.
AbortEverybody(gone) ==
    [c \in Client |-> IF reader[c] = "running" THEN "cancelled" ELSE reader[c]]

\* Aborting a task cancels it at its next wait; without a handle it is a no-op.
AbortAll(gone) ==
    [c \in Client |-> IF c \in gone /\ reader[c] = "running"
                      THEN "cancelled" ELSE reader[c]]

\* The element c (present once) dropped from a sequence, order kept.
Forget(order, c) ==
    IF c \in Listed(order)
    THEN LET at == CHOOSE i \in DOMAIN order : order[i] = c
         IN  SubSeq(order, 1, at - 1) \o SubSeq(order, at + 1, Len(order))
    ELSE order

\* Bug: a departing client is not looked up in reverse_requests.
HeldForNobody(c) == {}

\* The reverse requests c still owes the adapter an answer for.
HeldFor(c) == {p \in DOMAIN reverse : reverse[p].client = c}

\* cleanup_client_state, with the removal from the vector that precedes it.
Depart(c) ==
    LET orphaned == HeldFor(c)
    IN  /\ clients' = clients \ {c}
        /\ initialized' = initialized \ {c}
        /\ pending' = Cleanup(pending, c)
        /\ initOrder' = Forget(initOrder, c)
        /\ willing' = willing \ {c}
        /\ pendingInitialize' =
             {a \in pendingInitialize : a.client # c}
        /\ reverse' = Restrict(reverse, DOMAIN reverse \ orphaned)
        /\ AnswerAdapter({reverse[p].adapterSeq : p \in orphaned})
        /\ awaiting' = {a \in awaiting : a.client # c}
        /\ joined' = joined \ {c} /\ ready' = ready \ {c}
        /\ detached' = detached \ {c} /\ HearStop({c}, NoStop)
        /\ UNCHANGED <<phase, caps, replayVars, nextSeq,
                       nextReverse, asks, heard, misrouted, adapterVars,
                       queueVars, upstream, lifecycleVars, broken>>

CanHandle(c) == reader[c] \in {"fresh", "running", "cancelled"}

\* handle_client_disconnect: the read loop met end of input or an error.
ReadEnds(c) ==
    /\ CanHandle(c)
    /\ reader' = [reader EXCEPT ![c] = "ended"]
    /\ Depart(c)
    /\ UNCHANGED sent

\* A cancelled read task is dropped at its next wait: no callback runs.
CancelledReadDropped(c) ==
    /\ reader[c] = "cancelled"
    /\ reader' = [reader EXCEPT ![c] = "ended"]
    /\ UNCHANGED <<partyVars, sessionVars, clients, broken, lifecycleVars,
                   upstream>>

\* write_loop returns on a write error; the client stays registered.
WriteFails(c) ==
    /\ Cardinality(broken) < MaxBroken /\ c \in Reachable
    /\ broken' = broken \cup {c}
    /\ UNCHANGED <<partyVars, sessionVars, clients, reader, lifecycleVars,
                   upstream>>

-----------------------------------------------------------------------------
(* Requests of clients: handle_client_message.                             *)

\* Client c sends a request whose seq is q (NoSeq when it has none).
Sends(c, q, command) ==
    /\ command \in Commands
    /\ CanHandle(c) /\ SumFunction(sent) < MaxRequests
    /\ q = sent[c] + 1 \/ (SeqMayBeMissing /\ q = NoSeq)
    /\ sent' = [sent EXCEPT ![c] = sent[c] + 1]
    /\ Disciplined =>
         /\ c \in clients
         /\ \/ c \in joined /\ command # "initialize"
            \/ command = "disconnect"
            \/ /\ command = "initialize" /\ c \notin joined
               /\ c \notin Senders(awaiting)

\* Bug: the proxy seq is not advanced.
ForwardSameSeq(c, q, command) ==
    /\ pending' = Allocate(pending, nextSeq, c, q)
    /\ atAdapter' = atAdapter \cup
         {[proxy |-> nextSeq, command |-> command,
           origin |-> PendingRequest(c, q)]}
    /\ UNCHANGED <<nextSeq, configured>>

\* The tail of the handler: rewrite the seq and put the request upstream.
Forward(c, q, command) ==
    IF q = NoSeq
    THEN UNCHANGED <<seqVars, queueVars>>
    ELSE LET arrives == upstream = "open"
         IN  /\ pending' = Allocate(pending, nextSeq, c, q)
             /\ nextSeq' = nextSeq + 1
             /\ atAdapter' =
                  IF arrives
                  THEN atAdapter \cup {[proxy |-> nextSeq, command |-> command,
                                        origin |-> PendingRequest(c, q)]}
                  ELSE atAdapter
             /\ configured' =
                  IF arrives /\ command = "configurationDone"
                  THEN configured + 1 ELSE configured

\* set_init_args: the arguments are replaced in place or appended.
SetInitArgs(c, optsIn) ==
    /\ initOrder' = IF c \in Listed(initOrder) THEN initOrder
                    ELSE Append(initOrder, c)
    /\ willing' = IF optsIn THEN willing \cup {c} ELSE willing \ {c}

\* Bug: a late joiner is not told of the current stop.
RespondWithoutStop(requests) ==
    /\ ready' = IF initializedEvent
                THEN ready \cup (Senders(requests) \cap Reachable) ELSE ready
    /\ UNCHANGED view

\* respond_with_cached_initialize to each request of a set: success, then the
\* cached initialized event, then the cached stop.
RespondWithCachedInitialize(requests) ==
    LET told == Senders(requests) \cap Reachable
    IN  /\ ready' = IF initializedEvent THEN ready \cup told ELSE ready
        /\ HearStop(IF lastStopped = NoStop THEN {} ELSE told, lastStopped)

InitializeFromCache(c, q, optsIn) ==
    /\ phase \in {"Initialized", "Configured"}
    /\ Sends(c, q, "initialize")
    /\ SetInitArgs(c, optsIn)
    /\ LET request == PendingRequest(c, q) IN
         /\ RespondWithCachedInitialize({request})
         /\ Settle(Asked(c, q), {request})
         /\ initialized' = initialized \cup ({c} \cap clients)
         /\ joined' = joined \cup ({c} \cap Reachable)
    /\ UNCHANGED <<worldVars, phase, pendingInitialize, caps, replayVars,
                   seqVars, reverseVars, detached, adapterVars, queueVars>>

BufferInitialize(c, q, optsIn) ==
    /\ phase = "Initializing"
    /\ Sends(c, q, "initialize")
    /\ SetInitArgs(c, optsIn)
    /\ pendingInitialize' = pendingInitialize \cup {PendingRequest(c, q)}
    /\ Settle(Asked(c, q), {})
    /\ UNCHANGED <<worldVars, phase, caps, initialized, replayVars, seqVars,
                   reverseVars, viewVars, adapterVars, queueVars>>

\* Bug: an initialize behind one in flight is forwarded too.
MayForwardInitializeAgain == phase \in {"PreInit", "Initializing"}

MayForwardInitialize == phase = "PreInit"

ForwardInitialize(c, q, optsIn) ==
    /\ MayForwardInitialize
    /\ Sends(c, q, "initialize")
    /\ SetInitArgs(c, optsIn)
    /\ phase' = "Initializing"
    /\ Settle(Asked(c, q), {})
    /\ Forward(c, q, "initialize")
    /\ UNCHANGED <<worldVars, pendingInitialize, caps, initialized, replayVars,
                   reverseVars, viewVars, adapterVars>>

\* respond_synthetic_success to attach, launch and configurationDone once the
\* session is configured.
AbsorbLaunch(c, q, command) ==
    /\ command \in {"launch", "configurationDone"}
    /\ phase = "Configured"
    /\ Sends(c, q, command)
    /\ Settle(Asked(c, q), {PendingRequest(c, q)})
    /\ UNCHANGED <<worldVars, sessionVars, viewVars, adapterVars, queueVars>>

ForwardLaunch(c, q) ==
    /\ phase # "Configured"
    /\ Sends(c, q, "launch")
    /\ Settle(Asked(c, q), {})
    /\ Forward(c, q, "launch")
    /\ UNCHANGED <<worldVars, argVars, handshakeVars, replayVars, reverseVars,
                   viewVars, adapterVars>>

\* Bug: the phase waits for the adapter's answer.
ConfigureLate == phase' = phase

\* "Mark configured before forwarding".
Configure == phase' = "Configured"

ForwardConfigurationDone(c, q) ==
    /\ phase # "Configured"
    /\ Sends(c, q, "configurationDone")
    /\ Configure
    /\ Settle(Asked(c, q), {})
    /\ Forward(c, q, "configurationDone")
    /\ UNCHANGED <<worldVars, argVars, pendingInitialize, caps, initialized,
                   replayVars, reverseVars, viewVars, adapterVars>>

\* clients.len() == 1 and no operator.  Which client that one is, is not asked.
SoleClientOwnsDebuggee ==
    (\E d \in Client : clients = {d}) /\ ~OperatorOwned

HonorsTerminate == SoleClientOwnsDebuggee /\ "terminate" \in caps

ForwardTerminate(c, q) ==
    /\ HonorsTerminate
    /\ Sends(c, q, "terminate")
    /\ Settle(Asked(c, q), {})
    /\ Forward(c, q, "terminate")
    /\ UNCHANGED <<worldVars, argVars, handshakeVars, replayVars, reverseVars,
                   viewVars, adapterVars>>

\* Bug: the synthetic event clears the cached stop as the adapter's own does.
AbsorbTerminateForAll(c, q) ==
    /\ ~HonorsTerminate
    /\ Sends(c, q, "terminate")
    /\ lastStopped' = NoStop
    /\ Settle(Asked(c, q), {PendingRequest(c, q)})
    /\ detached' = detached \cup ({c} \cap Reachable)
    /\ HearStop({c} \cap Reachable, NoStop)
    /\ UNCHANGED <<worldVars, argVars, handshakeVars, initializedEvent, seqVars,
                   reverseVars, joined, ready, adapterVars, queueVars>>

\* A synthetic success and a synthetic terminated event, to c alone.
AbsorbTerminate(c, q) ==
    /\ ~HonorsTerminate
    /\ Sends(c, q, "terminate")
    /\ Settle(Asked(c, q), {PendingRequest(c, q)})
    /\ detached' = detached \cup ({c} \cap Reachable)
    /\ HearStop({c} \cap Reachable, NoStop)
    /\ UNCHANGED <<worldVars, sessionVars, joined, ready, adapterVars,
                   queueVars>>

\* disconnect_client after the acknowledgement.
Disconnect(c, q) ==
    /\ Sends(c, q, "disconnect")
    /\ reader' = AbortAll({c} \cap clients)
    /\ Depart(c)

RejectRestart(c, q) ==
    /\ "restart" \notin caps
    /\ Sends(c, q, "restart")
    /\ Settle(Asked(c, q), {PendingRequest(c, q)})
    /\ UNCHANGED <<worldVars, sessionVars, viewVars, adapterVars, queueVars>>

\* The cached stop is dropped whether or not the request goes anywhere.
ForwardRestart(c, q) ==
    /\ "restart" \in caps
    /\ Sends(c, q, "restart")
    /\ lastStopped' = NoStop
    /\ rerunning' = TRUE
    /\ Settle(Asked(c, q), {})
    /\ Forward(c, q, "restart")
    /\ UNCHANGED <<worldVars, argVars, handshakeVars, initializedEvent,
                   reverseVars, viewVars, accepted, halted, stops>>

ForwardOther(c, q, command) ==
    /\ command \in {"continue", "threads"}
    /\ Sends(c, q, command)
    /\ Settle(Asked(c, q), {})
    /\ Forward(c, q, command)
    /\ UNCHANGED <<worldVars, argVars, handshakeVars, replayVars, reverseVars,
                   viewVars, adapterVars>>

ClientRequest(c, q) ==
    \/ \E optsIn \in OptIns :
         \/ InitializeFromCache(c, q, optsIn)
         \/ BufferInitialize(c, q, optsIn)
         \/ ForwardInitialize(c, q, optsIn)
    \/ \E command \in Commands :
         AbsorbLaunch(c, q, command) \/ ForwardOther(c, q, command)
    \/ ForwardLaunch(c, q)
    \/ ForwardConfigurationDone(c, q)
    \/ ForwardTerminate(c, q)
    \/ AbsorbTerminate(c, q)
    \/ Disconnect(c, q)
    \/ RejectRestart(c, q)
    \/ ForwardRestart(c, q)

\* forward_reverse_response: the entry is looked up by its proxy seq; who
\* answers is not checked.  An answer with no entry is ignored (stuttering).
AnswerReverse(c, p) ==
    /\ CanHandle(c)
    /\ p \in DOMAIN reverse
    /\ p \in heard
    /\ Disciplined => reverse[p].client = c
    /\ reverse' = Restrict(reverse, DOMAIN reverse \ {p})
    /\ AnswerAdapter({reverse[p].adapterSeq})
    /\ UNCHANGED <<partyVars, worldVars, argVars, handshakeVars, replayVars,
                   seqVars, nextReverse, asks, heard>>

-----------------------------------------------------------------------------
(* Messages of the adapter: handle_upstream_message.                       *)

\* The client request a response is routed to, if it is still pending.
Origin(r) == IF r.proxy \in DOMAIN pending THEN {pending[r.proxy]} ELSE {}

SettlesHandshake(r) == r.command = "initialize" /\ phase = "Initializing"

\* Bug: the clients behind the initialize in flight are forgotten.
ServedNone(r) == {}

\* The buffered requests that the response r settles beside its own.
Served(r) == IF SettlesHandshake(r) THEN pendingInitialize ELSE {}

RouteResponse(r) ==
    /\ adapterUp /\ r \in atAdapter
    /\ atAdapter' = atAdapter \ {r}
    /\ pending' = Resolve(pending, r.proxy)
    /\ Settle({}, Origin(r) \cup Served(r))
    /\ UNCHANGED <<nextSeq, configured>>

\* The adapter accepts initialize once, and ignores any later one.
InitializeSucceeds(r, offered) ==
    /\ r.command = "initialize" /\ ~accepted
    /\ RouteResponse(r)
    /\ accepted' = TRUE
    /\ RespondWithCachedInitialize(Served(r))
    /\ IF SettlesHandshake(r)
       THEN phase' = "Initialized" /\ caps' = offered /\ pendingInitialize' = {}
       ELSE UNCHANGED <<phase, caps, pendingInitialize>>
    /\ LET successes == Senders(Origin(r) \cup Served(r)) IN
         /\ initialized' = initialized \cup (successes \cap clients)
         /\ joined' = joined \cup (successes \cap Reachable)
    /\ UNCHANGED <<worldVars, argVars, replayVars, reverseVars, detached,
                   halted, stops, rerunning, sent>>

InitializeFails(r) ==
    /\ r.command = "initialize" /\ ~accepted
    /\ RouteResponse(r)
    /\ IF SettlesHandshake(r)
       THEN phase' = "PreInit" /\ pendingInitialize' = {}
       ELSE UNCHANGED <<phase, pendingInitialize>>
    /\ UNCHANGED <<worldVars, argVars, caps, initialized, replayVars,
                   reverseVars, viewVars, adapterVars, sent>>

\* Any other answer.  Taking a continue or a restart resumes the debuggee; the
\* adapter may announce that in an event of its own, earlier, later or never.
Answers(r) ==
    /\ r.command # "initialize"
    /\ RouteResponse(r)
    /\ halted' = IF r.command \in {"continue", "restart"} THEN NoStop ELSE halted
    /\ UNCHANGED <<worldVars, argVars, handshakeVars, replayVars, reverseVars,
                   viewVars, accepted, stops, rerunning, sent>>

\* The adapter refuses a restart: the debuggee stays where it is.
RestartFails(r) ==
    /\ r.command = "restart"
    /\ RouteResponse(r)
    /\ UNCHANGED <<worldVars, argVars, handshakeVars, replayVars, reverseVars,
                   viewVars, adapterVars, sent>>

\* broadcast_event goes to every registered client, initialized or not.
InitializedEvent ==
    /\ adapterUp /\ accepted
    /\ initializedEvent' = TRUE
    /\ ready' = ready \cup Reachable
    /\ UNCHANGED <<worldVars, argVars, handshakeVars, lastStopped, seqVars,
                   reverseVars, answerVars, joined, view, detached,
                   adapterVars, queueVars, sent>>

StoppedEvent ==
    /\ adapterUp /\ accepted /\ stops < MaxStops
    /\ stops' = stops + 1
    /\ halted' = stops + 1
    /\ lastStopped' = stops + 1
    /\ rerunning' = FALSE
    /\ HearStop(Reachable, stops + 1)
    /\ UNCHANGED <<worldVars, argVars, handshakeVars, initializedEvent,
                   seqVars, reverseVars, answerVars, joined, ready, detached,
                   accepted, queueVars, sent>>

\* A continued or a terminated event: both clear the cached stop.
ResumedEvent ==
    /\ adapterUp /\ accepted
    /\ halted' = NoStop
    /\ lastStopped' = NoStop
    /\ rerunning' = FALSE
    /\ HearStop(Reachable, NoStop)
    /\ UNCHANGED <<worldVars, argVars, handshakeVars, initializedEvent,
                   seqVars, reverseVars, answerVars, joined, ready, detached,
                   accepted, stops, queueVars, sent>>

\* Bug: the target is not looked up among the connected clients.
WouldTake(target) == target # NoClient

\* client_tx(target) finds a queue.
CanTake(target) == target \in clients

\* route_reverse_request: answered with a failure when no client can take it,
\* else recorded and sent; whether the send worked is not looked at.
ReverseRequest(command) ==
    LET target == PickReverseRequestTarget(initOrder, willing, command)
        adapterSeq == asks + 1
    IN  /\ adapterUp /\ asks < MaxAsks
        /\ asks' = adapterSeq
        /\ IF CanTake(target)
           THEN /\ reverse' = Insert(reverse, nextReverse,
                                     [client |-> target, command |-> command,
                                      adapterSeq |-> adapterSeq])
                /\ nextReverse' = nextReverse + 1
                /\ heard' = IF target \in broken THEN heard
                            ELSE heard \cup {nextReverse}
                /\ owed' = owed \cup {adapterSeq}
           ELSE /\ owed' = IF upstream = "open" THEN owed
                           ELSE owed \cup {adapterSeq}
                /\ UNCHANGED <<reverse, nextReverse, heard>>
        /\ UNCHANGED <<connVars, lifecycleVars, argVars, handshakeVars,
                       replayVars, seqVars, doubled, answerVars, viewVars,
                       adapterVars, queueVars, upstream, sent>>

-----------------------------------------------------------------------------
(* The adapter connection and the end of the session.                      *)

\* The write loop to the adapter dies; the mux keeps sending into its queue.
UpstreamWriteFails ==
    /\ UpstreamMayBreak /\ upstream = "open"
    /\ upstream' = "broken"
    /\ UNCHANGED <<partyVars, sessionVars, connVars, lifecycleVars>>

\* handle_upstream_disconnect: every client hears terminated, the cached stop
\* stays although no debuggee sits at it any more, and shutdown is notified.
UpstreamLost ==
    /\ UpstreamMayDrop /\ adapterUp
    /\ adapterUp' = FALSE
    /\ upstream' = "none"
    /\ shutdown' = TRUE
    /\ detached' = detached \cup Reachable
    /\ HearStop(Reachable, NoStop)
    /\ halted' = NoStop
    /\ atAdapter' = {}
    /\ owed' = {}
    /\ UNCHANGED <<connVars, clientCounter, accepting, over, argVars,
                   handshakeVars, replayVars, seqVars, reverse, nextReverse,
                   asks, heard, doubled, answerVars, joined, ready,
                   accepted, stops, rerunning, configured, sent>>

\* end_session: called by the operator interface alone, at the boundary.
EndSession ==
    /\ OperatorOwned /\ ~over
    /\ over' = TRUE
    /\ clients' = {}
    /\ initialized' = {}
    /\ reader' = AbortAll(clients)
    /\ upstream' = "none"
    /\ awaiting' = {}
    /\ joined' = {}
    /\ UNCHANGED <<broken, clientCounter, accepting, shutdown, adapterUp,
                   argVars, phase, pendingInitialize, caps, replayVars,
                   seqVars, reverseVars, misrouted, ready, view, detached,
                   adapterVars, queueVars, sent>>

\* The AcceptGuard is dropped after end_session and its abort takes effect.
StopAccepting ==
    /\ over /\ accepting
    /\ accepting' = FALSE
    /\ UNCHANGED <<partyVars, sessionVars, connVars, clientCounter, over,
                   shutdown, adapterUp, upstream>>

-----------------------------------------------------------------------------

ClientStep(c) ==
    \/ \E q \in 0..MaxRequests : ClientRequest(c, q)
    \/ \E p \in DOMAIN reverse : AnswerReverse(c, p)
    \/ ReadEnds(c)
    \/ WriteFails(c)

TaskStep(c) == RecordHandle(c) \/ CancelledReadDropped(c)

AdapterAnswer(r) ==
    \/ \E offered \in Offers : InitializeSucceeds(r, offered)
    \/ InitializeFails(r)
    \/ Answers(r)
    \/ RestartFails(r)

AdapterEvent == InitializedEvent \/ StoppedEvent \/ ResumedEvent

Boundary == UpstreamWriteFails \/ UpstreamLost \/ EndSession \/ StopAccepting

Next ==
    \/ Register
    \/ \E c \in Client : ClientStep(c) \/ TaskStep(c)
    \/ \E r \in atAdapter : AdapterAnswer(r)
    \/ AdapterEvent
    \/ \E command \in AsksFor : ReverseRequest(command)
    \/ Boundary

Spec == Init /\ [][Next]_vars

\* The scheduling the code relies on: the adapter answers what it was sent,
\* clients answer what they are asked, spawned tasks run and aborts take effect.
Fairness ==
    /\ \A c \in Client :
         /\ \A q \in 1..MaxRequests :
              WF_vars(\E r \in atAdapter :
                        r.origin = PendingRequest(c, q) /\ AdapterAnswer(r))
         /\ WF_vars(\E p \in DOMAIN reverse : AnswerReverse(c, p))
         /\ WF_vars(TaskStep(c))
    /\ WF_vars(StopAccepting)

FairSpec == Spec /\ Fairness

=============================================================================
