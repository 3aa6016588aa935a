# A TLA+ model of dap-mux

dap-mux puts one debug adapter behind many DAP clients. It rewrites sequence
numbers, routes responses home, broadcasts events, replays the session to late
joiners, hands the adapter's reverse requests to a client, and ends sessions
when the adapter goes or the operator says so. This directory holds the TLA+
modules of that program, the TLC runs that check them, and the TLAPS proofs.
`PROJECT.json` lists components, runs, mutants, the map from definitions to
source lines, findings, hazards and theorems.

    tlc -config session.cfg MCMux.tla       # any run
    tlapm MuxRoutingProofs.tla              # any proof module

## 1. Inventory of the system

| Component | Source | State | Operations | What makes it correct |
|---|---|---|---|---|
| Multiplexer | `src/mux.rs` | `MuxState` behind one mutex: clients, their initialize arguments, phase, buffered initializes, cached capabilities, cached `initialized` and `stopped` events, the queue to the adapter, the sequence map, the reverse requests held | `handle_client_message`, `handle_upstream_message`, `register_client`, `handle_client_disconnect`, `handle_upstream_disconnect`, `end_session` | responses reach who asked; the adapter sees one handshake; nothing is lost or stranded; late joiners know the session; the debuggee is stopped only by its owner |
| Sequence map | `src/seq.rs` | `next_seq`, `pending` | `allocate`, `resolve`, `cleanup` | fresh numbers; a request has one way home |
| Compatibility policy | `src/compat.rs` | none | target of a reverse request, event filter, error rewriting | a reverse request reaches a willing client when there is one |
| Connection loops, DAP framing | `src/client.rs`, `src/protocol.rs` | a stream and an unbounded queue | `read_loop`, `write_loop`, `read_message`, `write_message` | frames reach the mux in order up to the first flaw; one disconnect callback at most; a queue is drained before it closes; a broken frame is never written past |
| Listener and guard | `src/mux.rs` | the accept task | `accept_into`, drop | clients belong to one session |
| Operator interface | `src/tui/app.rs` | Idle, Connecting, Connected | `on_tick`, `on_key`, `start_connect`, quit | one session at a time; a lost adapter leads back to Idle |
| Transports | `src/upstream.rs` | a stream, a child process | `connect` | retries end; a spawned child is reaped |
| Runtime | `src/cli.rs`, `src/main.rs` | the chosen frontend | `resolve`, `run_serving` | every way out reaps the adapter |
| Log sinks and pane | `src/cli.rs`, `src/upstream.rs`, `src/tui/log_buffer.rs`, `src/tui/app.rs` | a ring of lines, the level displayed, the adapter's stderr pump | `init_logging`, `pump_adapter_stderr`, `push`, `adjust_verbosity`, `render_logs` | the pane shows the latest lines at its level; the adapter's stderr is drained and reported whatever becomes of its log |
| Terminal | `src/tui/terminal.rs` | raw mode, the alternate screen, the panic hook | `enter`, drop, the hook | the shell is given back on every way out, and before a panic message is printed |

**How they interact.** Every connection (a client, or the adapter) has a read
task and a write task. The read task calls a handler of the mux for each
message; the handler takes the mutex for its whole body, changes `MuxState` and
enqueues messages to write tasks, never waiting. The write task drains its
queue. The operator interface polls a snapshot, and calls `end_session` and
drops the `AcceptGuard` when the adapter is gone or the operator quits.

**What is hard here.** Handlers are atomic, so the interesting interleavings are
of whole messages and of what surrounds the mutex:

- answers come in any order, after their client or others have left;
- the first `initialize` is in flight while others arrive, and may be rejected;
- a client is registered under one lock and gets its abort handle under another;
- aborting a read task cancels it at its next wait: it goes on handling messages
  it had already buffered, for a client that is no longer there;
- a write task may die while its queue is still registered;
- the session ends while the accept loop is still feeding it;
- the program may exit while messages wait in the queues of its write tasks;
- a client's bytes may stop anywhere, or not be DAP, while answers wait for it;
- the state replayed to late joiners is a cache of what the adapter last said.

`PROJECT.json` lists each hazard at its line with the properties that cover it.

## 2. The modules

| Module | Models | Notes |
|---|---|---|
| `SeqMap` | `seq.rs` | the map as a function; `Allocate`, `Resolve`, `Cleanup` are operators |
| `Compat` | `pick_reverse_request_target` | arguments reduced to an order of ids and a set of opt-ins |
| `Mux` | `mux.rs`, the loops as they matter to it, clients and adapter as environment | one action per branch of a handler |
| `MuxProperties` | what the mux owes | type invariant, invariants, action and liveness properties |
| `Relay` | what the mux promises, without how: an abstract specification | no proxy seqs, phase, buffers, caches or tables |
| `MuxImplementsRelay` | the refinement mapping | `INSTANCE Relay WITH` |
| `MCMux` | instances for TLC | sets a `.cfg` cannot spell |
| `Connection` | `client.rs` over `protocol.rs`: one client's connection, and what the program's exit does to it | what lies below a step of `Mux` |
| `Duplex` | what `Mux` takes that connection for: an abstract specification | two queues, no pieces, no loops |
| `ConnectionImplementsDuplex` | the refinement mapping | `INSTANCE Duplex WITH` |
| `Sessions` | the muxes of one run from outside: `upstream.rs`, `connect_upstream`, `ClientListener`, `AcceptGuard`, `end_session`, the spawned child, `main` | shared by the two drivers |
| `Serving` | `run_serving` in `cli.rs` | the plain server, TCP and stdio |
| `Operator` | `tui/app.rs` | Idle, Connecting, Connected over several sessions |
| `Process` | `cli::run` | composes the two drivers; fairness |
| `ProcessProperties`, `MCProcess` | what the program owes; instances | |
| `Boundary` | one session from its boundary: an abstract specification | when clients are taken, listed, closed |
| `MuxImplementsBoundary`, `ProcessImplementsBoundary` | the refinement mappings of `Mux` and, for each session, of `Process` | `INSTANCE Boundary WITH` |
| `Console` | what the operator sees: the log file, the pane, the pump of `upstream.rs`, `tui/terminal.rs` | one run of the program with one spawned adapter |
| `MuxTypeProofs` | `Spec => []TypeOK`, and the lemmas on the sequence map | |
| `MuxRoutingProofs` | `Spec => []` of `RoutesIntact`, `ResponsesRouted` | |
| `MuxReverseProofs` | `Spec => []ReverseAccounted` | |
| `MuxSessionProofs` | the handshake, late joiners, stops, departures, lost requests, targets of reverse requests | |
| `MuxRefinementProofs` | `Spec => ImplementsRelay`, `Spec => ImplementsBoundary` | |
| `ConnectionProofs` | `Spec => []` of `TypeOK`, `DispatchedInOrder`, `LineWhole`, `ClosedAfterDrain`; `Spec => ImplementsDuplex` | |
| `ProcessProofs` | `Spec => []` of `TypeOK`, `OneAdapter`, `FeedsTheCurrentSession`, `AdapterReaped`; `Spec => ImplementsBoundary` | |
| `ConsoleProofs` | `Spec => []` of `TypeOK`, `PaneShowsLatest`, `StderrKept`, `ShellRestored` | |

### State and actions of `Mux`

The fields of `MuxState` keep their names where TLA+ lets them. `clients` and
`initialized` are the vector and its flag; `initOrder` and `willing` are
`client_init_args` reduced to ids in order and who opted in to runInTerminal;
`upstream` is `upstream_tx`, with `"broken"` for a queue whose write loop died;
`pending`, `nextSeq` the sequence map; `reverse`, `nextReverse` the reverse
requests held; `lastStopped` numbers the cached stop (`NoStop` for none).
`reader`, `broken`, `accepting`, `over` are the tasks around the mutex.

The rest is the environment, and what its parties have observed: which requests
a client has `sent` and is `awaiting`, whether it is `joined` (its initialize
succeeded), `ready` (it heard `initialized`), which stop is in its `view`,
whether it was told the debuggee is over (`detached`); what is `atAdapter`,
whether the adapter `accepted` an initialize, where the debuggee is `halted`,
which reverse requests are `owed` an answer. `misrouted` and `doubled` latch a
wrong delivery.

Each branch of `handle_client_message` is an action: `InitializeFromCache`,
`BufferInitialize`, `ForwardInitialize`, `AbsorbLaunch` (attach, launch and
configurationDone once configured), `ForwardLaunch`,
`ForwardConfigurationDone`, `ForwardTerminate`, `AbsorbTerminate`, `Disconnect`,
`RejectRestart`, `ForwardRestart`, `ForwardOther`, and `AnswerReverse` for the
non-requests. The handlers of the adapter's messages are `InitializeSucceeds`,
`InitializeFails`, `Answers`, `RestartFails`, `InitializedEvent`,
`StoppedEvent`, `ResumedEvent` (continued or terminated) and `ReverseRequest`.
`Register` and `RecordHandle` are the two locks of `register_client`;
`ReadEnds`, `CancelledReadDropped` and `WriteFails` are the ends of the loops;
`UpstreamWriteFails`, `UpstreamLost`, `EndSession` and `StopAccepting` end the
session. Messages that change nothing are stuttering.

### State and actions of `Sessions`, `Serving` and `Operator`

`config` is the `ResolvedConfig`, one of the combinations `Cli::resolve` lets
through. `stage`, `current` and `outcome` are the driver: `AppState` and the mux
in it for the interface, the place in `run_serving` and its `mux` for the plain
server, and what either returns. For each mux, `connect` is its
`connect_upstream` (with `late` for the deadline), `link` the adapter's read
loop, `upstream` whether `upstream_tx` is set, `shutdown` the permit of the
`Notify`, `child` the spawned process, `acceptor` the accept loop. For each
client, `home` is its mux and `conn` its read task, with the two locks of
`register_client` and the aborts told apart: a client may hang up (`HangsUp`) or
disconnect (`Disconnects`) between them. The launcher of `--stdio` comes by no
listener but goes through both locks as well, and `run_serving` enters its
`select!` after the second.

A mux is an `Arc`: `Held` says who holds it, and when nobody does its `Child` is
dropped and killed (`Doomed`). `Exit` is `main`: after Ok the runtime is torn
down and every child with it; after an error `process::exit(1)` drops nothing.
Sending SIGKILL and the death of the process are two steps.

`Serving` has a step for each line of `run_serving` that can wait or fail, and
an action for each branch of its `select!`. `Operator` has an action for each
branch of `on_tick`, for Enter, and for the ways to quit; the end of a session
is two steps, `TickLost` (`end_session`) and `DropGuard`, because the accept
loop runs on another thread in between. An accept loop that is aborted while it
runs may take more clients until its next wait (`Accept` when `"aborted"`).
`Mux` looks inside one session, these modules at a row of them: they overlap in
registration, departure, `end_session`, the guard, and the loss of the adapter,
each modelled in both. That they agree is what `Boundary` is for.

### `Relay`, and how `Mux` implements it

A reader of `Relay` learns what a client and the adapter may rely on: a client
joins, asks, waits, is answered once or leaves; the adapter has one handshake
and one configurationDone at most, asks back, and is answered once or told of a
departure; a connection is lost or everything closes. An answer settles one
request of one client; only the handshake settles several. Leaving touches
nobody else's requests.

The mapping takes `members` from `clients`, `waiting` from `awaiting`, `online`
from `upstream`, and reads the adapter's `handshake` off what is in flight to
it; the other variables are those of `Mux` by the same name. Forwarding,
buffering, answering from the cache and absorbing are all `Ask`, which is the
point: a client cannot tell them apart. What `Relay` does not show are events,
replay and the choice of a target, which have properties of their own.

### State and actions of `Connection`

The client's bytes are `inbound`, alternating headers and bodies: a header may
be flawed or announce more than its body, a body may not parse, and input may
end after any piece. `reader` and `taken` are `read_loop` inside `read_message`;
`dispatched` and `reported` its calls of `on_message` and `on_disconnect`.
`enqueued` with the index `received` is the channel; `unsent` is what is left of
the frame being written, `line` what the client has got. `ReadHeader`,
`ReadBody`, `ReadFlawed`, `ReadEnds` and `ReadDropped` are the outcomes of the
read loop, `Receive`, `WritePiece`, `WriteFails` and `Close` those of the write
loop. `MuxSends` and `AdapterLost` fill the queue. `frontend` says how the client
is served: the launcher on stdio, a TCP client of the plain server, or one of
the interface; under the interface a session may end (`EndSession`) and the
program goes on, while the return of `run_serving` is `Exit`, after which
neither loop takes a step. `reading` says whether the client takes in what is
written to it, which it may stop and resume (`ClientReads`): a write has no
timeout and waits for it.

### `Duplex`, and how `Connection` implements it

`Mux` takes a request as handled when it was said, and a message as heard when
it is in the queue. `Duplex` says what that rests on: requests are handled in
the order said and none after nonsense; the hangup comes when no further one is
complete; the farewell is acknowledged, and a client that is not listed is told
nothing more; messages arrive whole and in order until the way is cut, or closed
after the last. It does not say that every request is handled, nor that none is
after the farewell: an aborted read loop may go on with what it had buffered, or
drop it without a hangup. The mapping pairs the pieces of `inbound` into words,
a frame flawed in either half being noise, and counts the pieces on the `line` in
pairs.

### `Boundary`, and how `Mux` and `Process` implement it

`Boundary` is one session as its connections see it: clients are taken while the
door is open and the session has met its adapter; one listed has a task that
nobody cancelled; a departing client has its task cancelled if its handle was
recorded, and the end of the session does this to all that are listed; the door
is closed on a session without a way to its adapter, and by the exit. In `Mux`
the session is met connected, the door is `accepting`, the tasks are `reader`.
In `Process` it is any one of the muxes: a client counts for the session it
calls home, `"dropped"` and `"stray"` are tasks nobody will cancel, and what
happens in other sessions is a stutter. Since both implement it, what `Mux`
assumes of the loops around it is what the program does around each session.
What it does not promise is just as telling: a client taken while the session
ends stays listed, which is the violated run `boundary`.

### State and actions of `Console`

`emitted` is every line logged, in order; `file` and `pane` what each sink took
of it, through the filters of `init_logging` and of the pane's layer. The log
file's writer is `non_blocking`, which drops lines when its queue is full, so
`Log` may leave a line out of `file`. `said`, `pump`, `drained` and `raw` are
the adapter's stderr, the task that drains it and the adapter log. The pump
reads a line (`ReadLine`), writes it (`WriteLine`) and reports it
(`ReportLine`); the write may fail, its result is ignored, and `lost` keeps the
places of those lines. `display` is the level of the pane. `stage`, `rawMode`,
`alternate` and `hooked` follow the terminal through the steps of
`TerminalGuard::enter`, each of which may fail, and out again by `Return`, by
`Panic` and `Unwind`, or by a panic tokio catches (`TaskPanics`).
`RestoreTerminal` may fail at either of its two calls, and then `refused` holds.
`PanicHook` restores and then prints its message; `printed` says where the last
one went, and whether the restoration before it had failed.

### Abstractions

- A message counts as sent when its handler runs. Before that it is on the wire,
  which is the sender's delay: nothing in the mux can tell the difference.
- A message counts as heard when it is enqueued to a live write loop. The queue
  is unbounded, FIFO and drained before it closes, so later steps cannot undo
  this; what a dying write loop has not written yet is lost with the client.
  `Connection` looks inside both steps, and that it implements `Duplex` is what
  this abstraction rests on. The exit of the program is the exception
  (`last_word`).
- A frame is two pieces, a header and a body; bytes within a piece, and JSON,
  are not told apart beyond whether they are sound.
- A log line is its level, its target and its place; a line of the adapter's
  stderr is text or blank.
- attach is launch; continue and threads stand for every command that is passed
  through, one that resumes the debuggee and one that does not.
- A reverse request is identified by its count, not by the adapter's seq (which
  the code allows to repeat): the mux answers with the seq it was given.
- Proxy seqs are unbounded integers. The code's are `i64` from 1; no run of the
  program reaches 2^63.
- An adapter accepts initialize once and ignores later ones, as the comment at
  `mux.rs:868` says of real adapters.

### What the constants say

`MaxClients`, `MaxRequests` (of all clients together), `MaxStops` and `MaxAsks`
are bounds, and so is `MaxBroken`, of the write loops that die before the read
side notices. `Commands`, `AsksFor`, `OptIns` and `Offers` choose the alphabet
of an instance. Five switches choose the environment: `OperatorOwned` (the TUI's
constructor), `Disciplined` (clients send initialize first and wait for it, send
nothing after their disconnect, and answer only what they were asked),
`SeqMayBeMissing`, `UpstreamMayBreak` (the write loop to the adapter may die
before its read loop does) and `UpstreamMayDrop`. Nothing is assumed of how an
adapter announces that the debuggee resumes: it may answer a continue request,
send the event, or both.

## 3. The runs

| Run | Instance | Shows |
|---|---|---|
| `session` | 3 clients, 3 requests: initialize, launch, configurationDone, restart, terminate, disconnect; 1 stop; adapter may go | `ResponsesRouted`, `NothingLost`, `GoneLeaveNothing`, `JoinersCaughtUp`, `StopKept` |
| `undisciplined` | 2 clients that obey nothing, 3 requests, some without a seq; 1 ask; a write loop may die | `TypeOK`, `RoutesIntact`, `HandshakeOnce`, `ReverseAccounted`, `ImplementsRelay` |
| `progress` | 2 clients that opt in or not, 2 requests, 1 ask of either kind, operator-owned, the queue to the adapter may lose its reader, fair | `AsksReachWillingClients`, `ImplementsBoundary`, `EveryRequestSettled`, `EveryAskSettled` |
| `undeliverable` | 1 client whose write loop dies | **violated** `UndeliverableIsAnswered` |
| `forgotten_stop` | 1 client, a refused restart | **violated** `NoForgottenStop` |
| `stale_stop` | 2 clients, a continue that is answered and no event | **violated** `NoStaleStop` |
| `boundary` | a client accepted while the session ends | **violated** `BoundaryClosesConnections` |
| `connection` | a client on stdio or under the interface, 4 pieces of input sound or not, 2 messages besides its acknowledgement and notices, writes that fail or wait, a lost adapter, fair | `TypeOK`, `DispatchedInOrder`, `LineWhole`, `ClosedAfterDrain`, `LetGo`, `ImplementsDuplex` |
| `last_word` | a TCP client when the adapter is lost | **violated** `LastWordWritten` |
| `process` | 2 muxes, 2 clients, all nine modes of the program, fair | `TypeOK`, `OneAdapter`, `FeedsTheCurrentSession`, `AdapterReaped`, `ImplementsBoundary`, `ConnectingResolves`, `LostAdapterEndsSession`, `EndedSessionFreesAdapter` |
| `orphan` | the plain server with a spawned adapter | **violated** `NoOrphan` |
| `console` | every mode of the program, started at WARN or TRACE, a ring of 2 and a pane of 1 row, 1 line at ERROR or TRACE of the mux besides its warnings, 2 lines on stderr, writes and restorations that fail, fair | `TypeOK`, `PaneShowsLatest`, `StderrKept`, `ShellRestored`, `StderrDrained` |

**Bounds.** Three clients are what the handshake needs to be interesting: one
whose initialize is in flight, one buffered behind it, one that joins after
either outcome; three requests let each of them arrive in any phase, or one
client go through the handshake and restart or terminate while others join. That
more clients and requests add nothing to the safety properties is not a matter
of bounds: all of those on `Mux` that hold are also proved, for any number. Two
clients suffice where only "somebody else" matters. `MaxBroken` is 1 in
`undisciplined`, where a reverse request may then be held for a client it never
reached. That a second ask, a second stop or failures on both sides at once
change nothing is said by the theorems (`ReverseStaysAccounted`,
`StopsAreKept`), which hold for any number of each. Four pieces of input are two
frames: one that is sound or a disconnect, and whatever follows it; two messages
are one being written and one waiting. A ring of two and one row make a line
leave the pane for either reason, the rows or the ring, and a line of text and a
blank one in either order are what the pump tells apart. Two muxes are a session
that is over and one that follows, which is all that two sessions can do to each
other: every property of `process` relates at most two. The number of retries is
not bounded; the deadline ends them. Deadlock checking is off for `Mux`,
`Connection` and `Console`, where a session, a connection or the program may end
and the bounds stop every client, and on for `Process`, whose only way to stop
is to have exited.

**Fairness** (`FairSpec`). Weakly fair are: the adapter's answer to each
forwarded request, each client's answers to reverse requests, the spawned tasks,
and the abort of the accept loop. The first two are the contract of DAP, without
which nothing can be promised; the last two are tokio's scheduling. Clients need
not send, connect or leave, and connections need not fail. `EveryRequestSettled`
ends at the loss of the adapter, where the code promises a terminated event
instead of answers, and at a client that can no longer be written to;
`EveryAskSettled` at a reverse request held undelivered, which is
`undeliverable`'s case.

In `Process`, fair are: the answer to an attempt to connect (the operating
system's), the timers, the tasks and their cancellation, the tick of the
interface, each step of `run_serving` that does not wait for somebody, the death
of a killed process, and the end of file on the pipes of a dead one. Operators,
clients and a living adapter owe nothing.

In `Connection`, the read loop and the write loop are each weakly fair: tokio
polls a task that is ready. A write is ready only while the client reads: it is
awaited without a timeout (`client.rs:44`, `protocol.rs:106`), so the fairness of
`WritePiece` is that of `reading /\ WritePiece`, and `LetGo` is claimed of
clients that in the end go on reading. One that disconnects and stops reading
keeps its write loop, and its socket, for as long as it likes. The client need
not write, read or close, the mux need not send, and no write need fail.

In `Console`, the pump is weakly fair: its read is ready when there is a line,
and a write to the adapter log returns, with whatever result.

**Disciplined or not.** Routing and accounting hold for clients that obey no
protocol, but for one rule: each numbers its own requests apart, as DAP's seq is
for. (Seqs of different clients do collide.) Requests without a seq may come
too. The handshake properties need clients that wait for their initialize: one
that sends configurationDone before the answer moves the phase past
`Initializing`, after which the answer no longer settles the handshake and
buffered clients wait for ever. `AsksReachWillingClients` and `GoneLeaveNothing`
need clients silent after their own disconnect, because arguments put back by a
departed client stay for good.

There is no property about terminate. For a client that is still connected it
would restate the guard of `ForwardTerminate`. For one that is not, the code
departs from its comment ("Honor it for real only when this is the sole client",
`mux.rs:900-901`): `clients.len() == 1` does not ask *which* client is left, so a
terminate that was buffered behind its sender's disconnect stops the debuggee of
the only other client. It takes a client that sends terminate after disconnect.

### What the violated runs say

They check sentences of the repository that the code does not keep; the quotes
and counterexamples are under `findings`. `undeliverable`: the result of the
send at `mux.rs:464` is ignored. `forgotten_stop`: the cached stop is dropped
before a restart is accepted. `stale_stop`: the cached stop is dropped for a
continued event, but not for the answer to a continue request, which implies
that the debuggee resumed and after which DAP lets an adapter leave the event
out; a client that joins then is told of a stop that is over. `boundary`: the abort handle is stored under a
second lock, and `end_session` comes before the accept loop is stopped.
`orphan`: an error between spawning the adapter and `reap_adapter` leaves the
child to nobody; `AdapterReaped` says the rest: the ways the program means to
end all reap. `last_word`: the terminated event is put in the clients' queues,
but nothing makes the program wait for the write loops before it exits.

`forgotten_stop` has a counterpart that says how far the trouble goes, and is
proved: but for the restart no step forgets a stop (`StopKept`).

## 4. The proofs

The theorems on `Mux` are about its `Spec` with any values of the constants that
satisfy `MuxAssumption`: any number of clients, requests, stops and asks, disciplined
clients or not, with or without failures.

- **`TypeCorrect`**: `Spec => []TypeOK`. `TypeOK` is inductive: besides shapes
  it says that maps are keyed by numbers already handed out, that flags are
  kept for registered clients only, and that a client yet to connect has sent
  nothing. It is proved part by part; for each part a frame lemma names the
  actions that touch its variables.
- **`RoutesStayIntact`** and **`EveryResponseRouted`**:
  `Spec => []ResponsesRouted` rests on the strengthening `RoutesIntact`. That a
  response meets a client waiting for it depends on the maps it came through:
  what is pending or buffered was sent by its client, is awaited if that client
  is still connected, is in one place only, and pending entries are pairwise
  different. Then settling one request takes no other's route, a new request
  (whose seq is new) collides with none, and a client yet to connect finds none
  in its name. `RouteSteps` reduces Next to the seven ways a step can touch the
  routes, each treated once. TLC checks `RoutesIntact` in `undisciplined`.
- **`ReverseStaysAccounted`**: `Spec => []ReverseAccounted`, inductive given
  `TypeOK`: held entries and requests owed correspond one to one while the
  adapter can be reached, so settling a set of entries tells the adapter of just
  those.
- **`OneHandshake`** holds for any clients. `HandshakeTracked` relates the phase
  to what the adapter has: with an initialize in flight or accepted the phase is
  past `PreInit`, and before it is `Configured` no configurationDone was sent.
- **`StopsAreKept`** assumes nothing of clients or adapter. It rests on a lemma
  (`StopMoves`) that lists the steps that move the debuggee, the cache or the
  restart latch. Its converse, that no stop is replayed that is over, does not
  hold (`stale_stop`).
- **`JoinersAreCaughtUp`** holds for any clients. `JoinersTracked` adds to the
  property what it takes to survive a join: nothing is cached or seen before the
  adapter accepted an initialize, and a reachable client has seen no stop or the
  cached one, whether it has joined or not.
- **`GoneAreForgotten`** assumes `Disciplined`: clients silent after their
  disconnect. **`NoRequestIsLost`** assumes also that
  every request has a seq; its `LossTracked` says that, while the adapter
  can be reached, the phase is `Initializing` exactly when an initialize is in
  flight. **`AsksGoToTheWilling`** assumes `Disciplined` and, like the property,
  speaks of sessions not yet ended: the end of a session drains the clients and
  leaves the arguments of those that were there.
- **`MuxIsRelay`**: `Spec => R!Spec`, the refinement, for any values of the
  constants. The steps of `Mux` are grouped by what they do to the relay's
  variables, and each group is shown to be a step of `Relay` or a stutter, under
  `Accounts`: types, routes, handshake and reverse accounting together. It is
  there that the invariants earn their keep: that a response settles at most one
  request is `RoutesIntact`, that the handshake settles several only as the
  answer to the adapter's one initialize is `HandshakeTracked`.
- **`MuxIsBounded`**: `Spec => B!Spec`, with `Bounded`: a session that is over
  has no way to its adapter, and a listed client has an uncancelled task.
- **`ConnectionTypeCorrect`**, **`FramesReachTheMux`**,
  **`FramesReachTheClient`** and **`DrainedBeforeClosed`** are about `Connection`
  with any number of pieces and messages. `ReadTracked` says where in the
  client's frames the read loop stands, and why it ended; `WriteTracked` that
  what was written and what is left of the frame in hand make up the messages
  received so far. **`ConnectionIsDuplex`** uses both: where the loops stand says
  how many words are complete and handled, and how many messages have arrived,
  so that a piece read or written is a step of `Duplex` or a stutter according to
  the parity of its place.
- **`ProcessTypeCorrect`**, **`OneAdapterAtATime`**,
  **`OnlyTheCurrentSessionIsFed`** and **`AdapterIsReaped`** are about `Process`,
  for any set of sessions and clients and any set of modes (assumption
  `SessionsAssumption`). `OneAdapter` is not inductive: that the interface may
  start a session without closing an adapter rests on the snapshot it reads,
  where a missing upstream means the adapter's read loop has ended. `Ownership`
  says so, together with who may be connecting, connected or fed. `Reaping`
  adds that the plain server never has a second mux, and that a lost session is
  reaped before `run_serving` returns.
- **`SessionsAreBounded`** and **`EachSessionIsBounded`** are the refinement of
  `Boundary` by `Process`, for each session at once: the first in the form TLC
  checks, with the quantifier over sessions inside (TLC cannot evaluate a
  quantified conjunction of specifications with parameters), the second as
  `Spec => B(n)!Spec`. They need `Ownership`, and `Bounded`: a mux that connected
  has or had an adapter, a session being ended has none, and the launcher comes
  once.
- **`ConsoleTypeCorrect`**, **`ShellIsRestored`**, **`StderrIsKept`** and
  **`PaneIsCurrent`** are about `Console`, for any levels, buffer and pane
  (`ConsoleAssumption`). `TerminalTracked` adds to `ShellRestored` that from the
  moment there is something to restore the hook is in place, or the program is
  still on its way in. `StderrTracked` adds to `StderrKept` where the line in
  the pump's hand comes from, and that the lines lost are among those it has
  finished with; its step goes sink by sink (`EventsKept`, `RawKept`,
  `FileKept`). For the pane, `PaneTracked` says that the buffer is the
  latest lines captured, in order; that filtering it yields the latest lines
  *displayed* is shown for `Shown`, a recursive function over the buffer, by
  exhibiting at each prefix the places its lines come from (`Picks`). The
  induction is by a least counterexample among finitely many prefixes, for which
  the library's well-foundedness of `Nat` suffices.
- `AllocateSpec` and `ResolveSpec` in `MuxTypeProofs` state what the operations
  of the sequence map return, for maps of any size.

Every invariant, action property and refinement that a passing run checks is
also proved. Only model-checked are the liveness properties, `EveryRequestSettled`,
`EveryAskSettled`, `LetGo`, `StderrDrained`, `ConnectingResolves`,
`LostAdapterEndsSession` and `EndedSessionFreesAdapter`: they rest on fairness,
hence on ENABLED, which is outside what the prover does. The refinements are of
safety only, the abstract specifications stating no fairness.
No module declares a RECURSIVE operator; the one recursive definition, `Shown`,
is a function.

## 5. Not modelled

The splitting and parsing of arguments and addresses, editing the address, the
layout of the interface, names of clients, the bytes of a frame and JSON, and
the rewriting of stale-variable errors: pure conversions, which no property
reads. Filtered and unknown events change nothing. A signal that kills the
program outright (SIGKILL, or SIGINT outside the wait for it) is outside
`Process` and `Connection`: no code of the program runs then. A panic of a task
is modelled only for what it does to the terminal: no handler is written to
panic, and a poisoned mutex is not followed further.

`Console` follows one adapter: what its log holds after a second session has
created the file anew depends on offsets into a truncated file. The screen while
the interface goes on after a panic in another task is not claimed to be sound,
since the hook has given it back by then and the interface draws on the shell's.
What other tasks log while the main one unwinds is left out, and so is the echo
of the log to stderr, from which nothing is read back. Rows are constant: a resized terminal
shows another suffix of the same lines.

`Connection` has one client. What several share is the mux, and that is `Mux`.
The connection to the adapter runs the same two loops; its ends appear in `Mux`
(`UpstreamWriteFails`, `UpstreamLost`) and `Sessions`.

## 6. Plan

Done: `SeqMap`, `Compat`, `Mux` and its proofs; `Sessions`, `Serving`,
`Operator`, `Process` and theirs; `Relay`, `Duplex` and `Boundary` with their
refinements checked and proved; `Connection` and `Console` and their theorems.
What could follow: an invariant that says how long a session may go without an
answer once its adapter's write loop has died; fairness in `Relay`, so that the
liveness of `Mux` could be stated as a refinement as well; and several adapters
in `Console`, if the project decides what the adapter log holds across sessions.
