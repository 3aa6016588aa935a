------------------------------ MODULE Sessions ------------------------------
(***************************************************************************)
(* The multiplexers of one run of the program, from outside: connecting    *)
(* one to its adapter (upstream.rs, connect_upstream), the accept loops    *)
(* that feed it, the clients it holds, and the adapter process it owns.    *)
(* Routing is the business of Mux.  Serving and Operator drive this.       *)
(*                                                                         *)
(* A mux lives as long as a task or its driver holds an Arc to it; when    *)
(* the last is gone, so is the Child in it, and kill_on_drop kills the     *)
(* process.                                                                *)
(***************************************************************************)
EXTENDS Naturals, FiniteSets

CONSTANTS
    Muxes,      \* multiplexers the program may create: the bound on sessions
    Clients,    \* connections to it: the bound on clients
    Launcher,   \* the client on stdin and stdout, under --stdio
    NoMux,
    Configs     \* the resolved command lines of this instance

(* What Cli::resolve lets through. *)
Resolvable ==
    {c \in [ui : BOOLEAN, stdio : BOOLEAN, tcp : BOOLEAN,
            upstream : {"attach", "spawn", "interactive"}] :
        /\ ~(c.stdio /\ c.ui)
        /\ c.ui \/ ~c.stdio => c.tcp
        /\ c.upstream = "interactive" => c.ui}

ASSUME SessionsAssumption ==
    /\ Launcher \in Clients
    /\ NoMux \notin Muxes
    /\ Configs \subseteq Resolvable

VARIABLES
    config,     \* ResolvedConfig
    stage,      \* where the driver (run_serving or the interface) is
    current,    \* the mux it holds
    outcome,    \* what it returns: "ok", or the error
    connect,    \* connect_upstream, for each mux
    late,       \* muxes whose connect deadline has passed
    link,       \* the read loop of the adapter connection
    upstream,   \* muxes whose upstream_tx is set
    shutdown,   \* muxes whose shutdown notification holds a permit
    child,      \* the spawned adapter process
    acceptor,   \* the accept loop feeding the mux
    home,       \* the mux a client was accepted into
    conn        \* the client's read task

driverVars  == <<stage, current, outcome>>
adapterVars == <<link, upstream, shutdown, child>>
connectVars == <<connect, late>>
clientVars  == <<acceptor, home, conn>>
vars == <<config, driverVars, connectVars, adapterVars, clientVars>>

Stages == {"starting", "idle", "connecting", "connected", "ending",
           "binding", "attaching", "serving", "reaping", "returning", "exited"}

Spawning == config.upstream = "spawn"

Running == stage # "exited"

Attempting(m) == connect[m] \in {"trying", "sleeping"}

(* Read tasks that still hold the mux.  "dropped" and "stray" are tasks    *)
(* whose client left the vector before their abort handle was stored.      *)
LiveReads == {"fresh", "running", "dropped", "stray", "cancelled"}

Held(m) ==
    \/ current = m
    \/ Attempting(m)
    \/ link[m] = "up"
    \/ acceptor[m] \in {"waiting", "polling", "aborted"}
    \/ \E c \in Clients : home[c] = m /\ conn[c] \in LiveReads

SessionsInit ==
    /\ config \in Configs
    /\ stage = "starting" /\ current = NoMux /\ outcome = "none"
    /\ connect = [m \in Muxes |-> "unused"] /\ late = {}
    /\ link = [m \in Muxes |-> "none"]
    /\ upstream = {} /\ shutdown = {}
    /\ child = [m \in Muxes |-> "none"]
    /\ acceptor = [m \in Muxes |-> "none"]
    /\ home = [c \in Clients |-> NoMux]
    /\ conn = [c \in Clients |-> "unborn"]

-----------------------------------------------------------------------------
(* Connecting.                                                             *)

(* A new Multiplexer, held by the driver, starts to connect. *)
Begin(m) ==
    /\ connect[m] = "unused"
    /\ connect' = [connect EXCEPT ![m] = "trying"]
    /\ current' = m
    /\ UNCHANGED late

(* The transport delivers: the queue is set, the child kept, the loops run. *)
Reached(m) ==
    /\ Running /\ connect[m] = "trying"
    /\ connect' = [connect EXCEPT ![m] = "ok"]
    /\ link' = [link EXCEPT ![m] = "up"]
    /\ upstream' = upstream \cup {m}
    /\ child' = IF Spawning THEN [child EXCEPT ![m] = "running"] ELSE child
    /\ UNCHANGED <<config, driverVars, late, shutdown, clientVars>>

\* Bug: no deadline.
AfterRefusalForever(m) == IF Spawning THEN "failed" ELSE "sleeping"

(* StdioUpstream gives up at once, TcpUpstream when an attempt fails after *)
(* its deadline; otherwise it sleeps and tries again.                      *)
AfterRefusal(m) == IF Spawning \/ m \in late THEN "failed" ELSE "sleeping"

Refused(m) ==
    /\ Running /\ connect[m] = "trying"
    /\ connect' = [connect EXCEPT ![m] = AfterRefusal(m)]
    /\ UNCHANGED <<config, driverVars, late, adapterVars, clientVars>>

Retry(m) ==
    /\ Running /\ connect[m] = "sleeping"
    /\ connect' = [connect EXCEPT ![m] = "trying"]
    /\ UNCHANGED <<config, driverVars, late, adapterVars, clientVars>>

DeadlinePasses(m) ==
    /\ Running /\ Attempting(m) /\ ~Spawning /\ m \notin late
    /\ late' = late \cup {m}
    /\ UNCHANGED <<config, driverVars, connect, adapterVars, clientVars>>

-----------------------------------------------------------------------------
(* The adapter: its connection, its process.                               *)

\* Bug: notify_waiters instead of notify_one, which keeps a permit.
NotifiedIfWaiting(m) == IF stage = "serving" THEN shutdown \cup {m} ELSE shutdown

(* handle_upstream_disconnect; notify_one keeps a permit for whoever waits *)
(* later.                                                                  *)
Notified(m) == shutdown \cup {m}

LinkLost(m) ==
    /\ Running /\ link[m] = "up"
    /\ link' = [link EXCEPT ![m] = "gone"]
    /\ upstream' = upstream \ {m}
    /\ shutdown' = Notified(m)
    /\ UNCHANGED <<config, driverVars, connectVars, child, clientVars>>

(* The process ends: by itself, or by the SIGKILL it was sent. *)
ChildExits(m) ==
    /\ child[m] \in {"running", "killed"}
    /\ child' = [child EXCEPT ![m] = "dead"]
    /\ UNCHANGED <<config, driverVars, connectVars, link, upstream, shutdown,
                   clientVars>>

Doomed(m) == child[m] = "killed" \/ (child[m] = "running" /\ ~Held(m))

-----------------------------------------------------------------------------
(* Accept loops and read tasks.                                            *)

AcceptWakes(m) ==
    /\ Running /\ acceptor[m] = "waiting"
    /\ acceptor' = [acceptor EXCEPT ![m] = "polling"]
    /\ UNCHANGED <<config, driverVars, connectVars, adapterVars, home, conn>>

(* Under --stdio the launcher's own client does not come by the listener. *)
Dials(c) == config.stdio => c # Launcher

(* register_client is between its two locks. *)
Registering(c) == conn[c] \in {"fresh", "dropped"}

BetweenLocks(m) == \E c \in Clients : home[c] = m /\ Dials(c) /\ Registering(c)

(* accept_client up to the end of its first lock.  An abort that comes     *)
(* while the loop runs takes effect at its next wait.                      *)
Accept(m, c) ==
    /\ Running /\ acceptor[m] \in {"polling", "aborted"} /\ ~BetweenLocks(m)
    /\ conn[c] = "unborn" /\ Dials(c)
    /\ home' = [home EXCEPT ![c] = m]
    /\ conn' = [conn EXCEPT ![c] = "fresh"]
    /\ UNCHANGED <<config, driverVars, connectVars, adapterVars, acceptor>>

(* Its second lock: the abort handle is stored if the client is listed. *)
RecordHandle(c) ==
    /\ Running /\ Registering(c)
    /\ conn' = [conn EXCEPT ![c] = IF @ = "fresh" THEN "running" ELSE "stray"]
    /\ UNCHANGED <<config, driverVars, connectVars, adapterVars, acceptor, home>>

(* The loop has accepted what there was and waits again. *)
AcceptYields(m) ==
    /\ Running /\ acceptor[m] \in {"polling", "aborted"} /\ ~BetweenLocks(m)
    /\ acceptor' = [acceptor EXCEPT ![m] = IF @ = "polling" THEN "waiting"
                                                             ELSE "stopped"]
    /\ UNCHANGED <<config, driverVars, connectVars, adapterVars, home, conn>>

(* The client hangs up, and its read task ends. *)
HangsUp(c) ==
    /\ Running /\ conn[c] \in LiveReads
    /\ conn' = [conn EXCEPT ![c] = "closed"]
    /\ UNCHANGED <<config, driverVars, connectVars, adapterVars, acceptor, home>>

(* The client disconnects: it leaves the vector, and its read task is      *)
(* aborted if its handle is there.                                         *)
Disconnects(c) ==
    /\ Running /\ conn[c] \in {"fresh", "running"}
    /\ conn' = [conn EXCEPT ![c] = IF @ = "fresh" THEN "dropped" ELSE "cancelled"]
    /\ UNCHANGED <<config, driverVars, connectVars, adapterVars, acceptor, home>>

(* An aborted read task reaches its next wait. *)
Cancelled(c) ==
    /\ Running /\ conn[c] = "cancelled"
    /\ conn' = [conn EXCEPT ![c] = "closed"]
    /\ UNCHANGED <<config, driverVars, connectVars, adapterVars, acceptor, home>>

(* What end_session does to the clients: those listed are dropped, and     *)
(* those with an abort handle are aborted.                                 *)
Drained(m) ==
    [c \in Clients |->
        CASE home[c] = m /\ conn[c] = "running" -> "cancelled"
          [] home[c] = m /\ conn[c] = "fresh"   -> "dropped"
          [] OTHER                              -> conn[c]]

\* Bug: the queue to the adapter is not closed.
EndSessionKeepsQueue(m) ==
    /\ UNCHANGED upstream
    /\ conn' = Drained(m)

(* end_session: the clients go, and the queue to the adapter is closed. *)
EndSession(m) ==
    /\ upstream' = upstream \ {m}
    /\ conn' = Drained(m)

\* Bug: the loop is not aborted.
GuardForgotten(m) == acceptor[m]

(* Dropping the AcceptGuard aborts the loop, which stops now if it waits   *)
(* and at its next wait if it runs.                                        *)
GuardDropped(m) ==
    CASE acceptor[m] = "waiting" -> "stopped"
      [] acceptor[m] = "polling" -> "aborted"
      [] OTHER                   -> acceptor[m]

(* main: when run returned Ok the runtime is torn down, dropping every     *)
(* task and with it every Child; an error is process::exit(1), which drops *)
(* nothing.  What the driver itself held is dropped before either, with    *)
(* the guard of the interface.                                             *)
TornDown ==
    IF outcome = "ok"
    THEN [m \in Muxes |-> IF child[m] = "running" THEN "killed" ELSE child[m]]
    ELSE child

Exit ==
    /\ stage = "returning"
    /\ stage' = "exited"
    /\ current' = NoMux
    /\ child' = TornDown
    /\ acceptor' = IF config.ui /\ current # NoMux
                   THEN [acceptor EXCEPT ![current] = GuardDropped(current)]
                   ELSE acceptor
    /\ UNCHANGED <<config, outcome, connectVars, link, upstream, shutdown, home,
                   conn>>

SessionStep ==
    \/ Exit
    \/ \E m \in Muxes :
        \/ Reached(m) \/ Refused(m) \/ Retry(m) \/ DeadlinePasses(m)
        \/ LinkLost(m) \/ ChildExits(m)
        \/ AcceptWakes(m) \/ AcceptYields(m)
        \/ \E c \in Clients : Accept(m, c)
    \/ \E c \in Clients :
        RecordHandle(c) \/ HangsUp(c) \/ Disconnects(c) \/ Cancelled(c)

=============================================================================
