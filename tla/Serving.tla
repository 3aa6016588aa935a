------------------------------- MODULE Serving -------------------------------
(***************************************************************************)
(* run_serving in cli.rs: one mux, served to a TCP listener, to the        *)
(* launcher on stdin and stdout, or to both, until the adapter is lost,    *)
(* stdin ends, or the operator interrupts a host with no stdio client.     *)
(***************************************************************************)
EXTENDS Sessions

Plain == ~config.ui

(* The connection is tried once, in line: its failure ends the program. *)
StartServing(m) ==
    /\ Plain /\ stage = "starting"
    /\ stage' = "connecting"
    /\ Begin(m)
    /\ UNCHANGED <<config, outcome, adapterVars, clientVars>>

Fail(error) ==
    /\ stage' = "returning" /\ outcome' = error
    /\ UNCHANGED <<config, current, connectVars, adapterVars, clientVars>>

ConnectFails ==
    /\ Plain /\ stage = "connecting" /\ connect[current] = "failed"
    /\ Fail("connect")

ConnectReturns ==
    /\ Plain /\ stage = "connecting" /\ connect[current] = "ok"
    /\ stage' = IF config.tcp THEN "binding" ELSE "attaching"
    /\ UNCHANGED <<config, current, outcome, connectVars, adapterVars, clientVars>>

(* Multiplexer::serve: its accept loop is never stopped. *)
Bind ==
    /\ Plain /\ stage = "binding"
    /\ acceptor' = [acceptor EXCEPT ![current] = "waiting"]
    /\ stage' = "attaching"
    /\ UNCHANGED <<config, current, outcome, connectVars, adapterVars, home, conn>>

BindFails == Plain /\ stage = "binding" /\ Fail("bind")

(* serve_stdio_frontend, when there is a client on stdin. *)
Attach ==
    /\ Plain /\ stage = "attaching"
    /\ stage' = "serving"
    /\ IF config.stdio
       THEN /\ home' = [home EXCEPT ![Launcher] = current]
            /\ conn' = [conn EXCEPT ![Launcher] = "fresh"]
       ELSE UNCHANGED <<home, conn>>
    /\ UNCHANGED <<config, current, outcome, connectVars, adapterVars, acceptor>>

(* The branches of the select!, once the launcher's client is registered. *)
Ends(result) ==
    /\ Plain /\ stage = "serving"
    /\ Dials(Launcher) \/ ~Registering(Launcher)
    /\ stage' = "reaping" /\ outcome' = result
    /\ UNCHANGED <<config, current, connectVars, link, upstream, child, clientVars>>

AdapterGone ==
    /\ current \in shutdown
    /\ shutdown' = shutdown \ {current}
    /\ Ends("lost")

StdinCloses ==
    /\ config.stdio /\ conn[Launcher] = "closed"
    /\ Ends("ok")
    /\ UNCHANGED shutdown

Interrupted ==
    /\ ~config.stdio
    /\ Ends("ok")
    /\ UNCHANGED shutdown

(* ctrl_c() cannot install its handler: `result?` returns at once. *)
SignalFails == Plain /\ stage = "serving" /\ ~config.stdio /\ Fail("signal")

\* Bug: a lost adapter is left to itself.
ReapedOnlyIfAsked(m) ==
    IF child[m] = "running" /\ outcome = "ok" THEN "killed" ELSE child[m]

(* reap_adapter, whichever branch was taken. *)
Reaped(m) == IF child[m] = "running" THEN "killed" ELSE child[m]

Reap ==
    /\ stage = "reaping"
    /\ stage' = "returning"
    /\ child' = [child EXCEPT ![current] = Reaped(current)]
    /\ UNCHANGED <<config, current, outcome, connectVars, link, upstream, shutdown,
                   clientVars>>

ServingStep ==
    \/ \E m \in Muxes : StartServing(m)
    \/ ConnectFails \/ ConnectReturns
    \/ Bind \/ BindFails \/ Attach
    \/ AdapterGone \/ StdinCloses \/ Interrupted \/ SignalFails
    \/ Reap

=============================================================================
