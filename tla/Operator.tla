------------------------------ MODULE Operator ------------------------------
(***************************************************************************)
(* The operator interface, tui/app.rs: Idle, Connecting and Connected over *)
(* as many sessions as the operator starts, each with a mux of its own and *)
(* all fed by the one ClientListener.                                      *)
(*                                                                         *)
(* on_tick and on_key never wait, so each branch is one action, but for    *)
(* the end of a session: end_session comes before the AcceptGuard is       *)
(* dropped, and the accept loop runs on another thread in between.         *)
(***************************************************************************)
EXTENDS Sessions

Interface == config.ui

(* start_connect *)
StartConnect(m) ==
    /\ Begin(m)
    /\ stage' = "connecting"
    /\ UNCHANGED <<config, outcome, adapterVars, clientVars>>

(* run_ui, up to the loop: a target named on the command line is connected *)
(* straight away.                                                          *)
OpenInterface ==
    /\ Interface /\ stage = "starting"
    /\ IF config.upstream = "interactive"
       THEN /\ stage' = "idle"
            /\ UNCHANGED <<config, current, outcome, connectVars, adapterVars,
                           clientVars>>
       ELSE \E m \in Muxes : StartConnect(m)

(* The listener cannot be bound, or the terminal not set up or drawn to:   *)
(* the error goes up to main.                                              *)
InterfaceFails ==
    /\ Interface /\ stage \in {"starting", "idle", "connecting", "connected"}
    /\ stage' = "returning" /\ outcome' = "terminal"
    /\ UNCHANGED <<config, current, connectVars, adapterVars, clientVars>>

\* Bug: Enter is heard while an attempt is under way.
MaySubmitAnyTime == stage \in {"idle", "connecting"}

(* Enter on the connect screen, with an address that parses. *)
MaySubmit == stage = "idle"

SubmitConnect(m) ==
    /\ Interface /\ MaySubmit
    /\ StartConnect(m)

(* on_tick, Connecting: the attempt has been answered. *)
TickConnected ==
    /\ Interface /\ stage = "connecting" /\ connect[current] = "ok"
    /\ acceptor' = [acceptor EXCEPT ![current] = "waiting"]
    /\ stage' = "connected"
    /\ UNCHANGED <<config, current, outcome, connectVars, adapterVars, home, conn>>

TickFailed ==
    /\ Interface /\ stage = "connecting" /\ connect[current] = "failed"
    /\ stage' = "idle" /\ current' = NoMux
    /\ UNCHANGED <<config, outcome, connectVars, adapterVars, clientVars>>

(* on_tick, Connected: the snapshot shows no upstream. *)
TickLost ==
    /\ Interface /\ stage = "connected" /\ current \notin upstream
    /\ EndSession(current)
    /\ stage' = "ending"
    /\ UNCHANGED <<config, current, outcome, connectVars, link, shutdown, child,
                   acceptor, home>>

\* Bug: Idle keeps the mux of the session that ended.
DropGuardKeepsMux ==
    /\ stage = "ending"
    /\ acceptor' = [acceptor EXCEPT ![current] = GuardDropped(current)]
    /\ stage' = "idle"
    /\ UNCHANGED <<config, current, outcome, connectVars, adapterVars, home, conn>>

(* The assignment of Idle drops what Connected held: the mux and the guard. *)
DropGuard ==
    /\ stage = "ending"
    /\ acceptor' = [acceptor EXCEPT ![current] = GuardDropped(current)]
    /\ stage' = "idle" /\ current' = NoMux
    /\ UNCHANGED <<config, outcome, connectVars, adapterVars, home, conn>>

(* Esc, q, Ctrl-C, or the end of the input stream. *)
Quit ==
    /\ Interface /\ stage \in {"idle", "connecting", "connected"}
    /\ IF current = NoMux THEN UNCHANGED <<upstream, conn>> ELSE EndSession(current)
    /\ stage' = "returning" /\ outcome' = "ok"
    /\ UNCHANGED <<config, current, connectVars, link, shutdown, child, acceptor,
                   home>>

Tick == TickConnected \/ TickFailed \/ TickLost \/ DropGuard

OperatorStep ==
    \/ OpenInterface \/ InterfaceFails
    \/ \E m \in Muxes : SubmitConnect(m)
    \/ Tick
    \/ Quit

=============================================================================
