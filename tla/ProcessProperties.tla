-------------------------- MODULE ProcessProperties --------------------------
(***************************************************************************)
(* What the program owes its operator, its launcher, and the adapter it    *)
(* spawned, over all its sessions.                                         *)
(***************************************************************************)
EXTENDS Process

(* Every variable has its type, stages belong to their driver, and the     *)
(* driver holds a mux exactly in the stages that use one.                  *)
TypeDriver ==
    /\ config \in Configs
    /\ stage \in Stages
    /\ stage \in {"idle", "connected", "ending"} => config.ui
    /\ stage \in {"binding", "attaching", "serving", "reaping"} => ~config.ui
    /\ current \in Muxes \cup {NoMux}
    /\ stage \in {"connecting", "connected", "ending", "binding", "attaching",
                  "serving", "reaping"} => current \in Muxes
    /\ stage \in {"starting", "idle", "exited"} => current = NoMux
    /\ outcome \in {"none", "ok", "lost", "connect", "bind", "signal", "terminal"}

TypeMuxes ==
    /\ connect \in [Muxes -> {"unused", "trying", "sleeping", "ok", "failed"}]
    /\ late \subseteq Muxes
    /\ link \in [Muxes -> {"none", "up", "gone"}]
    /\ upstream \subseteq Muxes /\ shutdown \subseteq Muxes
    /\ child \in [Muxes -> {"none", "running", "killed", "dead"}]

TypeTasks ==
    /\ acceptor \in [Muxes -> {"none", "waiting", "polling", "aborted", "stopped"}]
    /\ home \in [Clients -> Muxes \cup {NoMux}]
    /\ conn \in [Clients -> LiveReads \cup {"unborn", "closed"}]

TypeOK == TypeDriver /\ TypeMuxes /\ TypeTasks

(* The program has one adapter at a time: a mux that is connecting, or     *)
(* whose adapter is connected, is the only such mux.  The interface makes  *)
(* a new mux for each session without closing the old one's adapter.       *)
Engaged(m) == Attempting(m) \/ link[m] = "up"

OneAdapter == \A m, n \in Muxes : Engaged(m) /\ Engaged(n) => m = n

(* Only the session the driver holds is being fed: an accept loop that     *)
(* will take another client after its next wait belongs to it.             *)
FeedsTheCurrentSession ==
    \A m \in Muxes :
        Running /\ acceptor[m] \in {"waiting", "polling"} => current = m

(* Why these hold, and are kept by every step: only the mux the driver     *)
(* holds is engaged or fed; past connecting it has connected, unless it is *)
(* being left; while the driver has not left, a connection that is up has  *)
(* its queue, so that a snapshot without upstream means a lost adapter;    *)
(* and a mux has a connection, a notification, a child or an accept loop   *)
(* only once it has connected.                                             *)
Owned(m) ==
    /\ Running /\ Engaged(m) => current = m
    /\ current = m => stage \in {"connecting", "returning"} \/ connect[m] = "ok"
    /\ link[m] = "up" /\ stage \notin {"returning", "exited"} => m \in upstream
    /\ link[m] = "up" => current # m \/ stage # "ending"
    /\ \/ link[m] # "none" \/ m \in shutdown
       \/ child[m] # "none" \/ acceptor[m] # "none"
       => connect[m] = "ok"
    /\ Running /\ acceptor[m] \in {"waiting", "polling"} => current = m

Ownership == OneAdapter /\ \A m \in Muxes : Owned(m)

(* When the program has left the way it means to (the operator quit or     *)
(* interrupted, stdin ended, the adapter was lost) no adapter it spawned   *)
(* is left running: run_serving reaps, a torn-down runtime kills.          *)
AdapterReaped ==
    stage = "exited" /\ outcome \in {"ok", "lost"} =>
        \A m \in Muxes : child[m] # "running"

(* Why that holds: the plain server has one mux, and a session lost is     *)
(* reaped before run_serving returns.                                      *)
Reaping ==
    /\ AdapterReaped
    /\ ~config.ui /\ Running =>
        \A m \in Muxes : connect[m] # "unused" => current = m
    /\ outcome = "lost" =>
        /\ ~config.ui
        /\ stage \in {"reaping", "returning", "exited"}
        /\ Running => connect[current] = "ok"
        /\ stage = "returning" => \A m \in Muxes : child[m] # "running"

(* The mux terminates the child it launched when it exits (mux.rs:626):    *)
(* whichever way it exits, no adapter is left that nothing will kill.      *)
NoOrphan ==
    stage = "exited" => \A m \in Muxes : child[m] = "running" => Doomed(m)

(* Connecting ends, well or badly: attempts stop at the deadline. *)
ConnectingResolves == stage = "connecting" ~> stage # "connecting"

(* A session whose adapter is lost is left: the interface goes back to its *)
(* connect screen, the plain server exits, even if the adapter goes before *)
(* anybody waits for that.                                                 *)
LostAdapterEndsSession ==
    \A m \in Muxes : link[m] = "gone" /\ current = m ~> current # m

(* A spawned adapter that outlives its session (its output closed, the     *)
(* process alive) goes too, once the clients still connected to the dead   *)
(* session have left: nothing else keeps its mux.                          *)
Lingers(m) ==
    /\ child[m] = "running" /\ current # m /\ connect[m] = "ok"
    /\ \A c \in Clients : home[c] = m => conn[c] \notin LiveReads

EndedSessionFreesAdapter == \A m \in Muxes : Lingers(m) ~> ~Lingers(m) \/ ~Running

=============================================================================
