---------------------- MODULE ProcessImplementsBoundary ----------------------
(***************************************************************************)
(* The program, seen from the boundary of any one of its sessions.         *)
(***************************************************************************)
EXTENDS ProcessProperties

(* The read task of c, as the session m sees it. *)
TaskIn(m, c) ==
    IF home[c] # m THEN "unborn"
    ELSE CASE conn[c] = "dropped" -> "fresh"
           [] conn[c] = "stray"   -> "running"
           [] conn[c] = "closed"  -> "ended"
           [] OTHER               -> conn[c]

TasksIn(m) == [c \in Clients |-> TaskIn(m, c)]

ListedIn(m) == {c \in Clients : home[c] = m /\ conn[c] \in {"fresh", "running"}}

Door(m) ==
    CASE acceptor[m] = "none"    -> "shut"
      [] acceptor[m] = "stopped" -> "closed"
      [] OTHER                   -> "open"

B(m) == INSTANCE Boundary WITH
            Client <- Clients,
            Invited <- {Launcher},
            up <- Running,
            linked <- link[m],
            online <- m \in upstream,
            door <- Door(m),
            task <- TasksIn(m),
            listed <- ListedIn(m)

(* However many sessions there were and will be, each is bounded the way   *)
(* Mux takes its one session to be: B(m)!Spec for every m, which TLC reads *)
(* with the quantifier inside.                                             *)
ImplementsBoundary ==
    /\ \A m \in Muxes : B(m)!Init
    /\ [][\A m \in Muxes : [B(m)!Next]_(B(m)!vars)]_vars

=============================================================================
