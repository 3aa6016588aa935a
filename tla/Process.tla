------------------------------- MODULE Process -------------------------------
(***************************************************************************)
(* One run of the program: cli::run starts the operator interface or the   *)
(* plain server, and main leaves with what it returns.                     *)
(***************************************************************************)
EXTENDS Serving, Operator

Exited == stage = "exited" /\ UNCHANGED vars

Next == SessionStep \/ ServingStep \/ OperatorStep \/ Exited

Spec == SessionsInit /\ [][Next]_vars

(* A killed process dies; a dead one closes its pipes. *)
DoomedChildExits(m) == Doomed(m) /\ ChildExits(m)

PipesClose(m) == child[m] = "dead" /\ LinkLost(m)

(* Timers fire, tasks that can run do, an attempt to connect is answered   *)
(* and the interface is ticked.  The operator, the clients and a living    *)
(* adapter owe nothing.                                                    *)
Fairness ==
    /\ \A m \in Muxes :
        /\ WF_vars(Reached(m) \/ Refused(m))
        /\ WF_vars(Retry(m)) /\ WF_vars(DeadlinePasses(m))
        /\ WF_vars(AcceptYields(m))
        /\ WF_vars(DoomedChildExits(m)) /\ WF_vars(PipesClose(m))
        /\ WF_vars(StartServing(m))
    /\ \A c \in Clients : WF_vars(RecordHandle(c)) /\ WF_vars(Cancelled(c))
    /\ WF_vars(ConnectFails \/ ConnectReturns)
    /\ WF_vars(Bind \/ BindFails) /\ WF_vars(Attach)
    /\ WF_vars(AdapterGone) /\ WF_vars(StdinCloses) /\ WF_vars(Reap)
    /\ WF_vars(Tick) /\ WF_vars(Exit)

FairSpec == Spec /\ Fairness

=============================================================================
