------------------------------ MODULE Boundary ------------------------------
(***************************************************************************)
(* One session as its clients' connections see it: when it takes them,     *)
(* when it lists them, when it closes them.  Mux looks at a session from   *)
(* within and Process at a row of them from without; both are shown to     *)
(* implement this, in MuxImplementsBoundary and ProcessImplementsBoundary. *)
(***************************************************************************)
EXTENDS Naturals

CONSTANTS
    Client,
    Invited     \* clients that come by no listener

VARIABLES
    up,         \* the program runs
    linked,     \* the adapter's connection: "none", "up" or "gone"
    online,     \* the session has a way to its adapter
    door,       \* the accept loop: "shut", "open" or "closed"
    task,       \* the read task of each client
    listed      \* the clients of the session

vars == <<up, linked, online, door, task, listed>>

Tasks == {"unborn", "fresh", "running", "cancelled", "ended"}

\* A session is yet to connect, or met when it has connected and is served.
Init ==
    /\ up = TRUE
    /\ linked \in {"none", "up"} /\ online = (linked = "up")
    /\ door = IF online THEN "open" ELSE "shut"
    /\ task = [c \in Client |-> "unborn"] /\ listed = {}

Connect ==
    /\ up /\ linked = "none"
    /\ linked' = "up" /\ online' = TRUE
    /\ UNCHANGED <<up, door, task, listed>>

\* A session has connected before it takes clients.
Serve ==
    /\ up /\ door = "shut" /\ linked # "none"
    /\ door' = "open"
    /\ UNCHANGED <<up, linked, online, task, listed>>

Take(c) ==
    /\ up /\ task[c] = "unborn"
    /\ door = "open" \/ (c \in Invited /\ linked # "none")
    /\ task' = [task EXCEPT ![c] = "fresh"]
    /\ listed' = listed \cup {c}
    /\ UNCHANGED <<up, linked, online, door>>

\* From now on the client can be closed; one that left before never will be.
Record(c) ==
    /\ up /\ task[c] = "fresh"
    /\ task' = [task EXCEPT ![c] = "running"]
    /\ UNCHANGED <<up, linked, online, door, listed>>

\* Clients that leave the session take their read tasks with them, of those
\* that have one to be cancelled.
Strike(gone) ==
    /\ listed' = listed \ gone
    /\ task' = [c \in Client |-> IF c \in gone /\ task[c] = "running"
                                 THEN "cancelled" ELSE task[c]]
    /\ UNCHANGED <<up, linked, door>>

Disconnect(c) == up /\ c \in listed /\ Strike({c}) /\ UNCHANGED online

\* The task ends: its client hung up, or it was cancelled, and then its client
\* is listed no more.
HangUp(c) ==
    /\ up /\ task[c] \in {"fresh", "running", "cancelled"}
    /\ task[c] = "cancelled" => c \notin listed
    /\ task' = [task EXCEPT ![c] = "ended"]
    /\ listed' = listed \ {c}
    /\ UNCHANGED <<up, linked, online, door>>

Lose ==
    /\ up /\ linked = "up"
    /\ linked' = "gone" /\ online' = FALSE
    /\ UNCHANGED <<up, door, task, listed>>

\* end_session closes every client that is listed, whatever it is doing.
EndSession == up /\ Strike(listed) /\ online' = FALSE

\* The door is closed on a session that has no adapter any more.
Close ==
    /\ up /\ door = "open" /\ ~online
    /\ door' = "closed"
    /\ UNCHANGED <<up, linked, online, task, listed>>

\* The program exits, and perhaps stops its accept loops first.
Exit ==
    /\ up /\ up' = FALSE
    /\ door' \in {door, IF door = "open" THEN "closed" ELSE door}
    /\ UNCHANGED <<linked, online, task, listed>>

Next ==
    \/ Connect \/ Serve \/ Lose \/ EndSession \/ Close \/ Exit
    \/ \E c \in Client : Take(c) \/ Record(c) \/ Disconnect(c) \/ HangUp(c)

Spec == Init /\ [][Next]_vars

=============================================================================
