------------------------------- MODULE Duplex -------------------------------
(***************************************************************************)
(* What Mux takes a client's connection for: two queues, one each way.     *)
(* The requests of the client are handled in the order it said them, up to *)
(* its hanging up or talking nonsense; the messages for it arrive whole    *)
(* and in order until the connection is cut or, drained, closed.  There    *)
(* are no pieces, tasks or framing here: Connection is shown to implement  *)
(* this in ConnectionImplementsDuplex.                                     *)
(***************************************************************************)
EXTENDS Naturals, Sequences, SequencesExt

CONSTANTS
    Request,
    Farewell,         \* the request that ends the connection
    Noise,            \* what is no request
    Acknowledgement   \* the message that answers the farewell

VARIABLES
    said,      \* what the client has said, complete
    handled,   \* what the mux has handled of it
    hungUp,    \* the mux was told that nothing more will come
    listed,    \* the client is one of the mux's
    told,      \* the messages for it
    got,       \* how many of them it has
    out,       \* the way to it: "running", "lost" or "closed"
    up         \* the program runs

vars == <<said, handled, hungUp, listed, told, got, out, up>>

Init ==
    /\ said = <<>> /\ handled = <<>> /\ hungUp = FALSE
    /\ listed = TRUE /\ told = <<>> /\ got = 0 /\ out = "running"
    /\ up = TRUE

Say(word) ==
    /\ said' = Append(said, word)
    /\ UNCHANGED <<handled, hungUp, listed, told, got, out, up>>

\* A request comes next.
Heard == Len(handled) < Len(said) /\ said[Len(handled) + 1] \in Request

Reachable == listed /\ out = "running"

\* Requests are handled one by one, perhaps not the last ones.  The farewell is
\* acknowledged, and that is the last message there is.
Handle ==
    /\ up /\ ~hungUp /\ Heard
    /\ LET word == said[Len(handled) + 1] IN
         /\ handled' = Append(handled, word)
         /\ IF word = Farewell
            THEN /\ listed' = FALSE
                 /\ told' = IF Reachable THEN Append(told, Acknowledgement) ELSE told
            ELSE UNCHANGED <<listed, told>>
    /\ UNCHANGED <<said, hungUp, got, out, up>>

\* Everything the client asked has been handled, and nothing will be any more.
HangUp ==
    /\ up /\ ~hungUp /\ ~Heard
    /\ hungUp' = TRUE /\ listed' = FALSE
    /\ UNCHANGED <<said, handled, told, got, out, up>>

\* The mux ends the session; what was said may still be handled.
Dismiss ==
    /\ up /\ listed
    /\ listed' = FALSE
    /\ UNCHANGED <<said, handled, hungUp, told, got, out, up>>

Tell ==
    /\ up /\ Reachable
    /\ IsStrictPrefix(told, told')
    /\ UNCHANGED <<said, handled, hungUp, listed, got, out, up>>

Get ==
    /\ up /\ out = "running" /\ got < Len(told)
    /\ got' = got + 1
    /\ UNCHANGED <<said, handled, hungUp, listed, told, out, up>>

\* The mux closes a connection that is its client's no longer, and drained.
Close ==
    /\ up /\ out = "running" /\ ~listed /\ got = Len(told)
    /\ out' = "closed"
    /\ UNCHANGED <<said, handled, hungUp, listed, told, got, up>>

Cut ==
    /\ up /\ out = "running"
    /\ out' = "lost"
    /\ UNCHANGED <<said, handled, hungUp, listed, told, got, up>>

\* The program exits, and with it everything stays as it is.
End ==
    /\ up /\ up' = FALSE
    /\ UNCHANGED <<said, handled, hungUp, listed, told, got, out>>

Next ==
    \/ \E word \in Request \cup {Noise} : Say(word)
    \/ Handle \/ HangUp \/ Dismiss
    \/ Tell \/ Get \/ Close \/ Cut
    \/ End

Spec == Init /\ [][Next]_vars

=============================================================================
