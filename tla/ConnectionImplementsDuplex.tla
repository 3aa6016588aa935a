---------------------- MODULE ConnectionImplementsDuplex ----------------------
(***************************************************************************)
(* A client's connection, with its pieces and its two loops, is a duplex   *)
(* pair of queues.                                                         *)
(***************************************************************************)
EXTENDS Connection

\* The frames the client has completed.  One whose header is flawed or swallows
\* what follows, or whose body does not parse, is no request.
Words ==
    [i \in 1..(Len(inbound) \div 2) |->
        IF inbound[2 * i - 1] = "header" /\ inbound[2 * i] \in Requests
        THEN inbound[2 * i] ELSE "noise"]

D == INSTANCE Duplex WITH
        Request <- Requests, Farewell <- "disconnect", Noise <- "noise",
        Acknowledgement <- "acknowledgement",
        said <- Words, handled <- dispatched, hungUp <- reported > 0,
        listed <- registered, told <- enqueued, got <- Len(line) \div 2,
        out <- writer, up <- ~gone

\* However the bytes come and go, the mux and its client see two queues: what is
\* handled is what was said, in order; the hangup comes after it; nothing is sent
\* to a client that left, nothing follows the acknowledgement of its disconnect,
\* and a connection is closed only when the client has everything.
ImplementsDuplex == D!Spec

=============================================================================
