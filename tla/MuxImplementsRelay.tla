------------------------ MODULE MuxImplementsRelay ------------------------
(***************************************************************************)
(* The multiplexer as an implementation of Relay.  What the adapter has    *)
(* been asked is read off the requests in flight to it.                    *)
(***************************************************************************)
EXTENDS MuxProperties

AdapterHandshake ==
    IF accepted THEN "accepted"
    ELSE IF InFlight("initialize") # {} THEN "asked" ELSE "none"

R == INSTANCE Relay WITH
        members   <- clients,
        waiting   <- awaiting,
        online    <- upstream = "open",
        handshake <- AdapterHandshake

\* Every step of the multiplexer is a step of the relay, or none: an answer
\* settles one request of the client that asked, only the handshake settles
\* several; one client's leaving touches nobody else's requests; the adapter
\* sees one handshake, and one answer to each request of its own.
ImplementsRelay == R!Spec

=============================================================================
