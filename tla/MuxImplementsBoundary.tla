------------------------ MODULE MuxImplementsBoundary ------------------------
(***************************************************************************)
(* The multiplexer, seen from the boundary of its one session.             *)
(***************************************************************************)
EXTENDS Mux

B == INSTANCE Boundary WITH
        Invited <- {},
        up <- TRUE,
        linked <- IF adapterUp THEN "up" ELSE "gone",
        online <- upstream # "none",
        door <- IF accepting THEN "open" ELSE "closed",
        task <- reader,
        listed <- clients

\* Whatever is routed, buffered, replayed and refused meanwhile, clients come and
\* go as the boundary says: taken only while the door is open, closed by no one
\* but themselves or the end of the session, and the door closed last.
ImplementsBoundary == B!Spec

=============================================================================
