---------------------------- MODULE Compat ----------------------------
(***************************************************************************)
(* compat.rs: which client is asked to handle a reverse request of the     *)
(* adapter.  `order` is client_init_args reduced to its client ids, in     *)
(* initialize order, and `willing` the ids whose arguments opt in to       *)
(* supportsRunInTerminalRequest.                                           *)
(***************************************************************************)
EXTENDS Integers, Sequences

ReverseRequests == {"runInTerminal", "startDebugging"}

NoClient == 0

Listed(order) == {order[i] : i \in DOMAIN order}

EarliestOf(order, candidates) ==
    order[CHOOSE i \in DOMAIN order :
             /\ order[i] \in candidates
             /\ \A j \in 1..(i - 1) : order[j] \notin candidates]

\* Bug: the opt-in is ignored.
PickFirst(order, willing, command) ==
    IF order = <<>> THEN NoClient ELSE order[1]

PickReverseRequestTarget(order, willing, command) ==
    IF order = <<>> THEN NoClient
    ELSE IF command = "runInTerminal" /\ Listed(order) \cap willing # {}
         THEN EarliestOf(order, willing)
         ELSE order[1]

=============================================================================
