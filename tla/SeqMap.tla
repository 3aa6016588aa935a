---------------------------- MODULE SeqMap ----------------------------
(***************************************************************************)
(* seq.rs: the map from the sequence numbers the mux puts on forwarded     *)
(* requests (proxy seqs) back to the client request they stand for.  The   *)
(* HashMap is a function whose domain is the set of proxy seqs in use; its *)
(* operations are pure, and the module that owns the map (Mux) keeps the   *)
(* counter beside it.                                                      *)
(***************************************************************************)
EXTENDS Integers, Functions

\* The request `seq` of `client`: what PendingRequest records.
PendingRequest(client, seq) == [client |-> client, seq |-> seq]

EmptyMap == [k \in {} |-> 0]

\* HashMap::insert of a new or an existing key.
Insert(map, key, value) ==
    [k \in DOMAIN map \cup {key} |-> IF k = key THEN value ELSE map[k]]

\* Bug: the client's own seq is not kept.
AllocateUnrestored(pending, proxy, client, seq) ==
    Insert(pending, proxy, PendingRequest(client, proxy))

Allocate(pending, proxy, client, seq) ==
    Insert(pending, proxy, PendingRequest(client, seq))

Resolve(pending, proxy) == Restrict(pending, DOMAIN pending \ {proxy})

\* Bug: nothing is cleaned up.
CleanupNothing(pending, client) == pending

Cleanup(pending, client) ==
    Restrict(pending, {k \in DOMAIN pending : pending[k].client # client})

=============================================================================
