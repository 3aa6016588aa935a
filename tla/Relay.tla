------------------------------- MODULE Relay -------------------------------
(***************************************************************************)
(* What the multiplexer promises, without how it is done: each client has  *)
(* an adapter that answers it and nobody else, and the adapter has what    *)
(* looks like one client.  There are no proxy sequence numbers here, no    *)
(* phase, no buffer, no cache and no table of reverse requests; Mux is     *)
(* shown to implement this in MuxImplementsRelay.                          *)
(***************************************************************************)
EXTENDS Naturals

CONSTANT Client

VARIABLES
    members,     \* connected clients
    sent,        \* how many requests each client has sent
    waiting,     \* requests connected clients wait for
    online,      \* what is forwarded reaches the adapter
    handshake,   \* the adapter's: "none", "asked" or "accepted"
    configured,  \* configurationDone requests it got
    asks,        \* reverse requests it has made
    owed,        \* those it waits for
    misrouted,   \* a client got a response it did not wait for
    doubled      \* the adapter got a second answer to a reverse request

vars == <<members, sent, waiting, online, handshake, configured, asks, owed,
          misrouted, doubled>>

adapterSide == <<handshake, configured, asks, owed>>
broken      == <<misrouted, doubled>>

Init ==
    /\ members = {} /\ sent = [c \in Client |-> 0] /\ waiting = {}
    /\ online = TRUE /\ handshake = "none" /\ configured = 0
    /\ asks = 0 /\ owed = {}
    /\ misrouted = FALSE /\ doubled = FALSE

Join(c) ==
    /\ c \notin members
    /\ members' = members \cup {c}
    /\ UNCHANGED <<sent, waiting, online, adapterSide, broken>>

Counted(c) == [sent EXCEPT ![c] = sent[c] + 1]

\* The adapter has one handshake, whatever its clients send.
Opening ==
    \/ UNCHANGED <<handshake, configured>>
    \/ /\ online /\ handshake = "none" /\ handshake' = "asked"
       /\ UNCHANGED configured
    \/ /\ online /\ configured = 0 /\ configured' = 1
       /\ UNCHANGED handshake

\* c sends its next request; it waits unless it is answered at once, or gone.
Ask(c) ==
    /\ sent' = Counted(c)
    /\ \/ UNCHANGED waiting
       \/ /\ c \in members
          /\ waiting' = waiting \cup {[client |-> c, seq |-> sent[c] + 1]}
    /\ Opening
    /\ UNCHANGED <<members, online, asks, owed, broken>>

\* The adapter answers.  An answer settles one request, of one client; only
\* the handshake settles those of all the clients that came for it.
Answer ==
    /\ waiting' \subseteq waiting
    /\ \/ /\ \E r \in waiting : waiting' = waiting \ {r}
          /\ UNCHANGED handshake
       \/ handshake = "asked" /\ handshake' \in {"none", "accepted"}
    /\ UNCHANGED <<members, sent, online, configured, asks, owed, broken>>

\* c goes, by asking or by hanging up: the requests of the others stay as they
\* are, and the adapter is told of what c leaves undone.
Leave(c) ==
    /\ members' = members \ {c}
    /\ sent' \in {sent, Counted(c)}
    /\ waiting' = {r \in waiting : r.client # c}
    /\ owed' \subseteq owed /\ (online \/ UNCHANGED owed)
    /\ UNCHANGED <<online, handshake, configured, asks, broken>>

\* The adapter asks; it waits unless it is turned down at once.
AskBack ==
    /\ asks' = asks + 1
    /\ owed' \in {owed, owed \cup {asks + 1}}
    /\ UNCHANGED <<members, sent, waiting, online, handshake, configured, broken>>

AnswerBack(a) ==
    /\ online /\ a \in owed
    /\ owed' = owed \ {a}
    /\ UNCHANGED <<members, sent, waiting, online, handshake, configured, asks,
                   broken>>

\* The way to the adapter, or the adapter itself, is lost: nothing is answered.
Lose ==
    /\ online' = FALSE
    /\ handshake' \in {handshake} \cup (IF handshake = "asked" THEN {"none"} ELSE {})
    /\ owed' \in {owed, {}}
    /\ UNCHANGED <<members, sent, waiting, configured, asks, broken>>

Close ==
    /\ members' = {} /\ waiting' = {} /\ online' = FALSE
    /\ UNCHANGED <<sent, adapterSide, broken>>

Next ==
    \/ \E c \in Client : Join(c) \/ Ask(c) \/ Leave(c)
    \/ Answer
    \/ AskBack
    \/ \E a \in owed : AnswerBack(a)
    \/ Lose
    \/ Close

Spec == Init /\ [][Next]_vars

=============================================================================
