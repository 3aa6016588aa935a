------------------------ MODULE MuxReverseProofs ------------------------
(***************************************************************************)
(* The adapter's reverse requests are accounted for, for every value of    *)
(* the constants: ReverseAccounted is inductive given TypeOK (a new        *)
(* request has a number no earlier one has).                               *)
(***************************************************************************)
EXTENDS MuxTypeProofs

USE DEF worldVars, sessionVars, partyVars, connVars, lifecycleVars, argVars,
        handshakeVars, replayVars, seqVars, reverseVars, answerVars, viewVars,
        adapterVars, queueVars

\* Settling the held requests `settled` tells the adapter just that: if they
\* are held by clients and the rest is not, the rest stays accounted for.
LEMMA SettlingAccounts ==
    ASSUME ReverseAccounted, NEW settled \in SUBSET DOMAIN reverse,
           reverse' = Restrict(reverse, DOMAIN reverse \ settled),
           AnswerAdapter({reverse[p].adapterSeq : p \in settled}),
           UNCHANGED upstream,
           \A p \in DOMAIN reverse \ settled :
             reverse[p].client \in clients => reverse[p].client \in clients'
    PROVE  ReverseAccounted'
<1> SUFFICES ASSUME upstream = "open" PROVE ReverseAccounted'
  BY DEF ReverseAccounted
<1> DEFINE told == {reverse[p].adapterSeq : p \in settled}
<1>1. /\ DOMAIN reverse' = DOMAIN reverse \ settled
      /\ \A p \in DOMAIN reverse' : reverse'[p] = reverse[p]
  BY DEF Restrict
<1>2. told \subseteq owed
  BY DEF ReverseAccounted
<1>3. owed' = owed \ told
  BY DEF AnswerAdapter
<1>4. ~doubled'
  <2>1. ~doubled
    BY DEF ReverseAccounted
  <2>. QED BY <1>2, <2>1 DEF AnswerAdapter
<1>5. \A p \in DOMAIN reverse' : reverse[p].adapterSeq \notin told
  BY <1>1 DEF ReverseAccounted
<1>6. \A p \in settled : reverse[p].adapterSeq \in told
  OBVIOUS
<1> HIDE DEF told
<1>7. \A a \in owed' : \E p \in DOMAIN reverse' :
        reverse'[p].adapterSeq = a /\ reverse'[p].client \in clients'
  <2> TAKE a \in owed'
  <2>1. PICK p \in DOMAIN reverse :
          reverse[p].adapterSeq = a /\ reverse[p].client \in clients
    BY <1>3 DEF ReverseAccounted
  <2>2. p \notin settled
    BY <1>3, <1>6, <2>1
  <2>. QED BY <1>1, <2>1, <2>2
<1>8. \A p \in DOMAIN reverse' : reverse'[p].adapterSeq \in owed'
  BY <1>1, <1>3, <1>5 DEF ReverseAccounted
<1>9. \A p, s \in DOMAIN reverse' :
        reverse'[p].adapterSeq = reverse'[s].adapterSeq => p = s
  BY <1>1 DEF ReverseAccounted
<1>. QED BY <1>4, <1>7, <1>8, <1>9 DEF ReverseAccounted

\* A new request is held for a connected client, or the adapter is told at once.
LEMMA AskingAccounts ==
    ASSUME TypeOK, ReverseAccounted, NEW command \in AsksFor,
           ReverseRequest(command)
    PROVE  ReverseAccounted'
<1> SUFFICES ASSUME upstream = "open" PROVE ReverseAccounted'
  BY DEF ReverseAccounted, ReverseRequest
<1> DEFINE target == PickReverseRequestTarget(initOrder, willing, command)
           entry == [client |-> target, command |-> command,
                     adapterSeq |-> asks + 1]
<1>1. UNCHANGED <<clients, upstream>>
  BY DEF ReverseRequest
<1>2. ~doubled'
  BY Zenon DEF ReverseRequest, ReverseAccounted
<1>3. CASE ~CanTake(target)
  <2>1. UNCHANGED <<reverse, owed>>
    BY <1>3 DEF ReverseRequest
  <2>. QED BY <1>1, <1>2, <2>1 DEF ReverseAccounted
<1>4. CASE CanTake(target)
  <2>1. /\ reverse' = Insert(reverse, nextReverse, entry)
        /\ owed' = owed \cup {asks + 1}
    BY <1>4 DEF ReverseRequest
  <2>2. entry.client \in clients /\ entry.adapterSeq = asks + 1
    BY <1>4 DEF CanTake
  <2>3. nextReverse \notin DOMAIN reverse /\ asks + 1 \notin owed
    BY DEF TypeOK, TypeReverse
  <2> HIDE DEF entry
  <2>4. /\ DOMAIN reverse' = DOMAIN reverse \cup {nextReverse}
        /\ reverse'[nextReverse] = entry
        /\ \A p \in DOMAIN reverse : reverse'[p] = reverse[p]
    BY <2>1, <2>3 DEF Insert
  <2>5. \A a \in owed' : \E p \in DOMAIN reverse' :
          reverse'[p].adapterSeq = a /\ reverse'[p].client \in clients'
    BY <1>1, <2>1, <2>2, <2>4 DEF ReverseAccounted
  <2>6. \A p \in DOMAIN reverse' : reverse'[p].adapterSeq \in owed'
    BY <2>1, <2>2, <2>4 DEF ReverseAccounted
  <2>7. \A p, s \in DOMAIN reverse' :
          reverse'[p].adapterSeq = reverse'[s].adapterSeq => p = s
    BY <2>2, <2>3, <2>4 DEF ReverseAccounted
  <2>. QED BY <1>2, <2>5, <2>6, <2>7 DEF ReverseAccounted
<1>. QED BY <1>3, <1>4

\* Every step keeps the account.
LEMMA ReverseStep ==
    ASSUME TypeOK, ReverseAccounted, [Next]_vars
    PROVE  ReverseAccounted'
<1>1. ASSUME NEW c \in Client, Depart(c)
      PROVE  ReverseAccounted'
  <2>1. /\ HeldFor(c) \in SUBSET DOMAIN reverse
        /\ \A p \in DOMAIN reverse \ HeldFor(c) : reverse[p].client # c
    BY DEF HeldFor
  <2>2. /\ clients' = clients \ {c} /\ UNCHANGED upstream
        /\ reverse' = Restrict(reverse, DOMAIN reverse \ HeldFor(c))
        /\ AnswerAdapter({reverse[p].adapterSeq : p \in HeldFor(c)})
    BY <1>1 DEF Depart
  <2>. QED BY <2>1, <2>2, SettlingAccounts
<1>2. ASSUME NEW c \in Client, NEW p \in DOMAIN reverse, AnswerReverse(c, p)
      PROVE  ReverseAccounted'
  <2>1. /\ reverse' = Restrict(reverse, DOMAIN reverse \ {p})
        /\ UNCHANGED <<clients, upstream>>
        /\ AnswerAdapter({reverse[p].adapterSeq})
    BY <1>2 DEF AnswerReverse
  <2>2. {reverse[s].adapterSeq : s \in {p}} = {reverse[p].adapterSeq}
    OBVIOUS
  <2>. QED BY <2>1, <2>2, SettlingAccounts
<1>3. CASE UpstreamLost
  BY <1>3 DEF UpstreamLost, ReverseAccounted
<1>4. CASE EndSession
  BY <1>4 DEF EndSession, ReverseAccounted
<1>5. CASE UpstreamWriteFails
  BY <1>5 DEF UpstreamWriteFails, ReverseAccounted
<1>6. CASE Register
  BY <1>6 DEF Register, ReverseAccounted
<1>7. CASE UNCHANGED <<reverseVars, clients, upstream>>
  BY <1>7 DEF ReverseAccounted
<1>8. \/ UNCHANGED <<reverseVars, clients, upstream>>
      \/ Register \/ UpstreamWriteFails \/ EndSession \/ UpstreamLost
      \/ \E c \in Client : Depart(c)
      \/ \E c \in Client : \E p \in DOMAIN reverse : AnswerReverse(c, p)
      \/ \E command \in AsksFor : ReverseRequest(command)
  <2>1. ASSUME NEW c \in Client, ClientStep(c) \/ TaskStep(c)
        PROVE  \/ UNCHANGED <<reverseVars, clients, upstream>>
               \/ Depart(c)
               \/ \E p \in DOMAIN reverse : AnswerReverse(c, p)
    BY <2>1, RequestFrame DEF ClientStep, TaskStep, Disconnect, ReadEnds,
       WriteFails, RecordHandle, CancelledReadDropped
  <2>2. ASSUME NEW r \in atAdapter, AdapterAnswer(r)
        PROVE  UNCHANGED <<reverseVars, clients, upstream>>
    BY <2>2 DEF AdapterAnswer, InitializeSucceeds, InitializeFails, Answers,
                RestartFails
  <2>3. ASSUME AdapterEvent \/ StopAccepting \/ UNCHANGED vars
        PROVE  UNCHANGED <<reverseVars, clients, upstream>>
    BY <2>3 DEF AdapterEvent, InitializedEvent, StoppedEvent, ResumedEvent,
                StopAccepting, vars
  <2>. QED BY <2>1, <2>2, <2>3 DEF Next, Boundary
<1>. QED BY <1>1, <1>2, <1>3, <1>4, <1>5, <1>6, <1>7, <1>8, AskingAccounts

\* Nothing is owed and nothing held before the adapter asks.
LEMMA ReverseInit == ASSUME Init PROVE ReverseAccounted
<1>1. DOMAIN reverse = {} /\ owed = {}
  BY DEF Init, EmptyMap
<1>2. ~doubled
  BY DEF Init
<1>. QED BY <1>1, <1>2 DEF ReverseAccounted

\* However clients come, go, fail and answer: while the mux can reach the
\* adapter, every reverse request the adapter waits for is held for exactly one
\* connected client, and none was answered twice.
THEOREM ReverseStaysAccounted == Spec => []ReverseAccounted
BY TypeInit, TypeStep, ReverseInit, ReverseStep, PTL DEF Spec

=============================================================================
