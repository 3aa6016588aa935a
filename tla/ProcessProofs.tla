---------------------------- MODULE ProcessProofs ----------------------------
(***************************************************************************)
(* The sessions of the program, for any number of them and of clients, and *)
(* in any of its modes: types, one adapter at a time, the right session    *)
(* fed, the adapter reaped, each session bounded.  Each invariant is kept  *)
(* by each action; what an action leaves alone is dealt with together.     *)
(***************************************************************************)
EXTENDS ProcessImplementsBoundary, TLAPS

USE DEF vars, driverVars, adapterVars, connectVars, clientVars

-----------------------------------------------------------------------------
(* The steps, by what they are about.                                      *)

DriverStep ==
    \/ \E m \in Muxes : StartServing(m) \/ SubmitConnect(m)
    \/ ConnectFails \/ ConnectReturns \/ Bind \/ BindFails \/ Attach
    \/ AdapterGone \/ StdinCloses \/ Interrupted \/ SignalFails \/ Reap
    \/ OpenInterface \/ InterfaceFails \/ TickConnected \/ TickFailed
    \/ TickLost \/ DropGuard \/ Quit \/ Exit

MuxStep(m) ==
    \/ Reached(m) \/ Refused(m) \/ Retry(m) \/ DeadlinePasses(m)
    \/ LinkLost(m) \/ ChildExits(m)

TaskStep ==
    \/ \E m \in Muxes : AcceptWakes(m) \/ AcceptYields(m)
    \/ \E m \in Muxes, c \in Clients : Accept(m, c)
    \/ \E c \in Clients :
        RecordHandle(c) \/ HangsUp(c) \/ Disconnects(c) \/ Cancelled(c)

\* Every step of the program is one of the three kinds, or changes nothing.
LEMMA StepKinds ==
    ASSUME [Next]_vars
    PROVE  DriverStep \/ (\E m \in Muxes : MuxStep(m)) \/ TaskStep \/ UNCHANGED vars
BY DEF Next, SessionStep, ServingStep, OperatorStep, Tick, Exited,
       DriverStep, MuxStep, TaskStep

-----------------------------------------------------------------------------
(* Types.                                                                  *)

\* Draining a mux leaves every client with a state of its task.
LEMMA DrainedTyped ==
    ASSUME TypeTasks, NEW m
    PROVE  Drained(m) \in [Clients -> LiveReads \cup {"unborn", "closed"}]
<1>1. ASSUME NEW c \in Clients
      PROVE  Drained(m)[c] \in LiveReads \cup {"unborn", "closed"}
  BY DEF Drained, TypeTasks, LiveReads
<1>2. Drained(m) = [c \in Clients |-> Drained(m)[c]]
  BY DEF Drained
<1>. QED BY <1>1, <1>2

\* A guard dropped stops its loop, if there is one.
LEMMA GuardTyped ==
    ASSUME TypeTasks, NEW m \in Muxes
    PROVE  /\ GuardDropped(m) \in {"none", "aborted", "stopped"}
           /\ acceptor[m] = "none" => GuardDropped(m) = "none"
BY DEF GuardDropped, TypeTasks

\* A step of the driver keeps the types.
LEMMA DriverTyped == ASSUME TypeOK, DriverStep PROVE TypeOK'
<1> USE SessionsAssumption DEF TypeOK
<1>1. CASE \E m \in Muxes : StartServing(m) \/ SubmitConnect(m)
  BY <1>1 DEF StartServing, SubmitConnect, StartConnect, Begin, TypeDriver,
              TypeMuxes, TypeTasks, Stages, Plain, Interface
<1>2. CASE ConnectFails \/ BindFails \/ SignalFails \/ InterfaceFails
  BY <1>2 DEF ConnectFails, BindFails, SignalFails, InterfaceFails, Fail,
              TypeDriver, TypeMuxes, TypeTasks, Stages, Plain, Interface
<1>3. CASE ConnectReturns
  BY <1>3 DEF ConnectReturns, TypeDriver, TypeMuxes, TypeTasks, Stages, Plain
<1>4. CASE Bind \/ TickConnected
  BY <1>4 DEF Bind, TickConnected, TypeDriver, TypeMuxes, TypeTasks, Stages,
              Plain, Interface
<1>5. CASE Attach
  BY <1>5 DEF Attach, TypeDriver, TypeMuxes, TypeTasks, Stages, Plain, LiveReads
<1>6. CASE AdapterGone \/ StdinCloses \/ Interrupted
  BY <1>6 DEF AdapterGone, StdinCloses, Interrupted, Ends, TypeDriver, TypeMuxes,
              TypeTasks, Stages, Plain
<1>7. CASE Reap
  BY <1>7 DEF Reap, Reaped, TypeDriver, TypeMuxes, TypeTasks, Stages
<1>8. CASE OpenInterface
  BY <1>8 DEF OpenInterface, StartConnect, Begin, TypeDriver, TypeMuxes,
              TypeTasks, Stages, Interface
<1>9. CASE TickFailed
  BY <1>9 DEF TickFailed, TypeDriver, TypeMuxes, TypeTasks, Stages, Interface
<1>10. CASE TickLost \/ Quit
  BY <1>10, DrainedTyped DEF TickLost, Quit, EndSession, TypeDriver, TypeMuxes,
              TypeTasks, Stages, Interface
<1>11. CASE DropGuard
  BY <1>11, GuardTyped DEF DropGuard, TypeDriver, TypeMuxes, TypeTasks, Stages
<1>12. CASE Exit
  <2>1. TypeDriver'
    BY <1>12 DEF Exit, TypeDriver, Stages
  <2>2. TypeMuxes'
    BY <1>12 DEF Exit, TornDown, TypeMuxes
  <2>3. TypeTasks'
    BY <1>12, GuardTyped DEF Exit, TypeDriver, TypeTasks
  <2>. QED BY <2>1, <2>2, <2>3
<1>. QED BY <1>1, <1>2, <1>3, <1>4, <1>5, <1>6, <1>7, <1>8, <1>9, <1>10, <1>11,
            <1>12 DEF DriverStep

\* So does a step of a mux or of its adapter.
LEMMA MuxTyped == ASSUME TypeOK, NEW m \in Muxes, MuxStep(m) PROVE TypeOK'
<1>1. TypeDriver' /\ TypeTasks'
  BY DEF TypeOK, TypeDriver, TypeTasks, MuxStep, Reached, Refused, Retry,
         DeadlinePasses, LinkLost, ChildExits
<1>2. TypeMuxes'
  BY DEF TypeOK, TypeMuxes, MuxStep, Reached, Refused, AfterRefusal, Retry,
         DeadlinePasses, LinkLost, Notified, ChildExits
<1>. QED BY <1>1, <1>2 DEF TypeOK

\* And a step of an accept loop or of a read task.
LEMMA TaskTyped == ASSUME TypeOK, TaskStep PROVE TypeOK'
<1>1. TypeDriver' /\ TypeMuxes'
  BY DEF TypeOK, TypeDriver, TypeMuxes, TaskStep, AcceptWakes, AcceptYields, Accept,
         RecordHandle, HangsUp, Disconnects, Cancelled
<1>2. TypeTasks'
  BY DEF TypeOK, TypeTasks, LiveReads, TaskStep, AcceptWakes, AcceptYields,
         Accept, RecordHandle, HangsUp, Disconnects, Cancelled
<1>. QED BY <1>1, <1>2 DEF TypeOK

\* Types hold at the start and are kept by every step.
LEMMA TypeInductive ==
    /\ SessionsInit => TypeOK
    /\ TypeOK /\ [Next]_vars => TypeOK'
<1>1. SessionsInit => TypeOK
  BY SessionsAssumption
     DEF SessionsInit, TypeOK, TypeDriver, TypeMuxes, TypeTasks, Stages
<1>2. ASSUME TypeOK, UNCHANGED vars PROVE TypeOK'
  BY <1>2 DEF TypeOK, TypeDriver, TypeMuxes, TypeTasks
<1>. QED BY <1>1, <1>2, StepKinds, DriverTyped, MuxTyped, TaskTyped

\* In every mode of the program and for any number of sessions: the driver
\* holds a mux exactly in the stages that use one.
THEOREM ProcessTypeCorrect == Spec => []TypeOK
BY TypeInductive, PTL DEF Spec

-----------------------------------------------------------------------------
(* One adapter, and the right session fed.                                 *)

USE DEF Running, Engaged, Attempting

\* A step of the driver leaves each mux owned, and engages none but its own.
LEMMA DriverOwns ==
    ASSUME TypeOK, Ownership, DriverStep
    PROVE  Ownership'
<1> USE SessionsAssumption DEF TypeOK
<1>1. \A m \in Muxes : Owned(m)
  BY DEF Ownership
<1>2. ASSUME NEW m \in Muxes PROVE Owned(m)'
  <2>1. Owned(m)
    BY <1>1
  <2>2. CASE \E n \in Muxes : StartServing(n) \/ SubmitConnect(n)
    BY <2>1, <2>2 DEF StartServing, SubmitConnect, StartConnect, Begin, MaySubmit,
                      TypeDriver, TypeMuxes, Owned
  <2>3. CASE OpenInterface
    BY <2>1, <2>3 DEF OpenInterface, StartConnect, Begin, TypeDriver, TypeMuxes,
                      Owned
  <2>4. CASE ConnectFails \/ BindFails \/ SignalFails \/ InterfaceFails
    BY <2>1, <2>4 DEF ConnectFails, BindFails, SignalFails, InterfaceFails, Fail,
                      Owned
  <2>5. CASE ConnectReturns \/ TickFailed
    BY <2>1, <2>5 DEF ConnectReturns, TickFailed, TypeDriver, Owned
  <2>6. CASE Bind \/ TickConnected
    BY <1>1, <2>1, <2>6 DEF Bind, TickConnected, TypeDriver, TypeMuxes, TypeTasks,
                            Owned
  <2>7. CASE Attach \/ Interrupted \/ StdinCloses \/ AdapterGone
    BY <2>1, <2>7 DEF Attach, Interrupted, StdinCloses, AdapterGone, Ends, Owned
  <2>8. CASE Reap
    BY <2>1, <2>8 DEF Reap, Reaped, TypeMuxes, Owned
  <2>9. CASE TickLost \/ Quit
    BY <2>1, <2>9 DEF TickLost, Quit, EndSession, TypeDriver, Owned
  <2>10. CASE DropGuard
    BY <2>1, <2>10, GuardTyped DEF DropGuard, TypeDriver, TypeTasks, Owned
  <2>11. CASE Exit
    BY <2>1, <2>11 DEF Exit, TornDown, GuardDropped, TypeMuxes, TypeTasks, Owned
  <2>. QED BY <2>2, <2>3, <2>4, <2>5, <2>6, <2>7, <2>8, <2>9, <2>10, <2>11
              DEF DriverStep
<1>3. OneAdapter'
  <2>1. CASE Exit
    BY <2>1 DEF Exit, Ownership, OneAdapter
  <2>2. CASE ~Exit
    <3>1. Running'
      BY <2>2 DEF DriverStep, StartServing, SubmitConnect, StartConnect,
                  ConnectFails, ConnectReturns, Bind, BindFails, Attach,
                  AdapterGone, StdinCloses, Interrupted, SignalFails, Fail, Ends,
                  Reap, OpenInterface, InterfaceFails, TickConnected, TickFailed,
                  TickLost, DropGuard, Quit
    <3>. QED BY <1>2, <3>1 DEF OneAdapter, Owned
  <2>. QED BY <2>1, <2>2
<1>. QED BY <1>2, <1>3 DEF Ownership

\* A step of a mux engages none that was not: connecting goes on, or becomes a
\* connection.
LEMMA MuxOwns ==
    ASSUME TypeOK, Ownership, NEW n \in Muxes, MuxStep(n)
    PROVE  Ownership'
<1>1. ASSUME NEW m \in Muxes PROVE Owned(m)'
  <2>1. Owned(m)
    BY DEF Ownership
  <2>2. CASE Reached(n)
    BY <2>1, <2>2 DEF Reached, TypeOK, TypeMuxes, Owned
  <2>3. CASE Refused(n) \/ Retry(n) \/ DeadlinePasses(n)
    BY <2>1, <2>3 DEF Refused, AfterRefusal, Retry, DeadlinePasses, TypeOK, TypeMuxes,
                      Owned
  <2>4. CASE LinkLost(n)
    BY <2>1, <2>4 DEF LinkLost, Notified, TypeOK, TypeMuxes, Owned
  <2>5. CASE ChildExits(n)
    BY <2>1, <2>5 DEF ChildExits, TypeOK, TypeMuxes, Owned
  <2>. QED BY <2>2, <2>3, <2>4, <2>5 DEF MuxStep
<1>2. ASSUME NEW m \in Muxes, Engaged(m)' PROVE Engaged(m)
  BY <1>2 DEF MuxStep, Reached, Refused, AfterRefusal, Retry, DeadlinePasses,
              LinkLost, ChildExits, TypeOK, TypeMuxes
<1>3. OneAdapter'
  BY <1>2 DEF OneAdapter, Ownership
<1>. QED BY <1>1, <1>3 DEF Ownership

\* An accept loop that wakes or yields is fed from as before; the rest of the
\* tasks change nothing of this.
LEMMA TasksOwn ==
    ASSUME TypeOK, Ownership, TaskStep
    PROVE  Ownership'
<1>1. ASSUME NEW m \in Muxes PROVE Owned(m)'
  <2>1. Owned(m)
    BY DEF Ownership
  <2>. QED BY <2>1 DEF TaskStep, AcceptWakes, AcceptYields, Accept, RecordHandle,
                       HangsUp, Disconnects, Cancelled, TypeOK, TypeTasks, Owned
<1>2. UNCHANGED <<connect, link>>
  BY DEF TaskStep, AcceptWakes, AcceptYields, Accept, RecordHandle, HangsUp, Disconnects,
         Cancelled
<1>3. OneAdapter'
  BY <1>2 DEF OneAdapter, Ownership
<1>. QED BY <1>1, <1>3 DEF Ownership

\* Ownership holds at the start and is kept by every step.
LEMMA OwnershipInductive ==
    /\ SessionsInit => Ownership
    /\ TypeOK /\ Ownership /\ [Next]_vars => Ownership'
<1>1. SessionsInit => Ownership
  BY SessionsAssumption DEF SessionsInit, Ownership, OneAdapter, Owned
<1>2. ASSUME Ownership, UNCHANGED vars PROVE Ownership'
  BY <1>2 DEF Ownership, OneAdapter, Owned
<1>. QED BY <1>1, <1>2, StepKinds, DriverOwns, MuxOwns, TasksOwn

\* So it always holds.
LEMMA OwnershipHolds == Spec => []Ownership
BY TypeInductive, OwnershipInductive, PTL DEF Spec

\* However many sessions the operator starts, and however they end: the program
\* is connected, or connecting, to one adapter at most.
THEOREM OneAdapterAtATime == Spec => []OneAdapter
<1>1. Ownership => OneAdapter
  BY DEF Ownership
<1>. QED BY <1>1, OwnershipHolds, PTL

\* No accept loop goes on feeding a session the interface has left.
THEOREM OnlyTheCurrentSessionIsFed == Spec => []FeedsTheCurrentSession
<1>1. Ownership => FeedsTheCurrentSession
  BY DEF Ownership, Owned, FeedsTheCurrentSession
<1>. QED BY <1>1, OwnershipHolds, PTL

-----------------------------------------------------------------------------
(* The adapter is reaped.                                                  *)

\* A step of the driver: run_serving reaps its only mux before it returns that
\* the adapter is lost, and a success tears the runtime down.
LEMMA DriverReaps ==
    ASSUME TypeOK, Ownership, Reaping, DriverStep
    PROVE  Reaping'
<1> USE SessionsAssumption DEF TypeOK, Reaping, AdapterReaped
<1>1. CASE \E n \in Muxes : StartServing(n)
  <2>1. \A m \in Muxes : connect[m] = "unused"
    BY <1>1 DEF StartServing, Plain, TypeDriver
  <2>. QED BY <1>1, <2>1 DEF StartServing, Plain, Begin, TypeDriver, TypeMuxes
<1>2. CASE OpenInterface \/ \E n \in Muxes : SubmitConnect(n)
  BY <1>2 DEF OpenInterface, SubmitConnect, StartConnect, Begin, Interface, MaySubmit
<1>3. CASE ConnectFails \/ BindFails \/ SignalFails \/ InterfaceFails
  BY <1>3 DEF ConnectFails, BindFails, SignalFails, InterfaceFails, Fail
<1>4. CASE ConnectReturns \/ Bind \/ TickConnected \/ Attach
  BY <1>4 DEF ConnectReturns, Bind, TickConnected, Attach
<1>5. CASE TickFailed \/ TickLost \/ DropGuard \/ Quit
  BY <1>5 DEF TickFailed, TickLost, DropGuard, Quit, EndSession, Interface,
              TypeDriver
<1>6. CASE Interrupted \/ StdinCloses
  BY <1>6 DEF Interrupted, StdinCloses, Ends
<1>7. CASE AdapterGone
  BY <1>7 DEF AdapterGone, Ends, Plain, TypeDriver, Ownership, Owned
<1>8. CASE Reap
  <2>1. \A m \in Muxes : child[m] # "none" => m = current
    BY <1>8 DEF Reap, TypeDriver, Ownership, Owned
  <2>2. \A m \in Muxes : child'[m] # "running"
    BY <1>8, <2>1 DEF Reap, Reaped, TypeDriver, TypeMuxes
  <2>. QED BY <1>8, <2>2 DEF Reap
<1>9. CASE Exit
  BY <1>9 DEF Exit, TornDown, TypeMuxes
<1>. QED BY <1>1, <1>2, <1>3, <1>4, <1>5, <1>6, <1>7, <1>8, <1>9 DEF DriverStep

\* A step of a mux: the one of a lost session is connected, so no other child
\* can be spawned, and none is after the program has left.
LEMMA MuxReaps ==
    ASSUME TypeOK, Reaping, NEW n \in Muxes, MuxStep(n)
    PROVE  Reaping'
<1> USE DEF TypeOK, Reaping, AdapterReaped
<1>1. CASE Reached(n)
  <2>1. outcome # "lost"
    BY <1>1 DEF Reached
  <2>. QED BY <1>1, <2>1 DEF Reached, TypeMuxes
<1>2. CASE Refused(n) \/ Retry(n) \/ DeadlinePasses(n)
  BY <1>2 DEF Refused, AfterRefusal, Retry, DeadlinePasses, TypeMuxes, TypeDriver
<1>3. CASE LinkLost(n)
  BY <1>3 DEF LinkLost
<1>4. CASE ChildExits(n)
  BY <1>4 DEF ChildExits, TypeMuxes
<1>. QED BY <1>1, <1>2, <1>3, <1>4 DEF MuxStep

\* Reaping holds at the start and is kept by every step.
LEMMA ReapingInductive ==
    /\ SessionsInit => Reaping
    /\ TypeOK /\ Ownership /\ Reaping /\ [Next]_vars => Reaping'
<1>1. SessionsInit => Reaping
  BY DEF SessionsInit, Reaping, AdapterReaped
<1>2. ASSUME Reaping, TaskStep \/ UNCHANGED vars PROVE Reaping'
  BY <1>2 DEF TaskStep, AcceptWakes, AcceptYields, Accept, RecordHandle, HangsUp, Disconnects,
              Cancelled, Reaping, AdapterReaped
<1>. QED BY <1>1, <1>2, StepKinds, DriverReaps, MuxReaps

\* A program that ends because its operator or launcher wants it to, or because
\* the adapter is lost, leaves no adapter of its own running.
THEOREM AdapterIsReaped == Spec => []AdapterReaped
<1>1. Reaping => AdapterReaped
  BY DEF Reaping
<1>. QED BY <1>1, TypeInductive, OwnershipInductive, ReapingInductive, PTL DEF Spec

-----------------------------------------------------------------------------
(* The boundary of each session.                                           *)

\* What the boundary needs to know of the program: a mux that has connected has
\* or had an adapter, and is fed from then on; a session being ended, or whose
\* accept loop was aborted, has no way to its adapter; and the launcher's
\* client comes once.
Bounded ==
    /\ \A m \in Muxes : connect[m] = "ok" => link[m] # "none"
    /\ stage \in {"connecting", "binding"} => acceptor[current] = "none"
    /\ stage = "ending" => current \notin upstream
    /\ \A m \in Muxes : Running /\ acceptor[m] = "aborted" => m \notin upstream
    /\ config.stdio /\ stage \in {"starting", "connecting", "binding", "attaching"}
         => conn[Launcher] = "unborn"

\* The interface has no client on stdin.
LEMMA StdioIsPlain == ASSUME TypeOK, config.stdio PROVE Plain
BY SessionsAssumption DEF TypeOK, TypeDriver, Resolvable, Plain

\* A step of the driver leaves the sessions bounded.
LEMMA DriverBounds ==
    ASSUME TypeOK, Ownership, Bounded, DriverStep
    PROVE  Bounded'
<1>0. config.stdio => Plain
  BY StdioIsPlain
<1> USE <1>0 DEF TypeOK, Bounded
<1>1. CASE OpenInterface \/ \E n \in Muxes : StartServing(n) \/ SubmitConnect(n)
  <2>1. /\ UNCHANGED <<config, adapterVars, clientVars>>
        /\ \/ stage' = "idle" /\ UNCHANGED <<connect, current>>
           \/ \E n \in Muxes : Begin(n) /\ stage' = "connecting"
        /\ stage = "starting" \/ (stage = "idle" /\ Interface)
    BY <1>1 DEF OpenInterface, StartServing, SubmitConnect, StartConnect, MaySubmit
  <2>2. CASE stage' = "idle" /\ UNCHANGED <<connect, current>>
    BY <2>1, <2>2
  <2>3. ASSUME NEW n \in Muxes, Begin(n), stage' = "connecting"
        PROVE  Bounded'
    <3>1. acceptor[n] = "none"
      BY <2>3 DEF Begin, Ownership, Owned
    <3>2. config.stdio => conn[Launcher] = "unborn"
      BY <2>1 DEF Interface, Plain
    <3>. QED BY <2>1, <2>3, <3>1, <3>2 DEF Begin, TypeMuxes
  <2>. QED BY <2>1, <2>2, <2>3
<1>2. CASE ConnectFails \/ BindFails \/ SignalFails \/ InterfaceFails
  BY <1>2 DEF ConnectFails, BindFails, SignalFails, InterfaceFails, Fail
<1>3. CASE ConnectReturns
  BY <1>3 DEF ConnectReturns
<1>4. CASE Bind \/ TickConnected
  BY <1>4 DEF Bind, TickConnected, TypeDriver, TypeTasks, Interface, Plain
<1>5. CASE Attach
  BY <1>5 DEF Attach
<1>6. CASE AdapterGone \/ StdinCloses \/ Interrupted
  BY <1>6 DEF AdapterGone, StdinCloses, Interrupted, Ends
<1>7. CASE Reap \/ TickFailed
  BY <1>7 DEF Reap, TickFailed
<1>8. CASE TickLost \/ Quit
  BY <1>8 DEF TickLost, Quit, EndSession, Interface, Plain
<1>9. CASE DropGuard
  BY <1>9 DEF DropGuard, GuardDropped, TypeDriver, TypeTasks
<1>10. CASE Exit
  BY <1>10 DEF Exit
<1>. QED BY <1>1, <1>2, <1>3, <1>4, <1>5, <1>6, <1>7, <1>8, <1>9, <1>10
         DEF DriverStep

\* So does a step of a mux: one that connects is not fed yet.
LEMMA MuxBounds ==
    ASSUME TypeOK, Ownership, Bounded, NEW n \in Muxes, MuxStep(n)
    PROVE  Bounded'
<1> USE DEF TypeOK, TypeMuxes, TypeDriver, Bounded
<1>1. CASE Reached(n)
  <2>1. acceptor[n] = "none"
    BY <1>1 DEF Reached, Ownership, Owned
  <2>2. stage = "ending" => current # n
    BY <1>1 DEF Reached, Ownership, Owned
  <2>. QED BY <1>1, <2>1, <2>2 DEF Reached
<1>2. CASE Refused(n) \/ Retry(n) \/ DeadlinePasses(n)
  BY <1>2 DEF Refused, AfterRefusal, Retry, DeadlinePasses
<1>3. CASE LinkLost(n)
  BY <1>3 DEF LinkLost
<1>4. CASE ChildExits(n)
  BY <1>4 DEF ChildExits
<1>. QED BY <1>1, <1>2, <1>3, <1>4 DEF MuxStep

\* And a step of an accept loop or of a read task: the launcher's client does not
\* come by the listener.
LEMMA TaskBounds ==
    ASSUME TypeOK, Ownership, Bounded, TaskStep
    PROVE  Bounded'
<1> USE SessionsAssumption DEF TypeOK, TypeTasks, TypeDriver, Bounded
<1>1. ASSUME NEW m \in Muxes, AcceptWakes(m) \/ AcceptYields(m)
      PROVE  Bounded'
  BY <1>1 DEF AcceptWakes, AcceptYields
<1>2. ASSUME NEW m \in Muxes, NEW c \in Clients, Accept(m, c)
      PROVE  Bounded'
  BY <1>2 DEF Accept, Dials
<1>3. ASSUME NEW c \in Clients,
             RecordHandle(c) \/ HangsUp(c) \/ Disconnects(c) \/ Cancelled(c)
      PROVE  Bounded'
  BY <1>3 DEF RecordHandle, Registering, HangsUp, LiveReads, Disconnects, Cancelled
<1>. QED BY <1>1, <1>2, <1>3 DEF TaskStep

\* Every session stays bounded.
LEMMA BoundedInductive ==
    /\ SessionsInit => Bounded
    /\ TypeOK /\ Ownership /\ Bounded /\ [Next]_vars => Bounded'
<1>1. SessionsInit => Bounded
  BY SessionsAssumption DEF SessionsInit, Bounded
<1>2. ASSUME Bounded, UNCHANGED vars PROVE Bounded'
  BY <1>2 DEF Bounded
<1>. QED BY <1>1, <1>2, StepKinds, DriverBounds, MuxBounds, TaskBounds

\* What a session looks like rests on these.
LEMMA StutterMaps ==
    ASSUME NEW m \in Muxes, Running' = Running,
           UNCHANGED <<upstream, link, acceptor, home, conn>>
    PROVE  UNCHANGED B(m)!vars
BY DEF B!vars, TasksIn, ListedIn, TaskIn, Door

\* Ending one session is its boundary's end, and nothing to the others.
LEMMA EndSessionMaps ==
    ASSUME TypeOK, Running, Running', NEW m \in Muxes, EndSession(current),
           UNCHANGED <<link, acceptor, home>>
    PROVE  [B(m)!Next]_(B(m)!vars)
<1> USE DEF TypeOK, TypeDriver, TypeMuxes, TypeTasks
<1>1. \A c \in Clients : conn'[c] = Drained(current)[c]
  BY DEF EndSession
<1>2. CASE m = current
  <2>1. ListedIn(m)' = {}
    BY <1>1, <1>2 DEF Drained, ListedIn
  <2>2. ASSUME NEW c \in Clients
        PROVE  TaskIn(m, c)' = IF c \in ListedIn(m) /\ TaskIn(m, c) = "running"
                               THEN "cancelled" ELSE TaskIn(m, c)
    BY <1>1, <1>2, <2>2 DEF Drained, TaskIn, ListedIn, LiveReads
  <2>3. TasksIn(m)' =
          [c \in Clients |-> IF c \in ListedIn(m) /\ TasksIn(m)[c] = "running"
                             THEN "cancelled" ELSE TasksIn(m)[c]]
    BY <2>2 DEF TasksIn
  <2>4. m \notin upstream' /\ UNCHANGED Door(m)
    BY <1>2 DEF EndSession, Door
  <2>5. ListedIn(m)' = ListedIn(m) \ ListedIn(m)
    BY <2>1
  <2>6. B(m)!EndSession
    BY <2>3, <2>4, <2>5 DEF B!EndSession, B!Strike
  <2>. QED BY <2>6 DEF B!Next
<1>3. CASE m # current
  <2>1. \A c \in Clients : home[c] = m => conn'[c] = conn[c]
    BY <1>1, <1>3 DEF Drained
  <2>2. UNCHANGED <<TasksIn(m), ListedIn(m)>>
    BY <2>1 DEF TasksIn, ListedIn, TaskIn
  <2>3. (m \in upstream)' = (m \in upstream) /\ UNCHANGED Door(m)
    BY <1>3 DEF EndSession, Door
  <2>. QED BY <2>2, <2>3 DEF B!vars
<1>. QED BY <1>2, <1>3

\* A client that a session takes is no other session's.
LEMMA TakeMaps ==
    ASSUME TypeOK, Running, Running', NEW m \in Muxes, NEW n \in Muxes,
           NEW c \in Clients, conn[c] = "unborn",
           home' = [home EXCEPT ![c] = n], conn' = [conn EXCEPT ![c] = "fresh"],
           UNCHANGED <<upstream, link, acceptor>>,
           Door(n) = "open" \/ (c = Launcher /\ link[n] # "none")
    PROVE  [B(m)!Next]_(B(m)!vars)
<1> USE DEF TypeOK, TypeTasks
<1>1. TaskIn(m, c) = "unborn" /\ UNCHANGED Door(m)
  BY DEF TaskIn, Door
<1>2. \A d \in Clients : d # c => home'[d] = home[d] /\ conn'[d] = conn[d]
  OBVIOUS
<1>3. \A d \in Clients : d # c => TaskIn(m, d)' = TaskIn(m, d)
  BY <1>2 DEF TaskIn
<1>4. home'[c] = n /\ conn'[c] = "fresh"
  OBVIOUS
<1>5. CASE m = n
  <2>1. TaskIn(m, c)' = "fresh"
    BY <1>4, <1>5 DEF TaskIn
  <2>2. TasksIn(m)' = [TasksIn(m) EXCEPT ![c] = "fresh"]
    BY <1>3, <2>1 DEF TasksIn
  <2>3. ListedIn(m)' = ListedIn(m) \cup {c}
    BY <1>2, <1>4, <1>5 DEF ListedIn
  <2>4. B(m)!Take(c)
    BY <1>1, <1>5, <2>2, <2>3 DEF TasksIn, B!Take
  <2>. QED BY <2>4 DEF B!Next
<1>6. CASE m # n
  <2>1. TaskIn(m, c)' = "unborn"
    BY <1>4, <1>6 DEF TaskIn
  <2>2. UNCHANGED <<TasksIn(m), ListedIn(m)>>
    BY <1>1, <1>2, <1>3, <1>4, <1>6, <2>1 DEF TasksIn, ListedIn
  <2>. QED BY <1>1, <2>2 DEF B!vars
<1>. QED BY <1>5, <1>6

\* A step of one read task is one of its client in its session, and concerns no
\* other.
LEMMA OneTask ==
    ASSUME TypeOK, NEW m \in Muxes, NEW c \in Clients, NEW s,
           conn' = [conn EXCEPT ![c] = s], UNCHANGED home
    PROVE  /\ home[c] # m => UNCHANGED <<TasksIn(m), ListedIn(m)>>
           /\ home[c] = m =>
                /\ TasksIn(m)' = [TasksIn(m) EXCEPT ![c] = TaskIn(m, c)']
                /\ ListedIn(m)' = IF s \in {"fresh", "running"}
                                  THEN ListedIn(m) \cup {c} ELSE ListedIn(m) \ {c}
<1> USE DEF TypeOK, TypeTasks
<1>1. conn'[c] = s /\ \A d \in Clients : d # c => conn'[d] = conn[d]
  OBVIOUS
<1>2. \A d \in Clients : d # c \/ home[c] # m => TaskIn(m, d)' = TaskIn(m, d)
  BY <1>1 DEF TaskIn
<1>3. ASSUME home[c] # m PROVE UNCHANGED <<TasksIn(m), ListedIn(m)>>
  BY <1>1, <1>2, <1>3 DEF TasksIn, ListedIn
<1>4. TasksIn(m)' = [TasksIn(m) EXCEPT ![c] = TaskIn(m, c)']
  BY <1>2 DEF TasksIn
<1>5. ASSUME home[c] = m
      PROVE  ListedIn(m)' = IF s \in {"fresh", "running"}
                            THEN ListedIn(m) \cup {c} ELSE ListedIn(m) \ {c}
  BY <1>1, <1>5 DEF ListedIn
<1>. QED BY <1>3, <1>4, <1>5

\* What the read tasks do.
LEMMA TaskMaps ==
    ASSUME TypeOK, NEW m \in Muxes, NEW c \in Clients,
           RecordHandle(c) \/ HangsUp(c) \/ Disconnects(c) \/ Cancelled(c)
    PROVE  [B(m)!Next]_(B(m)!vars)
<1> USE DEF TypeOK, TypeTasks
<1>1. Running /\ Running' /\ UNCHANGED <<upstream, link, acceptor, home>>
  BY DEF RecordHandle, HangsUp, Disconnects, Cancelled
<1>2. UNCHANGED Door(m) /\ (m \in upstream)' = (m \in upstream)
  BY <1>1 DEF Door
<1>3. CASE home[c] # m
  <2>1. UNCHANGED <<TasksIn(m), ListedIn(m)>>
    BY <1>1, <1>3, OneTask DEF RecordHandle, HangsUp, Disconnects, Cancelled
  <2>. QED BY <1>1, <1>2, <2>1 DEF B!vars
<1>4. CASE home[c] = m /\ RecordHandle(c)
  <2>1. /\ TasksIn(m)[c] = "fresh" /\ TaskIn(m, c)' = "running"
        /\ c \in ListedIn(m) <=> conn[c] = "fresh"
    BY <1>1, <1>4 DEF RecordHandle, Registering, TasksIn, TaskIn, ListedIn
  <2>2. /\ TasksIn(m)' = [TasksIn(m) EXCEPT ![c] = "running"]
        /\ ListedIn(m)' = ListedIn(m)
    <3>1. CASE conn[c] = "fresh"
      <4>1. conn' = [conn EXCEPT ![c] = "running"]
        BY <1>4, <3>1 DEF RecordHandle
      <4>2. /\ TasksIn(m)' = [TasksIn(m) EXCEPT ![c] = TaskIn(m, c)']
            /\ ListedIn(m)' = ListedIn(m) \cup {c}
        BY <1>1, <1>4, <4>1, OneTask
      <4>. QED BY <2>1, <3>1, <4>2
    <3>2. CASE conn[c] = "dropped"
      <4>1. conn' = [conn EXCEPT ![c] = "stray"]
        BY <1>4, <3>2 DEF RecordHandle
      <4>2. /\ TasksIn(m)' = [TasksIn(m) EXCEPT ![c] = TaskIn(m, c)']
            /\ ListedIn(m)' = ListedIn(m) \ {c}
        BY <1>1, <1>4, <4>1, OneTask
      <4>. QED BY <2>1, <3>2, <4>2
    <3>. QED BY <1>4, <3>1, <3>2 DEF RecordHandle, Registering
  <2>3. B(m)!Record(c)
    BY <1>1, <1>2, <2>1, <2>2 DEF B!Record
  <2>. QED BY <2>3 DEF B!Next
<1>5. CASE home[c] = m /\ (HangsUp(c) \/ Cancelled(c))
  <2>1. /\ TasksIn(m)[c] \in {"fresh", "running", "cancelled"}
        /\ TasksIn(m)[c] = "cancelled" => c \notin ListedIn(m)
        /\ TaskIn(m, c)' = "ended"
    BY <1>1, <1>5 DEF HangsUp, Cancelled, LiveReads, TasksIn, TaskIn, ListedIn
  <2>2. /\ TasksIn(m)' = [TasksIn(m) EXCEPT ![c] = "ended"]
        /\ ListedIn(m)' = ListedIn(m) \ {c}
    BY <1>1, <1>5, <2>1, OneTask DEF HangsUp, Cancelled
  <2>3. B(m)!HangUp(c)
    BY <1>1, <1>2, <2>1, <2>2 DEF B!HangUp
  <2>. QED BY <2>3 DEF B!Next
<1>6. CASE home[c] = m /\ Disconnects(c)
  <2>1. /\ c \in ListedIn(m) /\ TasksIn(m)[c] = conn[c]
        /\ TaskIn(m, c)' = IF conn[c] = "running" THEN "cancelled" ELSE conn[c]
    BY <1>1, <1>6 DEF Disconnects, TasksIn, TaskIn, ListedIn
  <2>2. /\ TasksIn(m)' = [TasksIn(m) EXCEPT ![c] = TaskIn(m, c)']
        /\ ListedIn(m)' = ListedIn(m) \ {c}
    <3>1. CASE conn[c] = "fresh"
      <4>1. conn' = [conn EXCEPT ![c] = "dropped"]
        BY <1>6, <3>1 DEF Disconnects
      <4>. QED BY <1>1, <1>6, <4>1, OneTask
    <3>2. CASE conn[c] = "running"
      <4>1. conn' = [conn EXCEPT ![c] = "cancelled"]
        BY <1>6, <3>2 DEF Disconnects
      <4>. QED BY <1>1, <1>6, <4>1, OneTask
    <3>. QED BY <1>6, <3>1, <3>2 DEF Disconnects
  <2>3. TasksIn(m)' =
          [d \in Clients |-> IF d \in {c} /\ TasksIn(m)[d] = "running"
                             THEN "cancelled" ELSE TasksIn(m)[d]]
    BY <2>1, <2>2 DEF TasksIn
  <2>4. B(m)!Disconnect(c)
    BY <1>1, <1>2, <2>1, <2>2, <2>3 DEF B!Disconnect, B!Strike
  <2>. QED BY <2>4 DEF B!Next
<1>. QED BY <1>3, <1>4, <1>5, <1>6

\* What a mux and its adapter do.
LEMMA LinkMaps ==
    ASSUME TypeOK, Ownership, NEW m \in Muxes, NEW n \in Muxes, MuxStep(n)
    PROVE  [B(m)!Next]_(B(m)!vars)
<1> USE DEF TypeOK, TypeMuxes
<1>1. Running' = Running /\ UNCHANGED <<acceptor, home, conn>>
  BY DEF MuxStep, Reached, Refused, Retry, DeadlinePasses, LinkLost, ChildExits
<1>2. UNCHANGED <<TasksIn(m), ListedIn(m), Door(m)>>
  BY <1>1 DEF TasksIn, ListedIn, TaskIn, Door
<1>3. CASE Reached(n) /\ m = n
  <2>1. link[m] = "none"
    BY <1>3 DEF Reached, Ownership, Owned
  <2>2. B(m)!Connect
    BY <1>1, <1>2, <1>3, <2>1 DEF Reached, B!Connect
  <2>. QED BY <2>2 DEF B!Next
<1>4. CASE LinkLost(n) /\ m = n
  <2>1. B(m)!Lose
    BY <1>1, <1>2, <1>4 DEF LinkLost, B!Lose
  <2>. QED BY <2>1 DEF B!Next
<1>5. CASE (Reached(n) \/ LinkLost(n)) /\ m # n
  <2>1. UNCHANGED link[m] /\ (m \in upstream)' = (m \in upstream)
    BY <1>5 DEF Reached, LinkLost
  <2>. QED BY <1>1, <1>2, <2>1 DEF B!vars
<1>6. CASE Refused(n) \/ Retry(n) \/ DeadlinePasses(n) \/ ChildExits(n)
  <2>1. UNCHANGED <<upstream, link>>
    BY <1>6 DEF Refused, Retry, DeadlinePasses, ChildExits
  <2>. QED BY <1>1, <2>1, StutterMaps
<1>. QED BY <1>3, <1>4, <1>5, <1>6 DEF MuxStep

\* What an accept loop does.
LEMMA AcceptMaps ==
    ASSUME TypeOK, Bounded, NEW m \in Muxes, NEW n \in Muxes,
           \/ AcceptWakes(n) \/ AcceptYields(n)
           \/ \E c \in Clients : Accept(n, c)
    PROVE  [B(m)!Next]_(B(m)!vars)
<1> USE DEF TypeOK, TypeMuxes, TypeTasks
<1>1. Running /\ Running' /\ UNCHANGED <<upstream, link>>
  BY DEF AcceptWakes, AcceptYields, Accept
<1>2. CASE \E c \in Clients : Accept(n, c)
  <2>1. PICK c \in Clients : Accept(n, c)
    BY <1>2
  <2>2. Door(n) = "open"
    BY <2>1 DEF Accept, Door
  <2>3. /\ conn[c] = "unborn" /\ home' = [home EXCEPT ![c] = n]
        /\ conn' = [conn EXCEPT ![c] = "fresh"] /\ UNCHANGED acceptor
    BY <2>1 DEF Accept
  <2>. QED BY <1>1, <2>2, <2>3, TakeMaps
<1>3. CASE AcceptWakes(n) \/ AcceptYields(n)
  <2>1. UNCHANGED <<home, conn>>
    BY <1>3 DEF AcceptWakes, AcceptYields
  <2>2. UNCHANGED <<TasksIn(m), ListedIn(m)>>
    BY <2>1 DEF TasksIn, ListedIn, TaskIn
  <2>3. CASE m = n /\ AcceptYields(n) /\ acceptor[n] = "aborted"
    <3>1. Door(m) = "open" /\ Door(m)' = "closed" /\ m \notin upstream
      BY <1>1, <2>3 DEF AcceptYields, Door, Bounded
    <3>2. B(m)!Close
      BY <1>1, <2>2, <3>1 DEF B!Close
    <3>. QED BY <3>2 DEF B!Next
  <2>4. CASE ~(m = n /\ AcceptYields(n) /\ acceptor[n] = "aborted")
    <3>1. UNCHANGED Door(m)
      BY <1>3, <2>4 DEF AcceptWakes, AcceptYields, Door
    <3>. QED BY <1>1, <2>2, <3>1 DEF B!vars
  <2>. QED BY <2>3, <2>4
<1>. QED BY <1>2, <1>3

\* What the driver does: it opens a session, feeds it, brings in the launcher's
\* client, ends it, closes it, and exits; the rest is its own business.
LEMMA DriverMaps ==
    ASSUME TypeOK, Ownership, Bounded, NEW m \in Muxes, DriverStep
    PROVE  [B(m)!Next]_(B(m)!vars)
<1> USE SessionsAssumption DEF TypeOK, TypeMuxes, TypeTasks, TypeDriver
<1>1. CASE \/ OpenInterface \/ InterfaceFails \/ TickFailed
           \/ \E n \in Muxes : StartServing(n) \/ SubmitConnect(n)
           \/ ConnectFails \/ BindFails \/ SignalFails \/ ConnectReturns
           \/ AdapterGone \/ StdinCloses \/ Interrupted \/ Reap
  <2>1. Running' = Running /\ UNCHANGED <<upstream, link, acceptor, home, conn>>
    BY <1>1 DEF OpenInterface, InterfaceFails, TickFailed, StartServing,
       SubmitConnect, StartConnect, MaySubmit, ConnectFails, BindFails, SignalFails,
       Fail, ConnectReturns, AdapterGone, StdinCloses, Interrupted, Ends, Reap
  <2>. QED BY <2>1, StutterMaps
<1>2. CASE Bind \/ TickConnected
  <2>1. /\ Running /\ Running' /\ UNCHANGED <<upstream, link, home, conn>>
        /\ acceptor' = [acceptor EXCEPT ![current] = "waiting"]
        /\ current \in Muxes /\ acceptor[current] = "none"
        /\ link[current] # "none"
    BY <1>2 DEF Bind, TickConnected, Bounded, Ownership, Owned
  <2>2. UNCHANGED <<TasksIn(m), ListedIn(m)>>
    BY <2>1 DEF TasksIn, ListedIn, TaskIn
  <2>3. CASE m = current
    <3>1. Door(m) = "shut" /\ Door(m)' = "open"
      BY <2>1, <2>3 DEF Door
    <3>2. B(m)!Serve
      BY <2>1, <2>2, <2>3, <3>1 DEF B!Serve
    <3>. QED BY <3>2 DEF B!Next
  <2>4. CASE m # current
    <3>1. UNCHANGED Door(m)
      BY <2>1, <2>4 DEF Door
    <3>. QED BY <2>1, <2>2, <3>1 DEF B!vars
  <2>. QED BY <2>3, <2>4
<1>3. CASE Attach
  <2>1. Running /\ Running' /\ UNCHANGED <<upstream, link, acceptor>>
    BY <1>3 DEF Attach
  <2>2. CASE config.stdio
    <3>1. conn[Launcher] = "unborn" /\ current \in Muxes /\ link[current] # "none"
      BY <1>3, <2>2 DEF Attach, Bounded, Ownership, Owned
    <3>2. /\ home' = [home EXCEPT ![Launcher] = current]
          /\ conn' = [conn EXCEPT ![Launcher] = "fresh"]
      BY <1>3, <2>2 DEF Attach
    <3>. QED BY <2>1, <3>1, <3>2, TakeMaps
  <2>3. CASE ~config.stdio
    <3>1. UNCHANGED <<home, conn>>
      BY <1>3, <2>3 DEF Attach
    <3>. QED BY <2>1, <3>1, StutterMaps
  <2>. QED BY <2>2, <2>3
<1>4. CASE TickLost \/ Quit
  <2>1. Running /\ Running' /\ UNCHANGED <<link, acceptor, home>>
    BY <1>4 DEF TickLost, Quit
  <2>2. EndSession(current) \/ UNCHANGED <<upstream, conn>>
    BY <1>4 DEF TickLost, Quit
  <2>. QED BY <2>1, <2>2, EndSessionMaps, StutterMaps
<1>5. CASE DropGuard
  <2>1. /\ Running /\ Running' /\ UNCHANGED <<upstream, link, home, conn>>
        /\ acceptor' = [acceptor EXCEPT ![current] = GuardDropped(current)]
        /\ current \in Muxes /\ current \notin upstream
    BY <1>5 DEF DropGuard, Bounded
  <2>2. UNCHANGED <<TasksIn(m), ListedIn(m)>>
    BY <2>1 DEF TasksIn, ListedIn, TaskIn
  <2>3. CASE m = current /\ acceptor[m] = "waiting"
    <3>1. Door(m) = "open" /\ Door(m)' = "closed"
      BY <2>1, <2>3 DEF Door, GuardDropped
    <3>2. B(m)!Close
      BY <2>1, <2>2, <2>3, <3>1 DEF B!Close
    <3>. QED BY <3>2 DEF B!Next
  <2>4. CASE ~(m = current /\ acceptor[m] = "waiting")
    <3>1. UNCHANGED Door(m)
      BY <2>1, <2>4 DEF Door, GuardDropped
    <3>. QED BY <2>1, <2>2, <3>1 DEF B!vars
  <2>. QED BY <2>3, <2>4
<1>6. CASE Exit
  <2>1. /\ Running /\ ~Running' /\ UNCHANGED <<upstream, link, home, conn>>
        /\ \/ UNCHANGED acceptor
           \/ acceptor' = [acceptor EXCEPT ![current] = GuardDropped(current)]
    BY <1>6 DEF Exit
  <2>2. UNCHANGED <<TasksIn(m), ListedIn(m)>>
    BY <2>1 DEF TasksIn, ListedIn, TaskIn
  <2>3. Door(m)' \in {Door(m), IF Door(m) = "open" THEN "closed" ELSE Door(m)}
    BY <2>1 DEF Door, GuardDropped
  <2>4. B(m)!Exit
    BY <2>1, <2>2, <2>3 DEF B!Exit
  <2>. QED BY <2>4 DEF B!Next
<1>. QED BY <1>1, <1>2, <1>3, <1>4, <1>5, <1>6 DEF DriverStep

\* Whatever the program does, each of its sessions steps as its boundary says.
LEMMA BoundaryMaps ==
    ASSUME TypeOK, Ownership, Bounded, [Next]_vars, NEW m \in Muxes
    PROVE  [B(m)!Next]_(B(m)!vars)
<1>1. CASE UNCHANGED vars
  BY <1>1, StutterMaps
<1>2. CASE TaskStep
  BY <1>2, AcceptMaps, TaskMaps DEF TaskStep
<1>. QED BY <1>1, <1>2, StepKinds, DriverMaps, LinkMaps

\* In every mode, for any number of sessions and clients: each session takes,
\* lists and closes its clients as its boundary says.
THEOREM SessionsAreBounded == Spec => ImplementsBoundary
<1>1. SessionsInit => \A m \in Muxes : B(m)!Init
  BY SessionsAssumption
     DEF SessionsInit, B!Init, Running, Door, TasksIn, TaskIn, ListedIn
<1>2. TypeOK /\ Ownership /\ Bounded /\ [Next]_vars
        => [\A m \in Muxes : [B(m)!Next]_(B(m)!vars)]_vars
  BY BoundaryMaps
<1>. QED BY <1>1, <1>2, TypeInductive, OwnershipInductive, BoundedInductive, PTL
         DEF Spec, ImplementsBoundary

\* So each of them implements the boundary that the one session of Mux does.
COROLLARY EachSessionIsBounded ==
    ASSUME NEW n \in Muxes
    PROVE  Spec => B(n)!Spec
<1>1. SessionsInit => B(n)!Init
  BY SessionsAssumption
     DEF SessionsInit, B!Init, Running, Door, TasksIn, TaskIn, ListedIn
<1>2. TypeOK /\ Ownership /\ Bounded /\ [Next]_vars => [B(n)!Next]_(B(n)!vars)
  BY BoundaryMaps
<1>. QED BY <1>1, <1>2, TypeInductive, OwnershipInductive, BoundedInductive, PTL
         DEF Spec, B!Spec

=============================================================================
