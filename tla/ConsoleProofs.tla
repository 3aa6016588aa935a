--------------------------- MODULE ConsoleProofs ---------------------------
(***************************************************************************)
(* What the operator is told, for buffers, panes and runs of any size: the *)
(* adapter's stderr is reported and kept, the terminal is given back,      *)
(* and the pane shows the latest lines.                                    *)
(***************************************************************************)
EXTENDS Console, SequenceTheorems, FiniteSetTheorems, WellFoundedInduction, TLAPS

USE DEF ERROR, WARN, INFO, DEBUG, TRACE

-----------------------------------------------------------------------------
(* Types.                                                                  *)

\* A level the program is started with is shown as one the keys can move from.
LEMMA DisplayStarts ==
    ASSUME NEW level \in LogLevels
    PROVE  InitialDisplayLevel(level) \in DOMAIN DISPLAY_LEVELS
<1>1. level \in 1..5
  BY ConsoleAssumption DEF Levels
<1>2. DOMAIN DISPLAY_LEVELS = 1..4
  BY DEF DISPLAY_LEVELS
<1>. QED BY <1>1, <1>2 DEF InitialDisplayLevel

\* The keys stay within the levels displayed.
LEMMA DisplayStays ==
    ASSUME NEW up \in BOOLEAN, AdjustVerbosity(up)
    PROVE  display' \in DOMAIN DISPLAY_LEVELS
<1>1. DOMAIN DISPLAY_LEVELS = 1..4 /\ Len(DISPLAY_LEVELS) = 4
  BY DEF DISPLAY_LEVELS
<1>2. \A i \in 1..4 : DISPLAY_LEVELS[i] = i
  BY DEF DISPLAY_LEVELS
<1>3. display \in 1..4 /\ display' = DISPLAY_LEVELS[StepLevel(display, up)]
  BY <1>1 DEF AdjustVerbosity
<1>4. StepLevel(display, up) \in 1..4
  BY <1>1, <1>3 DEF StepLevel
<1>. QED BY <1>1, <1>2, <1>3, <1>4

\* Init establishes the types.
LEMMA TypeInit == ASSUME Init PROVE TypeOK
<1>1. config \in Invocations /\ config.level \in LogLevels
  BY DEF Init, Invocations
<1>2. display \in DOMAIN DISPLAY_LEVELS
  BY <1>1, DisplayStarts DEF Init
<1>3. {emitted, file, pane} \subseteq Seq(Line) /\ Len(pane) <= Capacity
  BY ConsoleAssumption DEF Init
<1>4. /\ said \in Seq({"text", "blank"}) /\ drained \in 0..Len(said)
      /\ raw \in Seq(Nat) /\ lost \subseteq Nat
  BY DEF Init
<1>. QED BY <1>1, <1>2, <1>3, <1>4 DEF Init, NoMessage, TypeOK

\* The line that Log appends.
Logged(target, level) ==
    [level |-> level, target |-> target, nth |-> Len(emitted) + 1,
     of |-> IF target = "adapter" THEN drained ELSE 0]

\* A step that logs keeps the types of the sinks, and the ring its size.
LEMMA LogTypes ==
    ASSUME TypeOK, NEW target \in {"mux", "adapter"}, NEW level \in Levels,
           Log(target, level)
    PROVE  {emitted', file', pane'} \subseteq Seq(Line) /\ Len(pane') <= Capacity
<1> DEFINE line == Logged(target, level)
<1>1. line \in Line
  BY DEF Logged, TypeOK, Line
<1>2. /\ emitted' = Append(emitted, line)
      /\ file' = Append(file, line) \/ file' = file
      /\ pane' = Push(line) \/ pane' = pane
  BY DEF Log, Logged
<1>3. /\ emitted \in Seq(Line) /\ file \in Seq(Line)
      /\ pane \in Seq(Line) /\ Len(pane) <= Capacity
  BY DEF TypeOK
<1>4. Push(line) \in Seq(Line) /\ Len(Push(line)) <= Capacity
  <2>1. CASE Len(pane) = Capacity
    <3>1. Tail(pane) \in Seq(Line) /\ Len(Tail(pane)) = Capacity - 1
      BY <1>3, <2>1, ConsoleAssumption
    <3>. QED BY <1>1, <2>1, <3>1, ConsoleAssumption DEF Push
  <2>2. CASE Len(pane) # Capacity
    BY <1>1, <1>3, <2>2, ConsoleAssumption DEF Push
  <2>. QED BY <2>1, <2>2
<1>. HIDE DEF line
<1>5. emitted' \in Seq(Line) /\ file' \in Seq(Line)
  <2>1. \A log \in Seq(Line) : Append(log, line) \in Seq(Line)
    BY <1>1
  <2>. QED BY <1>2, <1>3, <2>1, Zenon
<1>6. pane' \in Seq(Line) /\ Len(pane') <= Capacity
  BY <1>2, <1>3, <1>4
<1>. QED BY <1>5, <1>6

\* A step leaves the sinks alone or logs one line.
LEMMA LogSteps ==
    ASSUME [Next]_vars
    PROVE  \/ UNCHANGED sinkVars
           \/ \E target \in {"mux", "adapter"}, level \in Levels : Log(target, level)
<1>1. EventLevels \subseteq Levels /\ WARN \in Levels /\ INFO \in Levels
  BY ConsoleAssumption DEF Levels
<1>2. \/ UNCHANGED sinkVars
      \/ \E level \in EventLevels : Log("mux", level)
      \/ Log("mux", WARN) \/ Log("adapter", INFO)
  BY DEF Next, vars, MuxLogs, AdapterSays, Pump, OpenAdapterLog, ReadLine, WriteLine,
       ReportLine, StderrEnds, SetUp, SetUpFails, EnableRawMode,
       EnterAlternateScreen, BuildTerminal, EnterFails, Return, Panic, Unwind,
       TaskPanics, AdjustVerbosity, Serve
<1>. QED BY <1>1, <1>2

\* The invocation never changes.
LEMMA ConfigStays == ASSUME [Next]_vars PROVE config' = config
BY DEF Next, vars, MuxLogs, AdapterSays, Pump, OpenAdapterLog, ReadLine, WriteLine,
       ReportLine, StderrEnds, SetUp, SetUpFails, EnableRawMode,
       EnterAlternateScreen, BuildTerminal, EnterFails, Return, Panic, Unwind,
       TaskPanics, AdjustVerbosity, Serve

\* Every step keeps the types of the pump.
LEMMA PumpTypeStep ==
    ASSUME TypeOK, [Next]_vars
    PROVE  /\ said' \in Seq({"text", "blank"}) /\ drained' \in 0..Len(said')
           /\ raw' \in Seq(Nat) /\ lost' \subseteq Nat
           /\ pump' \in {"opening", "reading", "writing", "reporting", "ended", "broken"}
<1>1. /\ said \in Seq({"text", "blank"}) /\ drained \in 0..Len(said)
      /\ raw \in Seq(Nat) /\ lost \subseteq Nat
      /\ pump \in {"opening", "reading", "writing", "reporting", "ended", "broken"}
  BY DEF TypeOK
<1>2. CASE UNCHANGED pumpVars
  BY <1>1, <1>2 DEF pumpVars
<1>3. ASSUME NEW text \in {"text", "blank"}, AdapterSays(text)
      PROVE  said' \in Seq({"text", "blank"}) /\ Len(said') = Len(said) + 1
             /\ UNCHANGED <<pump, drained, raw, lost>>
  BY <1>1, <1>3 DEF AdapterSays
<1>4. CASE OpenAdapterLog \/ ReportLine \/ StderrEnds
  BY <1>1, <1>4 DEF OpenAdapterLog, ReportLine, StderrEnds, Pump
<1>5. CASE ReadLine
  BY <1>1, <1>5 DEF ReadLine, Pump, Report
<1>6. CASE WriteLine
  <2>1. /\ raw' = raw \/ raw' = raw \o <<drained>>
        /\ lost' \subseteq lost \cup {drained}
        /\ UNCHANGED <<said, drained>> /\ pump' \in {"reading", "reporting"}
    BY <1>6 DEF WriteLine, Kept, AfterWrite, Report, Pump
  <2>2. <<drained>> \in Seq(Nat) /\ drained \in Nat
    BY <1>1
  <2>3. raw' \in Seq(Nat)
    BY <1>1, <2>1, <2>2, ConcatProperties
  <2>. QED BY <1>1, <2>1, <2>2, <2>3
<1>7. \/ UNCHANGED pumpVars \/ \E text \in {"text", "blank"} : AdapterSays(text)
      \/ OpenAdapterLog \/ ReportLine \/ StderrEnds \/ ReadLine \/ WriteLine
  BY DEF Next, vars, MuxLogs, SetUp, SetUpFails, EnableRawMode,
         EnterAlternateScreen, BuildTerminal, EnterFails, Return, Panic, Unwind,
         TaskPanics, AdjustVerbosity, Serve
<1>8. CASE \E text \in {"text", "blank"} : AdapterSays(text)
  <2>1. said' \in Seq({"text", "blank"}) /\ Len(said') = Len(said) + 1
        /\ UNCHANGED <<pump, drained, raw, lost>>
    BY <1>3, <1>8
  <2>2. Len(said) \in Nat
    BY <1>1
  <2>. QED BY <1>1, <2>1, <2>2
<1>. QED BY <1>2, <1>4, <1>5, <1>6, <1>7, <1>8

\* Every step keeps the types.
LEMMA TypeStep == ASSUME TypeOK, [Next]_vars PROVE TypeOK'
<1>1. config' \in Invocations
  BY ConfigStays DEF TypeOK
<1>2. {emitted', file', pane'} \subseteq Seq(Line) /\ Len(pane') <= Capacity
  <2>1. CASE UNCHANGED sinkVars
    BY <2>1 DEF sinkVars, TypeOK
  <2>. QED BY <2>1, LogSteps, LogTypes
<1>3. display' \in DOMAIN DISPLAY_LEVELS
  <2>1. display' = display \/ \E up \in BOOLEAN : AdjustVerbosity(up)
    BY DEF Next, vars, MuxLogs, AdapterSays, Pump, OpenAdapterLog, ReadLine, WriteLine,
           ReportLine, StderrEnds, SetUp, SetUpFails, EnableRawMode,
           EnterAlternateScreen, BuildTerminal, EnterFails, Return, Panic, Unwind,
           TaskPanics, Serve
  <2>. QED BY <2>1, DisplayStays DEF TypeOK
<1>4. stage' \in Over \cup {"starting", "entering", "switching", "building", "running",
                           "unwinding"}
  BY DEF TypeOK, Over, Next, vars, MuxLogs, AdapterSays, Pump, OpenAdapterLog, ReadLine, WriteLine,
       ReportLine, StderrEnds, SetUp, SetUpFails, EnableRawMode,
       EnterAlternateScreen, BuildTerminal, EnterFails, Return, Panic, Unwind,
       TaskPanics, AdjustVerbosity, Serve
<1>5. /\ {rawMode', alternate', hooked', refused'} \subseteq BOOLEAN
      /\ printed' \in [over : BOOLEAN, refused : BOOLEAN]
  <2>1. /\ {rawMode, alternate, hooked, refused} \subseteq BOOLEAN
        /\ printed \in [over : BOOLEAN, refused : BOOLEAN]
    BY DEF TypeOK
  <2>2. CASE UNCHANGED terminalVars
    BY <2>1, <2>2 DEF terminalVars
  <2>3. CASE EnableRawMode \/ EnterAlternateScreen
    BY <2>1, <2>3 DEF EnableRawMode, EnterAlternateScreen
  <2>4. CASE Return \/ Unwind
    BY <2>1, <2>4 DEF Return, Unwind, DropGuard, RestoreTerminal, terminalVars
  <2>5. CASE Panic \/ TaskPanics
    <3>1. PanicHook
      BY <2>5 DEF Panic, TaskPanics
    <3>2. {rawMode', alternate', hooked', refused'} \subseteq BOOLEAN
      BY <2>1, <3>1 DEF PanicHook, RestoreTerminal
    <3>3. printed' = [over |-> ~Restored', refused |-> refused']
      BY <3>1 DEF PanicHook, ShowPanic
    <3>. QED BY <3>2, <3>3 DEF Restored
  <2>. QED BY <2>2, <2>3, <2>4, <2>5
           DEF Next, vars, MuxLogs, AdapterSays, Pump, OpenAdapterLog, ReadLine,
               WriteLine, ReportLine, StderrEnds, SetUp, SetUpFails, BuildTerminal,
               EnterFails, AdjustVerbosity, Serve
<1>. QED BY <1>1, <1>2, <1>3, <1>4, <1>5, PumpTypeStep DEF TypeOK

\* The state has the shape the code's types give it, and the level displayed is
\* one the keys can move from, at whatever level the program is started.
THEOREM ConsoleTypeCorrect == Spec => []TypeOK
BY TypeInit, TypeStep, PTL DEF Spec

-----------------------------------------------------------------------------
(* The terminal.                                                           *)

\* Where the terminal may be other than the program found it: only under the
\* interface, and from the moment there is something to restore the hook is in
\* place or the program is still on its way in.
TerminalTracked ==
    /\ ShellRestored
    /\ ~config.ui => Restored
    /\ stage \in {"entering", "switching", "building", "unwinding"} => config.ui
    /\ stage = "building" \/ (stage = "running" /\ config.ui) => hooked

\* An attempt restores the terminal or fails.
LEMMA Attempt == ASSUME RestoreTerminal PROVE Restored' \/ refused'
BY DEF RestoreTerminal, Restored

\* Every step keeps track of the terminal.
LEMMA TerminalStep == ASSUME TerminalTracked, [Next]_vars PROVE TerminalTracked'
<1>1. config' = config
  BY ConfigStays
<1>2. CASE UNCHANGED <<stage, terminalVars>>
  BY <1>1, <1>2 DEF terminalVars, TerminalTracked, ShellRestored, Restored
<1>3. CASE SetUp \/ SetUpFails
  BY <1>1, <1>3 DEF SetUp, SetUpFails, Serve, terminalVars, TerminalTracked,
                    ShellRestored, Restored
<1>4. CASE EnableRawMode \/ EnterAlternateScreen \/ BuildTerminal \/ EnterFails
  BY <1>1, <1>4 DEF EnableRawMode, EnterAlternateScreen, BuildTerminal, EnterFails,
                    Serve, terminalVars, TerminalTracked, ShellRestored, Restored
<1>5. CASE Return \/ Unwind
  <2>1. stage' \in {"returned", "panicked"} /\ printed' = printed
    BY <1>5 DEF Return, Unwind, Serve, DropGuard, terminalVars
  <2>2. CASE config.ui
    <3>1. RestoreTerminal
      BY <1>5, <2>2 DEF Return, Unwind, DropGuard
    <3>. QED BY <1>1, <2>1, <2>2, <3>1, Attempt DEF TerminalTracked, ShellRestored
  <2>3. CASE ~config.ui
    <3>1. UNCHANGED terminalVars
      BY <1>5, <2>3 DEF Return, Unwind, TerminalTracked
    <3>. QED BY <1>1, <2>1, <2>3, <3>1
             DEF terminalVars, TerminalTracked, ShellRestored, Restored
  <2>. QED BY <2>2, <2>3
<1>6. CASE Panic \/ TaskPanics
  <2>1. PanicHook /\ printed' = [over |-> ~Restored', refused |-> refused']
    BY <1>6 DEF Panic, TaskPanics, PanicHook, ShowPanic
  <2>2. printed'.over = ~Restored' /\ printed'.refused = refused'
    BY <2>1
  <2>3. /\ stage \in {"building", "running"}
        /\ stage' = stage \/ stage' = "panicked" \/ (stage' = "unwinding" /\ config.ui)
    BY <1>6 DEF Panic, TaskPanics, Serve, Pumping
  <2>4. CASE hooked
    <3>1. RestoreTerminal
      BY <2>1, <2>4 DEF PanicHook
    <3>2. Restored' \/ refused'
      BY <3>1, Attempt
    <3>3. hooked' /\ (Restored => Restored')
      BY <2>4, <3>1 DEF RestoreTerminal, Restored
    <3>. QED BY <1>1, <2>2, <2>3, <3>2, <3>3 DEF TerminalTracked, ShellRestored
  <2>5. CASE ~hooked
    <3>1. ~config.ui /\ Restored
      BY <2>3, <2>5 DEF TerminalTracked
    <3>2. UNCHANGED <<rawMode, alternate, hooked, refused>>
      BY <2>1, <2>5 DEF PanicHook
    <3>3. Restored'
      BY <3>1, <3>2 DEF Restored
    <3>. QED BY <1>1, <2>2, <2>3, <3>1, <3>2, <3>3 DEF TerminalTracked, ShellRestored
  <2>. QED BY <2>4, <2>5
<1>. QED BY <1>2, <1>3, <1>4, <1>5, <1>6
         DEF Next, vars, MuxLogs, AdapterSays, Pump, OpenAdapterLog, ReadLine,
             WriteLine, ReportLine, StderrEnds, AdjustVerbosity

\* The shell is given back on whatever way out of a program that served: its
\* return, with a result or an error, and a panic in its main task, even after
\* one that another task has survived, unless the last attempt fails; and no
\* panic's message is printed over the interface unless the hook's attempt failed.
THEOREM ShellIsRestored == Spec => []ShellRestored
<1>1. Init => TerminalTracked
  BY DEF Init, NoMessage, TerminalTracked, ShellRestored, Restored
<1>2. TerminalTracked => ShellRestored
  BY DEF TerminalTracked
<1>. QED BY <1>1, <1>2, TerminalStep, PTL DEF Spec

-----------------------------------------------------------------------------
(* The adapter's stderr.                                                   *)

\* The lines from the adapter in a log, and one more.
LEMMA AdapterLines ==
    ASSUME NEW log \in Seq(Line), NEW line \in Line
    PROVE  FromAdapter(Append(log, line)) =
             IF line.target = "adapter" THEN FromAdapter(log) \cup {Len(log) + 1}
             ELSE FromAdapter(log)
<1>1. FromAdapter(log) \in SUBSET (1..Len(log)) /\ Len(log) \in Nat
  BY DEF FromAdapter
<1>2. /\ DOMAIN Append(log, line) = 1..(Len(log) + 1)
      /\ \A i \in 1..Len(log) : Append(log, line)[i] = log[i]
      /\ Append(log, line)[Len(log) + 1] = line
  OBVIOUS
<1>. QED BY <1>1, <1>2 DEF FromAdapter

\* What StderrKept rests on: events are numbered as they are emitted, the line
\* in hand is one that was read, and the lines lost are among those written.
StderrTracked ==
    /\ StderrKept
    /\ \A i \in DOMAIN emitted : emitted[i].nth = i
    /\ pump = "reporting" => drained \in Texts
    /\ pump = "writing" => drained \in 1..Len(said) /\ config.adapterLog = "opens"
    /\ lost \subseteq (1..drained) \ Unwritten

\* The parts of StderrKept, by the sink: the events ...
EventsKept ==
    /\ Reported = Texts \ Unreported
    /\ \A i, j \in FromAdapter(emitted) : i < j => emitted[i].of < emitted[j].of

\* ... the adapter log ...
RawKept ==
    config.adapterLog = "opens" =>
      /\ ToSet(raw) = (1..drained) \ (lost \cup Unwritten)
      /\ \A i, j \in DOMAIN raw : i < j => raw[i] < raw[j]

\* ... and the log file.
FileKept ==
    /\ \A i \in DOMAIN file : file[i] \in ToSet(emitted)
    /\ \A i, j \in DOMAIN file : i < j => file[i].nth < file[j].nth
    /\ config.adapterLog # "none" => FromAdapter(file) = {}

\* A line more on a sequence, for what is said of its elements and their order.
LEMMA AppendLine ==
    ASSUME NEW log \in Seq(Line), NEW line \in Line
    PROVE  LET longer == Append(log, line) IN
             /\ DOMAIN longer = 1..(Len(log) + 1) /\ DOMAIN log = 1..Len(log)
             /\ Len(log) \in Nat
             /\ \A i \in 1..Len(log) : longer[i] = log[i]
             /\ longer[Len(log) + 1] = line
             /\ \A i \in DOMAIN longer : i \in DOMAIN log \/ i = Len(log) + 1
             /\ ToSet(longer) = ToSet(log) \cup {line}
<1> DEFINE longer == Append(log, line)
<1>1. /\ DOMAIN longer = 1..(Len(log) + 1) /\ DOMAIN log = 1..Len(log)
      /\ Len(log) \in Nat
      /\ \A i \in 1..Len(log) : longer[i] = log[i]
      /\ longer[Len(log) + 1] = line
  OBVIOUS
<1>. HIDE DEF longer
<1>2. \A i \in DOMAIN longer : i \in DOMAIN log \/ i = Len(log) + 1
  BY <1>1
<1>3. ToSet(longer) = ToSet(log) \cup {line}
  BY <1>1, <1>2 DEF ToSet
<1>. QED BY <1>1, <1>2, <1>3 DEF longer

\* A line logged goes to the file in its turn, and an adapter's one only if there
\* is no adapter log.
LEMMA FileLogs ==
    ASSUME TypeOK, StderrTracked, config' = config,
           NEW target \in {"mux", "adapter"}, NEW level \in Levels, Log(target, level)
    PROVE  FileKept' /\ \A i \in DOMAIN emitted' : emitted'[i].nth = i
<1> DEFINE line == Logged(target, level)
<1>1. /\ line \in Line /\ line.nth = Len(emitted) + 1 /\ line.target = target
      /\ emitted' = Append(emitted, line)
      /\ file' = file \/ (ToFile(line) /\ file' = Append(file, line))
  BY DEF Log, Logged, TypeOK, Line
<1>2. emitted \in Seq(Line) /\ file \in Seq(Line)
  BY DEF TypeOK
<1>. HIDE DEF line
<1>3. /\ ToSet(emitted') = ToSet(emitted) \cup {line}
      /\ \A i \in DOMAIN emitted' : emitted'[i].nth = i
  BY <1>1, <1>2, AppendLine DEF StderrTracked
<1>4. /\ \A i \in DOMAIN file : file[i] \in ToSet(emitted)
      /\ \A i, j \in DOMAIN file : i < j => file[i].nth < file[j].nth
      /\ config.adapterLog # "none" => FromAdapter(file) = {}
  BY DEF StderrTracked, StderrKept
<1>5. CASE file' = file
  BY <1>3, <1>4, <1>5 DEF FileKept, FromAdapter
<1>6. CASE ToFile(line) /\ file' = Append(file, line)
  <2>1. \A i \in DOMAIN file' : file'[i] \in ToSet(emitted')
    BY <1>1, <1>2, <1>3, <1>4, <1>6, AppendLine
  <2>2. \A i \in DOMAIN file : file[i].nth < line.nth
    <3>1. \A e \in ToSet(emitted) : e.nth \in 1..Len(emitted)
      BY <1>2 DEF StderrTracked, ToSet
    <3>2. Len(emitted) \in Nat
      BY <1>2
    <3>. QED BY <1>1, <1>4, <3>1, <3>2
  <2>3. ASSUME NEW i \in DOMAIN file', NEW j \in DOMAIN file', i < j
        PROVE  file'[i].nth < file'[j].nth
    <3>1. i \in DOMAIN file /\ file'[i] = file[i]
      BY <1>1, <1>2, <1>6, <2>3, AppendLine
    <3>2. CASE j \in DOMAIN file
      BY <1>1, <1>2, <1>4, <1>6, <2>3, <3>1, <3>2, AppendLine
    <3>3. CASE j = Len(file) + 1
      BY <1>1, <1>2, <1>6, <2>2, <3>1, <3>3, AppendLine
    <3>. QED BY <1>1, <1>2, <1>6, <3>2, <3>3, AppendLine
  <2>4. config.adapterLog # "none" => FromAdapter(file') = {}
    <3>1. config.adapterLog # "none" => line.target # "adapter"
      BY <1>6 DEF ToFile, AdapterInFile
    <3>. QED BY <1>1, <1>2, <1>4, <1>6, <3>1, AdapterLines
  <2>. QED BY <1>3, <2>1, <2>3, <2>4 DEF FileKept, FromAdapter
<1>. QED BY <1>1, <1>3, <1>5, <1>6

\* What the mux logs of itself leaves the adapter's lines as they were reported.
LEMMA MuxReports ==
    ASSUME TypeOK, NEW level \in Levels, Log("mux", level)
    PROVE  FromAdapter(emitted') = FromAdapter(emitted)
           /\ \A i \in FromAdapter(emitted) : emitted'[i] = emitted[i]
<1> DEFINE line == Logged("mux", level)
<1>1. line \in Line /\ line.target = "mux" /\ emitted' = Append(emitted, line)
  BY DEF Log, Logged, TypeOK, Line
<1>2. emitted \in Seq(Line)
  BY DEF TypeOK
<1>. HIDE DEF line
<1>. QED BY <1>1, <1>2, AdapterLines, AppendLine DEF FromAdapter

\* What is read is unreported until it is reported, and what is left out of the
\* reckoning does not matter to it.
LEMMA EventsStay ==
    ASSUME TypeOK, StderrTracked, UNCHANGED <<said, drained>>,
           FromAdapter(emitted') = FromAdapter(emitted),
           \A i \in FromAdapter(emitted) : emitted'[i] = emitted[i],
           Texts \ Unreported' = Texts \ Unreported
    PROVE  EventsKept'
<1>1. Texts' = Texts
  BY DEF Texts
<1>2. Reported' = Reported
  BY DEF Reported
<1>. QED BY <1>1, <1>2 DEF StderrTracked, StderrKept, EventsKept

\* Reading one more line, which is in hand if it is worth an event.
LEMMA ReadKeeps ==
    ASSUME TypeOK, StderrTracked, config' = config, ReadLine
    PROVE  StderrTracked'
<1>1. /\ said \in Seq({"text", "blank"}) /\ drained \in Nat /\ drained < Len(said)
      /\ drained' = drained + 1 /\ pump = "reading"
      /\ UNCHANGED <<said, emitted, file, raw, lost>>
      /\ pump' = IF config.adapterLog = "opens" THEN "writing"
                 ELSE Report(said[drained + 1])
  BY DEF ReadLine, Pump, sinkVars, TypeOK
<1>2. said[drained + 1] \in {"text", "blank"} /\ drained + 1 \in 1..Len(said)
  BY <1>1
<1>3. 1..(drained + 1) = (1..drained) \cup {drained + 1} /\ drained + 1 \notin 1..drained
  BY <1>1
<1>4. Texts' = Texts \cup (IF said[drained + 1] = "text" THEN {drained + 1} ELSE {})
  BY <1>1, <1>3 DEF Texts
<1>5. Unreported = {} /\ Unwritten = {} /\ Texts \subseteq 1..drained
      /\ lost \subseteq 1..drained
  BY <1>1 DEF Unreported, Unwritten, Texts, StderrTracked
<1>6. CASE config.adapterLog = "opens"
  <2>1. Unreported' = {drained + 1} /\ Unwritten' = {drained + 1} /\ pump' = "writing"
    BY <1>1, <1>6 DEF Unreported, Unwritten
  <2>2. Texts' \ Unreported' = Texts
    BY <1>3, <1>4, <1>5, <2>1
  <2>3. (1..drained') \ (lost' \cup Unwritten') = (1..drained) \ lost
    BY <1>1, <1>3, <1>5, <2>1
  <2>. QED BY <1>1, <1>2, <1>3, <1>5, <1>6, <2>1, <2>2, <2>3
           DEF StderrTracked, StderrKept, Reported, FromAdapter
<1>7. CASE config.adapterLog # "opens"
  <2>1. /\ pump' = IF said[drained + 1] = "blank" THEN "reading" ELSE "reporting"
        /\ Unwritten' = {}
        /\ Unreported' = IF said[drained + 1] = "blank" THEN {} ELSE {drained + 1}
    BY <1>1, <1>7 DEF Report, Unreported, Unwritten
  <2>2. Texts' \ Unreported' = Texts
    BY <1>2, <1>3, <1>4, <1>5, <2>1
  <2>3. pump' = "reporting" => drained' \in Texts'
    BY <1>1, <1>2, <1>4, <2>1
  <2>. QED BY <1>1, <1>3, <1>5, <1>7, <2>1, <2>2, <2>3
           DEF StderrTracked, StderrKept, Reported, FromAdapter
<1>. QED BY <1>6, <1>7

\* Writing the line in hand, or failing to.
LEMMA WriteKeeps ==
    ASSUME TypeOK, StderrTracked, config' = config, WriteLine
    PROVE  StderrTracked'
<1>1. PICK whole \in BOOLEAN :
        /\ raw' = IF whole THEN raw \o <<drained>> ELSE raw
        /\ lost' = IF whole THEN lost ELSE lost \cup {drained}
        /\ pump' = Report(said[drained])
  BY DEF WriteLine, Kept, AfterWrite, Pump
<1>2. /\ pump = "writing" /\ UNCHANGED <<said, drained, emitted, file>>
      /\ drained \in 1..Len(said) /\ config.adapterLog = "opens"
      /\ said \in Seq({"text", "blank"}) /\ said[drained] \in {"text", "blank"}
  BY DEF WriteLine, Pump, sinkVars, StderrTracked, TypeOK
<1>3. /\ Unwritten = {drained} /\ Unwritten' = {} /\ Unreported = {drained}
      /\ Unreported' = IF said[drained] = "text" THEN {drained} ELSE {}
      /\ pump' = IF said[drained] = "text" THEN "reporting" ELSE "reading"
  BY <1>1, <1>2 DEF Unwritten, Unreported, Report
<1>4. Texts' = Texts /\ (drained \in Texts <=> said[drained] = "text")
  BY <1>2 DEF Texts
<1>5. Texts' \ Unreported' = Texts \ Unreported
  BY <1>2, <1>3, <1>4
<1>6. /\ ToSet(raw) = (1..drained) \ (lost \cup {drained})
      /\ \A i, j \in DOMAIN raw : i < j => raw[i] < raw[j]
      /\ lost \subseteq (1..drained) \ {drained} /\ raw \in Seq(Nat)
  BY <1>2, <1>3 DEF StderrTracked, StderrKept, TypeOK
<1>7. RawKept'
  <2>1. CASE ~whole
    <3>1. raw' = raw /\ lost' = lost \cup {drained}
      BY <1>1, <2>1
    <3>. QED BY <1>2, <1>3, <1>6, <3>1 DEF RawKept
  <2>2. CASE whole
    <3>1. raw' = raw \o <<drained>> /\ lost' = lost
      BY <1>1, <2>2
    <3>2. /\ Len(raw) \in Nat /\ DOMAIN raw = 1..Len(raw)
          /\ DOMAIN raw' = 1..(Len(raw) + 1)
          /\ \A i \in 1..Len(raw) : raw'[i] = raw[i]
          /\ raw'[Len(raw) + 1] = drained
      BY <1>2, <1>6, <3>1
    <3>3. ToSet(raw') = ToSet(raw) \cup {drained}
      BY <3>2 DEF ToSet
    <3>4. ToSet(raw') = (1..drained) \ lost
      BY <1>2, <1>6, <3>3
    <3>5. \A i \in DOMAIN raw : raw[i] < drained
      <4>1. \A n \in ToSet(raw) : n < drained
        BY <1>2, <1>6
      <4>. QED BY <4>1 DEF ToSet
    <3>6. \A i, j \in DOMAIN raw' : i < j => raw'[i] < raw'[j]
      BY <1>6, <3>2, <3>5
    <3>. QED BY <1>2, <1>3, <3>1, <3>4, <3>6 DEF RawKept
  <2>. QED BY <2>1, <2>2
<1>8. lost' \subseteq 1..drained
  BY <1>1, <1>2, <1>6
<1>9. EventsKept' /\ FileKept'
  BY <1>2, <1>5
     DEF EventsKept, FileKept, StderrTracked, StderrKept, Reported, FromAdapter
<1>. QED BY <1>2, <1>3, <1>4, <1>7, <1>8, <1>9
         DEF StderrTracked, StderrKept, EventsKept, RawKept, FileKept

\* Reporting the line in hand.
LEMMA ReportKeeps ==
    ASSUME TypeOK, StderrTracked, config' = config, ReportLine
    PROVE  StderrTracked'
<1> DEFINE line == Logged("adapter", INFO)
<1>1. /\ Log("adapter", INFO) /\ pump = "reporting" /\ pump' = "reading"
      /\ UNCHANGED <<said, drained, raw, lost>> /\ INFO \in Levels
  BY DEF ReportLine, Pump, Levels
<1>2. FileKept' /\ \A i \in DOMAIN emitted' : emitted'[i].nth = i
  BY <1>1, FileLogs
<1>3. /\ line \in Line /\ line.target = "adapter" /\ line.of = drained
      /\ emitted' = Append(emitted, line) /\ emitted \in Seq(Line)
  BY <1>1 DEF Log, Logged, TypeOK, Line
<1>. HIDE DEF line
<1>4. /\ FromAdapter(emitted') = FromAdapter(emitted) \cup {Len(emitted) + 1}
      /\ \A i \in FromAdapter(emitted) : emitted'[i] = emitted[i] /\ i \in 1..Len(emitted)
      /\ emitted'[Len(emitted) + 1] = line /\ Len(emitted) \in Nat
  BY <1>3, AdapterLines, AppendLine DEF FromAdapter
<1>5. /\ Unreported = {drained} /\ Unreported' = {} /\ Unwritten = {} /\ Unwritten' = {}
      /\ Texts' = Texts /\ drained \in Texts
  BY <1>1 DEF Unreported, Unwritten, Texts, StderrTracked
<1>6. Reported' = Reported \cup {drained}
  BY <1>3, <1>4 DEF Reported
<1>7. Reported = Texts \ {drained}
  BY <1>5 DEF StderrTracked, StderrKept
<1>8. ASSUME NEW i \in FromAdapter(emitted'), NEW j \in FromAdapter(emitted'), i < j
      PROVE  emitted'[i].of < emitted'[j].of
  <2>1. i \in FromAdapter(emitted)
    BY <1>4, <1>8
  <2>2. CASE j \in FromAdapter(emitted)
    BY <1>4, <1>8, <2>1, <2>2 DEF StderrTracked, StderrKept
  <2>3. CASE j = Len(emitted) + 1
    <3>1. emitted[i].of \in Texts \ {drained}
      BY <1>7, <2>1 DEF Reported
    <3>2. \A n \in Texts : n \in 1..drained
      BY DEF Texts
    <3>3. drained \in Nat
      BY DEF TypeOK
    <3>4. emitted'[i].of = emitted[i].of /\ emitted[i].of < drained
      BY <1>4, <2>1, <3>1, <3>2, <3>3
    <3>5. emitted'[j].of = drained
      BY <1>3, <1>4, <2>3
    <3>. QED BY <3>4, <3>5
  <2>. QED BY <1>4, <2>2, <2>3
<1>9. EventsKept'
  BY <1>5, <1>6, <1>7, <1>8 DEF EventsKept
<1>10. RawKept'
  BY <1>1, <1>5 DEF RawKept, StderrTracked, StderrKept
<1>. QED BY <1>1, <1>2, <1>5, <1>9, <1>10
         DEF StderrTracked, StderrKept, EventsKept, RawKept, FileKept

\* A step that changes neither what the pump has read nor what it has in hand.
LEMMA OthersKeep ==
    ASSUME TypeOK, StderrTracked, config' = config,
           UNCHANGED <<said, drained, raw, lost>>,
           \/ pump' = pump
           \/ pump \in {"opening", "reading"} /\ pump' \in {"reading", "ended", "broken"},
           UNCHANGED sinkVars \/ \E level \in Levels : Log("mux", level)
    PROVE  StderrTracked'
<1>1. /\ Unreported' = Unreported /\ Unwritten' = Unwritten /\ Texts' = Texts
      /\ pump' = "reporting" => pump = "reporting"
      /\ pump' = "writing" => pump = "writing"
  BY DEF Unreported, Unwritten, Texts
<1>2. RawKept'
  BY <1>1 DEF RawKept, StderrTracked, StderrKept
<1>3. CASE UNCHANGED sinkVars
  <2>1. EventsKept' /\ FileKept'
    BY <1>1, <1>3
       DEF sinkVars, EventsKept, FileKept, StderrTracked, StderrKept, Reported,
           FromAdapter
  <2>. QED BY <1>1, <1>2, <1>3, <2>1
           DEF sinkVars, StderrTracked, StderrKept, EventsKept, RawKept, FileKept
<1>4. ASSUME NEW level \in Levels, Log("mux", level) PROVE StderrTracked'
  <2>1. FileKept' /\ \A i \in DOMAIN emitted' : emitted'[i].nth = i
    BY <1>4, FileLogs
  <2>2. EventsKept'
    BY <1>1, <1>4, MuxReports, EventsStay
  <2>. QED BY <1>1, <1>2, <2>1, <2>2
           DEF StderrTracked, StderrKept, EventsKept, RawKept, FileKept
<1>. QED BY <1>3, <1>4

\* Every line of text the adapter writes on its stderr is reported once and in
\* order whatever becomes of the adapter log, which lacks only lines whose write
\* failed; and no line goes to both logs, for any number of lines.
THEOREM StderrIsKept == Spec => []StderrKept
<1>1. ASSUME Init PROVE StderrTracked
  <2>1. FromAdapter(file) = {} /\ Texts = {} /\ FromAdapter(emitted) = {}
        /\ ToSet(raw) = {} /\ 1..drained = {}
    BY <1>1 DEF Init, FromAdapter, Texts, ToSet
  <2>2. pump = "opening" /\ Reported = {} /\ lost = {} /\ emitted = <<>> /\ file = <<>>
        /\ raw = <<>>
    BY <1>1, <2>1 DEF Init, Reported
  <2>3. Unreported = {} /\ Unwritten = {}
    BY <2>2 DEF Unreported, Unwritten
  <2>. QED BY <2>1, <2>2, <2>3 DEF StderrTracked, StderrKept
<1>2. ASSUME TypeOK, StderrTracked, [Next]_vars
      PROVE  StderrTracked'
  <2>1. config' = config
    BY <1>2, ConfigStays
  <2>2. WARN \in Levels /\ EventLevels \subseteq Levels
    BY ConsoleAssumption DEF Levels
  <2>3. ASSUME NEW text \in {"text", "blank"}, AdapterSays(text)
        PROVE  StderrTracked'
    <3>1. /\ said' = Append(said, text) /\ said \in Seq({"text", "blank"})
          /\ UNCHANGED <<emitted, file, pump, drained, raw, lost>>
          /\ drained \in 0..Len(said)
      BY <1>2, <2>3 DEF AdapterSays, sinkVars, TypeOK
    <3>2. Texts' = Texts
      BY <3>1 DEF Texts
    <3>3. Unreported' = Unreported /\ Unwritten' = Unwritten
      BY <3>1 DEF Unreported, Unwritten
    <3>4. 1..Len(said) \subseteq 1..Len(said')
      BY <3>1
    <3>. QED BY <1>2, <2>1, <3>1, <3>2, <3>3, <3>4
             DEF StderrTracked, StderrKept, Reported, FromAdapter
  <2>4. CASE OpenAdapterLog
    BY <1>2, <2>1, <2>2, <2>4, OthersKeep DEF OpenAdapterLog, Pump
  <2>5. CASE StderrEnds
    BY <1>2, <2>1, <2>2, <2>5, OthersKeep DEF StderrEnds, Pump
  <2>6. CASE \E level \in EventLevels : MuxLogs(level)
    BY <1>2, <2>1, <2>2, <2>6, OthersKeep DEF MuxLogs, pumpVars
  <2>7. CASE UNCHANGED <<sinkVars, pumpVars>>
    BY <1>2, <2>1, <2>7, OthersKeep DEF pumpVars
  <2>8. CASE ReadLine \/ WriteLine \/ ReportLine
    BY <1>2, <2>1, <2>8, ReadKeeps, WriteKeeps, ReportKeeps
  <2>. QED BY <1>2, <2>3, <2>4, <2>5, <2>6, <2>7, <2>8
           DEF Next, vars, SetUp, SetUpFails, EnableRawMode, EnterAlternateScreen,
               BuildTerminal, EnterFails, Return, Panic, Unwind, TaskPanics,
               AdjustVerbosity, Serve
<1>3. StderrTracked => StderrKept
  BY DEF StderrTracked
<1>. QED BY <1>1, <1>2, <1>3, TypeInit, TypeStep, PTL DEF Spec

-----------------------------------------------------------------------------
(* The filter of the pane, which is defined by recursion on the buffer.    *)

\* Induction up to a bound, for a set of numbers.
LEMMA UpTo ==
    ASSUME NEW n \in Nat, NEW S, 0 \in S, \A m \in 0..(n - 1) : m \in S => m + 1 \in S
    PROVE  0..n \subseteq S
<1> DEFINE Missing == {m \in 0..n : m \notin S}
<1>1. SUFFICES ASSUME Missing # {} PROVE FALSE
  OBVIOUS
<1>2. Missing \subseteq Nat
  OBVIOUS
<1>3. PICK m \in Missing : \A k \in Missing : ~(<<k, m>> \in OpToRel(<, Nat))
  BY <1>1, <1>2, NatLessThanWellFounded, WFMin
<1>4. \A k \in Missing : ~(k < m)
  BY <1>2, <1>3 DEF OpToRel
<1>5. m \in 1..n /\ m - 1 \in 0..(n - 1) /\ m - 1 \notin Missing
  BY <1>4
<1>. QED BY <1>5

\* What one more line adds to those shown.
ShownNext(shown, line) == IF Visible(line) THEN Append(shown, line) ELSE shown

\* The recursion is well founded: there is such a function.
LEMMA ShownExists ==
    ASSUME pane \in Seq(Line)
    PROVE  \E f : f = [n \in 0..Len(pane) |->
                         IF n = 0 THEN <<>>
                         ELSE IF Visible(pane[n]) THEN Append(f[n - 1], pane[n])
                         ELSE f[n - 1]]
<1> DEFINE N == Len(pane)
           Starts(f, m) == /\ f[0] = <<>>
                           /\ \A n \in 1..m : f[n] = ShownNext(f[n - 1], pane[n])
           S == {m \in 0..N : \E f \in [0..m -> Seq(Line)] : Starts(f, m)}
<1>1. N \in Nat /\ \A n \in 1..N : pane[n] \in Line
  OBVIOUS
<1>. HIDE DEF N
<1>2. 0 \in S
  <2>1. [n \in 0..0 |-> <<>>] \in [0..0 -> Seq(Line)]
    OBVIOUS
  <2>2. Starts([n \in 0..0 |-> <<>>], 0)
    OBVIOUS
  <2>3. 0 \in 0..N
    BY <1>1
  <2>4. \E f \in [0..0 -> Seq(Line)] : Starts(f, 0)
    <3>. HIDE DEF Starts
    <3>. QED BY <2>1, <2>2
  <2>. HIDE DEF Starts
  <2>. QED BY <2>3, <2>4
<1>3. ASSUME NEW m \in 0..(N - 1), m \in S
      PROVE  m + 1 \in S
  <2>1. PICK f \in [0..m -> Seq(Line)] : Starts(f, m)
    BY <1>3
  <2>2. m \in Nat /\ m + 1 \in 0..N /\ m \in 0..m
    BY <1>1
  <2>3. ShownNext(f[m], pane[m + 1]) \in Seq(Line)
    <3>1. pane[m + 1] \in Line /\ f[m] \in Seq(Line)
      BY <1>1, <2>2
    <3>. QED BY <3>1 DEF ShownNext
  <2> DEFINE g == [n \in 0..(m + 1) |->
                     IF n = m + 1 THEN ShownNext(f[m], pane[m + 1]) ELSE f[n]]
  <2>4. g \in [0..(m + 1) -> Seq(Line)]
    BY <2>2, <2>3
  <2>5. g[0] = <<>> /\ g[m + 1] = ShownNext(f[m], pane[m + 1])
    BY <2>1, <2>2
  <2>6. \A n \in 0..m : g[n] = f[n]
    BY <2>2
  <2>. HIDE DEF g
  <2>7. ASSUME NEW n \in 1..(m + 1)
        PROVE  g[n] = ShownNext(g[n - 1], pane[n])
    <3>1. CASE n = m + 1
      BY <2>2, <2>5, <2>6, <3>1
    <3>2. CASE n \in 1..m
      <4>1. n - 1 \in 0..m /\ n \in 0..m
        BY <2>2, <3>2
      <4>. QED BY <2>1, <2>6, <3>2, <4>1
    <3>. QED BY <2>2, <3>1, <3>2
  <2>8. Starts(g, m + 1)
    BY <2>5, <2>7
  <2>. QED BY <2>2, <2>4, <2>8
<1>4. N \in S
  <2>. HIDE DEF S
  <2>1. 0..N \subseteq S
    BY <1>1, <1>2, <1>3, UpTo
  <2>2. N \in 0..N
    BY <1>1
  <2>. QED BY <2>1, <2>2
<1>5. PICK f \in [0..N -> Seq(Line)] : Starts(f, N)
  BY <1>4
<1>6. \A n \in 0..N : f[n] = IF n = 0 THEN <<>>
                             ELSE IF Visible(pane[n]) THEN Append(f[n - 1], pane[n])
                             ELSE f[n - 1]
  <2>1. SUFFICES ASSUME NEW n \in 0..N, n # 0
                 PROVE  f[n] = ShownNext(f[n - 1], pane[n])
    BY <1>5 DEF ShownNext
  <2>. QED BY <1>1, <1>5, <2>1
<1>7. f = [n \in 0..N |-> IF n = 0 THEN <<>>
                          ELSE IF Visible(pane[n]) THEN Append(f[n - 1], pane[n])
                          ELSE f[n - 1]]
  BY <1>5, <1>6, Zenon
<1>. QED BY <1>7 DEF N

\* Shown starts empty and takes the lines one by one.
LEMMA ShownSteps ==
    ASSUME pane \in Seq(Line)
    PROVE  /\ Shown[0] = <<>>
           /\ \A n \in 1..Len(pane) : Shown[n] = ShownNext(Shown[n - 1], pane[n])
<1>1. Shown = [n \in 0..Len(pane) |->
                 IF n = 0 THEN <<>>
                 ELSE IF Visible(pane[n]) THEN Append(Shown[n - 1], pane[n])
                 ELSE Shown[n - 1]]
  BY ShownExists, Zenon DEF Shown
<1>2. Len(pane) \in Nat
  OBVIOUS
<1>3. Shown[0] = <<>>
  BY <1>1, <1>2
<1>4. ASSUME NEW n \in 1..Len(pane)
      PROVE  Shown[n] = ShownNext(Shown[n - 1], pane[n])
  <2>1. n \in 0..Len(pane) /\ n # 0
    BY <1>2
  <2>2. Shown[n] = IF n = 0 THEN <<>>
                   ELSE IF Visible(pane[n]) THEN Append(Shown[n - 1], pane[n])
                   ELSE Shown[n - 1]
    BY <1>1, <2>1, Zenon
  <2>. QED BY <2>1, <2>2, Zenon DEF ShownNext
<1>. QED BY <1>3, <1>4

\* shown is the sequence of the visible lines among the first n of the buffer; g
\* tells from where each comes.
Picks(shown, n, g) ==
    /\ shown \in Seq(Line)
    /\ g \in [1..Len(shown) -> 1..n]
    /\ \A p \in 1..Len(shown) : shown[p] = pane[g[p]] /\ Visible(pane[g[p]])
    /\ \A p, q \in 1..Len(shown) : p < q => g[p] < g[q]
    /\ \A k \in 1..n : Visible(pane[k]) => \E p \in 1..Len(shown) : g[p] = k

\* One more line of the buffer that is hidden picks nothing.
LEMMA PickHidden ==
    ASSUME NEW shown, NEW n \in Nat, NEW g, Picks(shown, n, g), ~Visible(pane[n + 1])
    PROVE  Picks(shown, n + 1, g)
<1>1. Len(shown) \in Nat
  BY DEF Picks
<1>2. g \in [1..Len(shown) -> 1..(n + 1)]
  BY <1>1 DEF Picks
<1>3. \A k \in 1..(n + 1) : Visible(pane[k]) => k \in 1..n
  OBVIOUS
<1>. QED BY <1>2, <1>3 DEF Picks

\* One more line of the buffer that is visible is picked last.
LEMMA PickVisible ==
    ASSUME NEW shown, NEW n \in Nat, NEW g, Picks(shown, n, g),
           pane[n + 1] \in Line, Visible(pane[n + 1])
    PROVE  \E h : Picks(Append(shown, pane[n + 1]), n + 1, h)
<1> DEFINE m == Len(shown)
           more == Append(shown, pane[n + 1])
           h == [p \in 1..(m + 1) |-> IF p = m + 1 THEN n + 1 ELSE g[p]]
<1>1. m \in Nat /\ shown \in Seq(Line) /\ g \in [1..m -> 1..n]
  BY DEF Picks
<1>2. /\ more \in Seq(Line) /\ Len(more) = m + 1 /\ more[m + 1] = pane[n + 1]
      /\ \A p \in 1..m : more[p] = shown[p]
  BY <1>1
<1>3. h \in [1..(m + 1) -> 1..(n + 1)]
  <2>1. \A p \in 1..(m + 1) : p # m + 1 => p \in 1..m
    BY <1>1
  <2>2. \A p \in 1..m : g[p] \in 1..(n + 1)
    BY <1>1
  <2>. QED BY <2>1, <2>2
<1>4. h[m + 1] = n + 1 /\ \A p \in 1..m : h[p] = g[p]
  BY <1>1
<1>5. \A p \in 1..m : shown[p] = pane[g[p]] /\ Visible(pane[g[p]])
  BY DEF Picks
<1>6. \A p, q \in 1..m : p < q => g[p] < g[q]
  BY DEF Picks
<1>7. \A k \in 1..n : Visible(pane[k]) => \E p \in 1..m : g[p] = k
  BY DEF Picks
<1>8. \A p \in 1..(m + 1) : p = m + 1 \/ p \in 1..m
  BY <1>1
<1>9. m + 1 \in 1..(m + 1) /\ \A p \in 1..m : p \in 1..(m + 1) /\ g[p] \in 1..n
  BY <1>1
<1>. HIDE DEF m, more, h
<1>10. \A p \in 1..(m + 1) : more[p] = pane[h[p]] /\ Visible(pane[h[p]])
  BY <1>2, <1>4, <1>5, <1>8, Zenon
<1>11. ASSUME NEW p \in 1..(m + 1), NEW q \in 1..(m + 1), p < q
       PROVE  h[p] < h[q]
  <2>1. p \in 1..m
    BY <1>1, <1>11
  <2>2. CASE q = m + 1
    <3>1. h[p] \in 1..n /\ h[q] = n + 1
      BY <1>4, <1>9, <2>1, <2>2
    <3>. QED BY <3>1
  <2>3. CASE q \in 1..m
    <3>1. h[p] = g[p] /\ h[q] = g[q]
      BY <1>4, <2>1, <2>3
    <3>2. g[p] < g[q]
      BY <1>6, <1>11, <2>1, <2>3
    <3>. QED BY <3>1, <3>2
  <2>. QED BY <1>8, <2>2, <2>3
<1>12. \A k \in 1..(n + 1) : Visible(pane[k]) => \E p \in 1..(m + 1) : h[p] = k
  <2>1. \A k \in 1..(n + 1) : k = n + 1 \/ k \in 1..n
    OBVIOUS
  <2>. QED BY <1>4, <1>7, <1>9, <2>1, Zenon
<1>13. Picks(more, n + 1, h)
  BY <1>2, <1>3, <1>10, <1>11, <1>12 DEF Picks
<1>. QED BY <1>13 DEF more

\* What is shown of the first n lines is what is visible of them, in the order of
\* the buffer.
LEMMA ShownPicks ==
    ASSUME pane \in Seq(Line)
    PROVE  \A n \in 0..Len(pane) : \E g : Picks(Shown[n], n, g)
<1> DEFINE S == {n \in 0..Len(pane) : \E g : Picks(Shown[n], n, g)}
<1>1. Len(pane) \in Nat /\ \A n \in 1..Len(pane) : pane[n] \in Line
  OBVIOUS
<1>2. 0 \in S
  <2>1. Shown[0] = <<>>
    BY ShownSteps
  <2>2. Picks(<<>>, 0, [p \in 1..0 |-> 0])
    BY DEF Picks
  <2>. QED BY <1>1, <2>1, <2>2
<1>3. ASSUME NEW n \in 0..(Len(pane) - 1), n \in S
      PROVE  n + 1 \in S
  <2>1. PICK g : Picks(Shown[n], n, g)
    BY <1>3
  <2>2. n \in Nat /\ n + 1 \in 1..Len(pane) /\ n + 1 \in 0..Len(pane)
    BY <1>1
  <2>3. Shown[n + 1] = ShownNext(Shown[n], pane[n + 1])
    <3>1. Shown[n + 1] = ShownNext(Shown[(n + 1) - 1], pane[n + 1])
      BY <2>2, ShownSteps
    <3>2. (n + 1) - 1 = n
      BY <2>2
    <3>. QED BY <3>1, <3>2
  <2>4. \E h : Picks(Shown[n + 1], n + 1, h)
    <3>1. CASE Visible(pane[n + 1])
      <4>1. Shown[n + 1] = Append(Shown[n], pane[n + 1])
        BY <2>3, <3>1 DEF ShownNext
      <4>2. pane[n + 1] \in Line
        BY <1>1, <2>2
      <4>. QED BY <2>1, <2>2, <3>1, <4>1, <4>2, PickVisible
    <3>2. CASE ~Visible(pane[n + 1])
      <4>1. Shown[n + 1] = Shown[n]
        BY <2>3, <3>2 DEF ShownNext
      <4>. QED BY <2>1, <2>2, <3>2, <4>1, PickHidden
    <3>. QED BY <3>1, <3>2
  <2>. QED BY <2>2, <2>4
<1>. HIDE DEF S
<1>4. 0..Len(pane) \subseteq S
  BY <1>1, <1>2, <1>3, UpTo
<1>. QED BY <1>4 DEF S

\* How many values an increasing function takes past a place.
LEMMA HowManyPast ==
    ASSUME NEW m \in Nat, NEW h, \A p \in 1..m : h[p] \in Nat,
           \A p, q \in 1..m : p < q => h[p] < h[q],
           NEW p \in 0..m
    PROVE  LET past == {h[q] : q \in (p + 1)..m}
           IN  IsFiniteSet(past) /\ Cardinality(past) = m - p
<1> DEFINE past == {h[q] : q \in (p + 1)..m}
           b == [q \in (p + 1)..m |-> h[q]]
<1>1. p \in Nat /\ p <= m /\ \A q \in (p + 1)..m : q \in 1..m
  OBVIOUS
<1>2. \A q, r \in (p + 1)..m : q # r => h[q] # h[r]
  <2>1. SUFFICES ASSUME NEW q \in (p + 1)..m, NEW r \in (p + 1)..m, q < r
                 PROVE  h[q] # h[r]
    <3>1. \A q, r \in (p + 1)..m : q # r => q < r \/ r < q
      BY <1>1
    <3>. QED BY <2>1, <3>1
  <2>2. h[q] < h[r] /\ h[q] \in Nat /\ h[r] \in Nat
    BY <1>1, <2>1
  <2>. QED BY <2>2
<1>3. b \in Bijection((p + 1)..m, past)
  <2>1. b \in [(p + 1)..m -> past]
    OBVIOUS
  <2>2. b \in Injection((p + 1)..m, past)
    BY <1>2, <2>1 DEF Injection, IsInjective
  <2>3. \A x \in past : \E q \in (p + 1)..m : b[q] = x
    OBVIOUS
  <2>. QED BY <2>1, <2>2, <2>3 DEF Bijection, Surjection
<1>4. ExistsBijection((p + 1)..m, past)
  BY <1>3 DEF ExistsBijection
<1>5. IsFiniteSet((p + 1)..m) /\ Cardinality((p + 1)..m) = m - p
  <2>1. p + 1 \in Int /\ m \in Int
    BY <1>1
  <2>2. /\ IsFiniteSet((p + 1)..m)
        /\ Cardinality((p + 1)..m) = IF p + 1 > m THEN 0 ELSE m - (p + 1) + 1
    BY <2>1, FS_Interval
  <2>. QED BY <1>1, <2>2
<1>6. IsFiniteSet(past) /\ Cardinality(past) = Cardinality((p + 1)..m)
  BY <1>4, <1>5, FS_Bijection
<1>. QED BY <1>5, <1>6

-----------------------------------------------------------------------------
(* The buffer.                                                             *)

\* The buffer holds lines that were logged, at DEBUG or above, in their order,
\* and under the interface the latest of them: one that is not in the buffer is
\* older than the oldest there, and the buffer is full.
PaneTracked ==
    /\ \A i \in DOMAIN emitted : emitted[i].nth = i
    /\ \A k \in DOMAIN pane :
         /\ pane[k].nth \in DOMAIN emitted /\ pane[k] = emitted[pane[k].nth]
         /\ pane[k].level <= DEBUG
    /\ \A k, l \in DOMAIN pane : k < l => pane[k].nth < pane[l].nth
    /\ config.ui =>
         \A i \in DOMAIN emitted :
           emitted[i].level <= DEBUG =>
             \/ \E k \in DOMAIN pane : pane[k].nth = i
             \/ Len(pane) = Capacity /\ i < pane[1].nth

\* A push on a full buffer drops the oldest line, one on any other nothing.
LEMMA PushShifts ==
    ASSUME TypeOK, NEW line \in Line
    PROVE  LET d == IF Len(pane) = Capacity THEN 1 ELSE 0
               N == Len(pane) - d
           IN  /\ N \in Nat /\ Push(line) \in Seq(Line) /\ Len(Push(line)) = N + 1
               /\ \A k \in 1..N : Push(line)[k] = pane[k + d]
               /\ Push(line)[N + 1] = line
<1>1. pane \in Seq(Line) /\ Len(pane) \in Nat
  BY DEF TypeOK
<1>2. CASE Len(pane) = Capacity
  <2>1. Len(pane) >= 1
    BY <1>1, <1>2, ConsoleAssumption
  <2>2. /\ Tail(pane) \in Seq(Line) /\ Len(Tail(pane)) = Len(pane) - 1
        /\ \A k \in 1..(Len(pane) - 1) : Tail(pane)[k] = pane[k + 1]
    BY <1>1, <2>1
  <2>3. Push(line) = Append(Tail(pane), line)
    BY <1>2 DEF Push
  <2>. QED BY <1>1, <1>2, <2>1, <2>2, <2>3
<1>3. CASE Len(pane) # Capacity
  <2>1. Push(line) = Append(pane, line)
    BY <1>3 DEF Push
  <2>. QED BY <1>1, <1>3, <2>1
<1>. QED BY <1>2, <1>3

\* A line logged keeps track of the buffer.
LEMMA PaneLogs ==
    ASSUME TypeOK, PaneTracked, config' = config,
           NEW target \in {"mux", "adapter"}, NEW level \in Levels, Log(target, level)
    PROVE  PaneTracked'
<1> DEFINE line == Logged(target, level)
           E == Len(emitted)
<1>1. /\ line \in Line /\ line.nth = E + 1 /\ line.level = level
      /\ emitted' = Append(emitted, line)
      /\ pane' = IF ToPane(line) THEN Push(line) ELSE pane
  BY DEF Log, Logged, TypeOK, Line
<1>2. emitted \in Seq(Line) /\ pane \in Seq(Line) /\ E \in Nat
  BY DEF TypeOK
<1>. HIDE DEF line
<1>3. /\ DOMAIN emitted = 1..E /\ DOMAIN emitted' = 1..(E + 1)
      /\ \A i \in 1..E : emitted'[i] = emitted[i]
      /\ emitted'[E + 1] = line
  BY <1>1, <1>2
<1>4. \A i \in 1..(E + 1) : i = E + 1 \/ i \in 1..E
  BY <1>2
<1>. HIDE DEF E
<1>5. \A i \in DOMAIN emitted' : emitted'[i].nth = i
  BY <1>1, <1>3, <1>4 DEF PaneTracked
<1>6. CASE ~ToPane(line)
  <2>1. pane' = pane
    BY <1>1, <1>6
  <2>2. \A k \in DOMAIN pane' :
          /\ pane'[k].nth \in DOMAIN emitted' /\ pane'[k] = emitted'[pane'[k].nth]
          /\ pane'[k].level <= DEBUG
    BY <1>2, <1>3, <2>1 DEF PaneTracked
  <2>3. config.ui => ~(line.level <= DEBUG)
    BY <1>6 DEF ToPane
  <2>. QED BY <1>3, <1>4, <1>5, <2>1, <2>2, <2>3 DEF PaneTracked
<1>7. CASE ToPane(line)
  <2> DEFINE d == IF Len(pane) = Capacity THEN 1 ELSE 0
             N == Len(pane) - d
  <2>1. /\ N \in Nat /\ pane' \in Seq(Line) /\ Len(pane') = N + 1
        /\ \A k \in 1..N : pane'[k] = pane[k + d]
        /\ pane'[N + 1] = line
    BY <1>1, <1>7, PushShifts
  <2>2. d \in {0, 1} /\ DOMAIN pane = 1..(N + d) /\ DOMAIN pane' = 1..(N + 1)
    BY <1>2, <2>1
  <2>3. (d = 1 => Len(pane') = Capacity) /\ (d = 0 => Len(pane) # Capacity)
    BY <1>2, <2>1
  <2>. HIDE DEF d, N
  <2>4. \A k \in 1..(N + 1) : k = N + 1 \/ k \in 1..N
    BY <2>1
  <2>5. \A k \in 1..N : k + d \in DOMAIN pane
    BY <2>1, <2>2
  <2>6. \A k \in DOMAIN pane : k = d \/ \E l \in 1..N : k = l + d
    <3>1. ASSUME NEW k \in 1..(N + d), k # d PROVE \E l \in 1..N : k = l + d
      <4>1. k - d \in 1..N /\ k = (k - d) + d
        BY <2>1, <2>2, <3>1
      <4>. QED BY <4>1
    <3>. QED BY <2>2, <3>1
  <2>7. ToPane(line) /\ line.level <= DEBUG
    BY <1>7 DEF ToPane
  <2>8. ASSUME NEW k \in DOMAIN pane'
        PROVE  /\ pane'[k].nth \in DOMAIN emitted' /\ pane'[k] = emitted'[pane'[k].nth]
               /\ pane'[k].level <= DEBUG
    <3>1. CASE k = N + 1
      BY <1>1, <1>2, <1>3, <2>1, <2>7, <3>1
    <3>2. CASE k \in 1..N
      <4>1. pane'[k] = pane[k + d] /\ k + d \in DOMAIN pane
        BY <2>1, <2>5, <3>2
      <4>2. /\ pane[k + d].nth \in 1..E /\ pane[k + d] = emitted[pane[k + d].nth]
            /\ pane[k + d].level <= DEBUG
        BY <1>3, <4>1 DEF PaneTracked
      <4>3. 1..E \subseteq 1..(E + 1)
        BY <1>2
      <4>. QED BY <1>3, <4>1, <4>2, <4>3
    <3>. QED BY <2>2, <2>4, <3>1, <3>2
  <2>9. ASSUME NEW k \in DOMAIN pane', NEW l \in DOMAIN pane', k < l
        PROVE  pane'[k].nth < pane'[l].nth
    <3>1. k \in 1..N
      BY <2>1, <2>2, <2>9
    <3>2. pane'[k] = pane[k + d] /\ k + d \in DOMAIN pane
      BY <2>1, <2>5, <3>1
    <3>3. CASE l = N + 1
      <4>1. pane[k + d].nth \in 1..E /\ pane'[l].nth = E + 1
        BY <1>1, <1>3, <2>1, <3>2, <3>3 DEF PaneTracked
      <4>. QED BY <1>2, <3>2, <4>1
    <3>4. CASE l \in 1..N
      <4>1. pane'[l] = pane[l + d] /\ l + d \in DOMAIN pane
        BY <2>1, <2>5, <3>4
      <4>2. k + d < l + d
        BY <2>1, <2>2, <2>9, <3>1, <3>4
      <4>. QED BY <3>2, <4>1, <4>2 DEF PaneTracked
    <3>. QED BY <2>2, <2>4, <3>3, <3>4
  <2>10. ASSUME config.ui, NEW i \in DOMAIN emitted', emitted'[i].level <= DEBUG
         PROVE  \/ \E k \in DOMAIN pane' : pane'[k].nth = i
                \/ Len(pane') = Capacity /\ i < pane'[1].nth
    <3>1. N + 1 \in DOMAIN pane' /\ 1..N \subseteq DOMAIN pane' /\ 1 \in DOMAIN pane'
      BY <2>1, <2>2
    <3>2. CASE i = E + 1
      BY <1>1, <2>1, <3>1, <3>2
    <3>3. CASE i \in 1..E
      <4>1. \/ \E k \in DOMAIN pane : pane[k].nth = i
            \/ Len(pane) = Capacity /\ i < pane[1].nth
        BY <1>3, <2>10, <3>3 DEF PaneTracked
      <4>2. ASSUME NEW k \in 1..N, pane[k + d].nth = i
            PROVE  \E l \in DOMAIN pane' : pane'[l].nth = i
        BY <2>1, <3>1, <4>2
      <4>3. CASE d = 0
        BY <2>1, <2>2, <2>3, <2>6, <4>1, <4>2, <4>3
      <4>4. CASE d = 1
        <5>1. 1 \in DOMAIN pane
          BY <2>1, <2>2, <4>4
        <5>2. i <= pane[1].nth => i < pane'[1].nth
          <6>1. pane[1].nth \in 1..E
            BY <1>3, <5>1 DEF PaneTracked
          <6>2. CASE N = 0
            <7>1. pane'[1].nth = E + 1
              BY <1>1, <2>1, <6>2
            <7>. QED BY <1>2, <3>3, <6>1, <7>1
          <6>3. CASE N # 0
            <7>1. pane'[1] = pane[2] /\ 2 \in DOMAIN pane
              BY <2>1, <2>2, <4>4, <6>3
            <7>2. pane[1].nth < pane[2].nth /\ pane[2].nth \in 1..E
              BY <1>3, <5>1, <7>1 DEF PaneTracked
            <7>. QED BY <3>3, <6>1, <7>1, <7>2
          <6>. QED BY <6>2, <6>3
        <5>3. CASE \E k \in DOMAIN pane : pane[k].nth = i
          <6>1. PICK k \in DOMAIN pane : pane[k].nth = i
            BY <5>3
          <6>2. CASE k = d
            BY <2>3, <3>3, <4>4, <5>2, <6>1, <6>2
          <6>3. CASE \E l \in 1..N : k = l + d
            BY <4>2, <6>1, <6>3
          <6>. QED BY <2>6, <6>2, <6>3
        <5>4. CASE Len(pane) = Capacity /\ i < pane[1].nth
          <6>1. i <= pane[1].nth
            <7>1. pane[1].nth \in 1..E
              BY <1>3, <5>1 DEF PaneTracked
            <7>. QED BY <3>3, <5>4, <7>1
          <6>. QED BY <2>3, <4>4, <5>2, <6>1
        <5>. QED BY <4>1, <5>3, <5>4
      <4>. QED BY <2>2, <4>3, <4>4
    <3>. QED BY <1>3, <1>4, <3>2, <3>3
  <2>. QED BY <1>5, <2>8, <2>9, <2>10 DEF PaneTracked
<1>. QED BY <1>6, <1>7

-----------------------------------------------------------------------------
(* What the pane shows.                                                    *)

\* The lines after one that is in the buffer, at a level the buffer takes, are in
\* the buffer after it.
LEMMA AfterInPane ==
    ASSUME TypeOK, PaneTracked, config.ui,
           NEW k \in DOMAIN pane, NEW level \in Nat, level <= DEBUG
    PROVE  After(pane[k].nth, level) =
             {pane[l].nth : l \in {l \in (k + 1)..Len(pane) : pane[l].level <= level}}
<1> DEFINE past == {l \in (k + 1)..Len(pane) : pane[l].level <= level}
<1>1. /\ pane \in Seq(Line) /\ Len(pane) \in Nat /\ DOMAIN pane = 1..Len(pane)
      /\ emitted \in Seq(Line) /\ k \in Nat /\ k >= 1 /\ 1 \in DOMAIN pane
      /\ \A l \in (k + 1)..Len(pane) : l \in DOMAIN pane /\ k < l
  BY DEF TypeOK
<1>2. /\ \A i \in DOMAIN emitted : i \in Nat /\ emitted[i].level \in Nat
      /\ \A l \in DOMAIN pane : pane[l].nth \in Nat
  <2>1. (\A i \in DOMAIN emitted : emitted[i] \in Line) /\ \A l \in DOMAIN pane : pane[l] \in Line
    BY <1>1
  <2>2. \A line \in Line : line.level \in Nat /\ line.nth \in Nat
    BY DEF Line, Levels
  <2>. QED BY <1>1, <2>1, <2>2
<1>3. ASSUME NEW l \in past PROVE pane[l].nth \in After(pane[k].nth, level)
  BY <1>1, <1>3 DEF After, PaneTracked
<1>4. ASSUME NEW j \in After(pane[k].nth, level)
      PROVE  \E l \in past : j = pane[l].nth
  <2>1. /\ j \in DOMAIN emitted /\ j > pane[k].nth
        /\ emitted[j].level <= level /\ emitted[j].level <= DEBUG
    BY <1>2, <1>4 DEF After
  <2>2. ~(j < pane[1].nth)
    <3>1. k = 1 \/ pane[1].nth < pane[k].nth
      <4>1. k = 1 \/ 1 < k
        BY <1>1
      <4>. QED BY <1>1, <4>1 DEF PaneTracked
    <3>. QED BY <1>1, <1>2, <2>1, <3>1
  <2>3. PICK l \in DOMAIN pane : pane[l].nth = j
    BY <2>1, <2>2 DEF PaneTracked
  <2>4. pane[l] = emitted[j]
    BY <2>3 DEF PaneTracked
  <2>5. k < l
    <3>1. l < k => pane[l].nth < pane[k].nth
      BY <2>3 DEF PaneTracked
    <3>. QED BY <1>1, <1>2, <2>1, <2>3, <3>1
  <2>. QED BY <1>1, <2>1, <2>3, <2>4, <2>5
<1>. QED BY <1>3, <1>4

\* The numbers of the lines in the buffer, and of those shown, are increasing:
\* so many come after each.
LEMMA PastInPane ==
    ASSUME TypeOK, PaneTracked, config.ui, NEW k \in DOMAIN pane
    PROVE  Cardinality(After(pane[k].nth, DEBUG)) = Len(pane) - k
<1> DEFINE h == [l \in 1..Len(pane) |-> pane[l].nth]
           past == {l \in (k + 1)..Len(pane) : pane[l].level <= DEBUG}
<1>1. /\ pane \in Seq(Line) /\ Len(pane) \in Nat /\ DOMAIN pane = 1..Len(pane)
      /\ k \in 0..Len(pane) /\ \A l \in (k + 1)..Len(pane) : l \in 1..Len(pane)
  BY DEF TypeOK
<1>2. (\A l \in 1..Len(pane) : h[l] \in Nat)
      /\ \A l, q \in 1..Len(pane) : l < q => h[l] < h[q]
  <2>1. \A l \in 1..Len(pane) : pane[l] \in Line /\ h[l] = pane[l].nth
    BY <1>1
  <2>2. \A line \in Line : line.nth \in Nat
    BY DEF Line
  <2>. QED BY <1>1, <2>1, <2>2 DEF PaneTracked
<1>3. past = (k + 1)..Len(pane)
  BY <1>1 DEF PaneTracked
<1>4. After(pane[k].nth, DEBUG) = {pane[l].nth : l \in past}
  <2>1. DEBUG \in Nat /\ DEBUG <= DEBUG
    OBVIOUS
  <2>. QED BY <2>1, AfterInPane, Zenon
<1>5. After(pane[k].nth, DEBUG) = {h[l] : l \in (k + 1)..Len(pane)}
  BY <1>1, <1>3, <1>4
<1>. HIDE DEF h
<1>. QED BY <1>1, <1>2, <1>5, HowManyPast

\* The same of the lines shown, at the level displayed.
LEMMA PastInShown ==
    ASSUME TypeOK, PaneTracked, config.ui,
           NEW shown, NEW g, Picks(shown, Len(pane), g), NEW p \in 1..Len(shown)
    PROVE  Cardinality(After(pane[g[p]].nth, display)) = Len(shown) - p
<1> DEFINE N == Len(pane)
           m == Len(shown)
           h == [q \in 1..m |-> pane[g[q]].nth]
           past == {l \in (g[p] + 1)..N : pane[l].level <= display}
<1>1. /\ pane \in Seq(Line) /\ N \in Nat /\ DOMAIN pane = 1..N
      /\ display \in Nat /\ display <= DEBUG
  BY DEF TypeOK, DISPLAY_LEVELS
<1>2. /\ m \in Nat /\ p \in 0..m /\ \A q \in (p + 1)..m : q \in 1..m /\ p < q
      /\ \A q \in 1..m : g[q] \in 1..N
  <2>1. shown \in Seq(Line) /\ g \in [1..m -> 1..N] /\ p \in 1..m
    BY DEF Picks
  <2>2. m \in Nat
    BY <2>1
  <2>. HIDE DEF N, m
  <2>. QED BY <2>1, <2>2
<1>3. /\ \A q \in 1..m : Visible(pane[g[q]])
      /\ \A q, r \in 1..m : q < r => g[q] < g[r]
      /\ \A k \in 1..N : Visible(pane[k]) => \E q \in 1..m : g[q] = k
  BY DEF Picks
<1>. HIDE DEF N, m
<1>4. (\A q \in 1..m : h[q] \in Nat) /\ \A q, r \in 1..m : q < r => h[q] < h[r]
  <2>1. \A l \in 1..N : pane[l].nth \in Nat
    <3>1. \A l \in 1..N : pane[l] \in Line
      BY <1>1
    <3>2. \A line \in Line : line.nth \in Nat
      BY DEF Line
    <3>. QED BY <3>1, <3>2
  <2>2. \A l, k \in 1..N : l < k => pane[l].nth < pane[k].nth
    BY <1>1 DEF PaneTracked
  <2>. QED BY <1>2, <1>3, <2>1, <2>2
<1>5. After(pane[g[p]].nth, display) = {pane[l].nth : l \in past}
  <2>1. g[p] \in DOMAIN pane
    BY <1>1, <1>2
  <2>. QED BY <1>1, <2>1, AfterInPane, Zenon DEF N
<1>6. \A q \in (p + 1)..m : g[q] \in past
  BY <1>1, <1>2, <1>3 DEF Visible
<1>7. ASSUME NEW l \in past PROVE \E q \in (p + 1)..m : g[q] = l
  <2>1. l \in 1..N /\ g[p] < l /\ Visible(pane[l])
    BY <1>1, <1>2, <1>7 DEF Visible
  <2>2. PICK q \in 1..m : g[q] = l
    BY <1>3, <2>1
  <2>3. p < q
    <3>1. q < p => g[q] < g[p]
      BY <1>2, <1>3
    <3>. QED BY <1>2, <2>1, <2>2, <3>1
  <2>. QED BY <1>2, <2>2, <2>3
<1>8. past = {g[q] : q \in (p + 1)..m}
  <2>. HIDE DEF past
  <2>. QED BY <1>6, <1>7
<1>9. After(pane[g[p]].nth, display) = {h[q] : q \in (p + 1)..m}
  <2>1. \A q \in (p + 1)..m : h[q] = pane[g[q]].nth
    BY <1>2
  <2>. HIDE DEF past, h
  <2>2. {pane[l].nth : l \in past} = {h[q] : q \in (p + 1)..m}
    BY <1>8, <2>1
  <2>. QED BY <1>5, <2>2 DEF past
<1>. HIDE DEF h
<1>. QED BY <1>2, <1>4, <1>9, HowManyPast DEF m

\* The rows show the last lines the filter lets through.
LEMMA RowsShowLast ==
    ASSUME Shown[Len(pane)] \in Seq(Line)
    PROVE  LET shown == Shown[Len(pane)]
               start == IF Len(shown) > Rows THEN Len(shown) - Rows ELSE 0
           IN  /\ start \in 0..Len(shown)
               /\ DOMAIN RenderLogs = 1..(Len(shown) - start)
               /\ \A p \in DOMAIN RenderLogs : RenderLogs[p] = shown[start + p]
<1> DEFINE shown == Shown[Len(pane)]
           start == IF Len(shown) > Rows THEN Len(shown) - Rows ELSE 0
<1>1. shown \in Seq(Line)
  OBVIOUS
<1>2. RenderLogs = SubSeq(shown, start + 1, Len(shown))
  BY DEF RenderLogs
<1>. HIDE DEF shown
<1>3. Len(shown) \in Nat /\ Rows \in Nat
  BY <1>1, ConsoleAssumption
<1>4. start \in 0..Len(shown)
  BY <1>3
<1>. HIDE DEF start
<1>5. \A p \in 1..(Len(shown) - start) : (start + 1) + p - 1 = start + p
  BY <1>3, <1>4
<1>6. /\ DOMAIN RenderLogs = 1..(Len(shown) - start)
      /\ \A p \in DOMAIN RenderLogs : RenderLogs[p] = shown[start + p]
  BY <1>1, <1>2, <1>3, <1>4, <1>5
<1>. QED BY <1>4, <1>6 DEF shown, start

\* A line is in the buffer exactly if it is at DEBUG or above and fewer such lines
\* than the buffer retains came after it.
LEMMA InBuffer ==
    ASSUME TypeOK, PaneTracked, config.ui, NEW i \in DOMAIN emitted
    PROVE  (\E k \in DOMAIN pane : pane[k].nth = i) <=>
             emitted[i].level <= DEBUG /\ Cardinality(After(i, DEBUG)) < Capacity
<1>1. /\ pane \in Seq(Line) /\ Len(pane) \in Nat /\ DOMAIN pane = 1..Len(pane)
      /\ Len(pane) <= Capacity /\ Capacity \in Nat \ {0}
  BY ConsoleAssumption DEF TypeOK
<1>2. ASSUME NEW k \in DOMAIN pane, pane[k].nth = i
      PROVE  emitted[i].level <= DEBUG /\ Cardinality(After(i, DEBUG)) < Capacity
  <2>1. emitted[i].level <= DEBUG
    BY <1>2 DEF PaneTracked
  <2>2. Cardinality(After(i, DEBUG)) = Len(pane) - k
    BY <1>2, PastInPane
  <2>. QED BY <1>1, <2>1, <2>2
<1>3. ASSUME emitted[i].level <= DEBUG, Cardinality(After(i, DEBUG)) < Capacity,
             ~\E k \in DOMAIN pane : pane[k].nth = i
      PROVE  FALSE
  <2>1. Len(pane) = Capacity /\ i < pane[1].nth
    BY <1>3 DEF PaneTracked
  <2>2. 1 \in DOMAIN pane
    BY <1>1, <2>1
  <2>3. Cardinality(After(pane[1].nth, DEBUG)) = Capacity - 1
    BY <2>1, <2>2, PastInPane
  <2>4. pane[1].nth \in DOMAIN emitted /\ emitted[pane[1].nth].level <= DEBUG
    BY <2>2 DEF PaneTracked
  <2>5. DOMAIN emitted = 1..Len(emitted) /\ Len(emitted) \in Nat
    BY DEF TypeOK
  <2>6. /\ After(pane[1].nth, DEBUG) \cup {pane[1].nth} \subseteq After(i, DEBUG)
        /\ pane[1].nth \notin After(pane[1].nth, DEBUG)
    BY <2>1, <2>4, <2>5 DEF After
  <2>7. IsFiniteSet(After(i, DEBUG)) /\ IsFiniteSet(After(pane[1].nth, DEBUG))
    <3>1. IsFiniteSet(1..Len(emitted))
      BY <2>5, FS_Interval
    <3>2. After(i, DEBUG) \subseteq 1..Len(emitted)
          /\ After(pane[1].nth, DEBUG) \subseteq 1..Len(emitted)
      BY <2>5 DEF After
    <3>. QED BY <3>1, <3>2, FS_Subset
  <2>8. Cardinality(After(pane[1].nth, DEBUG) \cup {pane[1].nth}) = Capacity
    <3>1. Cardinality(After(pane[1].nth, DEBUG) \cup {pane[1].nth})
            = Cardinality(After(pane[1].nth, DEBUG)) + 1
      BY <2>6, <2>7, FS_AddElement, Zenon
    <3>. QED BY <1>1, <2>3, <3>1
  <2>9. Capacity <= Cardinality(After(i, DEBUG))
    BY <2>6, <2>7, <2>8, FS_Subset
  <2>10. Cardinality(After(i, DEBUG)) \in Nat
    BY <2>7, FS_CardinalityType
  <2>. QED BY <1>1, <1>3, <2>9, <2>10
<1>. QED BY <1>2, <1>3

\* A line is rendered exactly if it is visible, in the buffer, and fewer visible
\* ones than there are rows came after it; and the rows are in order.
LEMMA Rendered ==
    ASSUME TypeOK, PaneTracked, config.ui
    PROVE  PaneShowsLatest
<1> DEFINE N == Len(pane)
           shown == Shown[N]
           m == Len(shown)
           start == IF m > Rows THEN m - Rows ELSE 0
<1>1. /\ pane \in Seq(Line) /\ N \in Nat /\ DOMAIN pane = 1..N
      /\ emitted \in Seq(Line) /\ Rows \in Nat
  BY ConsoleAssumption DEF TypeOK
<1>2. PICK g : Picks(shown, N, g)
  <2>1. N \in 0..N
    BY <1>1
  <2>. QED BY <1>1, <2>1, ShownPicks
<1>3. /\ shown \in Seq(Line) /\ m \in Nat /\ g \in [1..m -> 1..N]
      /\ \A p \in 1..m : shown[p] = pane[g[p]] /\ Visible(pane[g[p]])
      /\ \A p, q \in 1..m : p < q => g[p] < g[q]
      /\ \A k \in 1..N : Visible(pane[k]) => \E p \in 1..m : g[p] = k
  BY <1>2 DEF Picks
<1>4. /\ start \in 0..m /\ DOMAIN RenderLogs = 1..(m - start)
      /\ \A p \in DOMAIN RenderLogs : RenderLogs[p] = shown[start + p]
  BY <1>3, RowsShowLast
<1>5. \A p \in 1..m : Cardinality(After(pane[g[p]].nth, display)) = m - p
  BY <1>2, PastInShown
<1>6. \A p \in 1..m : p > start <=> m - p < Rows
  BY <1>1, <1>3
<1>7. /\ \A p \in DOMAIN RenderLogs : start + p \in 1..m /\ start + p > start
      /\ \A p \in 1..m : p > start => p - start \in DOMAIN RenderLogs
                                      /\ start + (p - start) = p
  BY <1>3, <1>4
<1>. HIDE DEF start, N, shown, m
<1>8. \A p \in DOMAIN RenderLogs :
        RenderLogs[p] = pane[g[start + p]] /\ g[start + p] \in DOMAIN pane
  BY <1>1, <1>3, <1>4, <1>7
<1>9. ToSet(RenderLogs) = {pane[g[p]] : p \in {p \in 1..m : p > start}}
  <2>1. ToSet(RenderLogs) = {RenderLogs[p] : p \in DOMAIN RenderLogs}
    BY DEF ToSet
  <2>2. ASSUME NEW p \in DOMAIN RenderLogs
        PROVE  \E q \in {q \in 1..m : q > start} : RenderLogs[p] = pane[g[q]]
    <3>1. start + p \in {q \in 1..m : q > start}
      BY <1>7, <2>2
    <3>. QED BY <1>8, <2>2, <3>1
  <2>3. ASSUME NEW q \in {q \in 1..m : q > start}
        PROVE  \E p \in DOMAIN RenderLogs : RenderLogs[p] = pane[g[q]]
    <3>1. q - start \in DOMAIN RenderLogs /\ start + (q - start) = q
      BY <1>7, <2>3
    <3>2. RenderLogs[q - start] = pane[g[q]]
      BY <1>8, <3>1
    <3>. QED BY <3>1, <3>2
  <2>. QED BY <2>1, <2>2, <2>3
<1>10. ASSUME NEW i \in DOMAIN emitted
       PROVE  emitted[i] \in ToSet(RenderLogs) <=>
                /\ Visible(emitted[i])
                /\ Cardinality(After(i, display)) < Rows
                /\ Cardinality(After(i, DEBUG)) < Capacity
  <2>1. (\E k \in DOMAIN pane : pane[k].nth = i) <=>
          emitted[i].level <= DEBUG /\ Cardinality(After(i, DEBUG)) < Capacity
    BY InBuffer
  <2>2. \A k \in DOMAIN pane : pane[k].nth = i <=> pane[k] = emitted[i]
    BY DEF PaneTracked
  <2>3. ASSUME emitted[i] \in ToSet(RenderLogs)
        PROVE  /\ Visible(emitted[i])
               /\ Cardinality(After(i, display)) < Rows
               /\ Cardinality(After(i, DEBUG)) < Capacity
    <3>1. PICK p \in 1..m : p > start /\ emitted[i] = pane[g[p]]
      BY <1>9, <2>3
    <3>2. g[p] \in DOMAIN pane /\ Visible(pane[g[p]]) /\ pane[g[p]].nth = i
      BY <1>1, <1>3, <2>2, <3>1
    <3>3. Cardinality(After(i, display)) < Rows
      BY <1>5, <1>6, <3>1, <3>2
    <3>. QED BY <2>1, <3>1, <3>2, <3>3
  <2>4. ASSUME Visible(emitted[i]), Cardinality(After(i, display)) < Rows,
               Cardinality(After(i, DEBUG)) < Capacity
        PROVE  emitted[i] \in ToSet(RenderLogs)
    <3>1. emitted[i].level <= DEBUG
      <4>1. display \in 1..4 /\ emitted[i].level \in Nat
        <5>1. emitted[i] \in Line
          BY <1>1
        <5>2. \A line \in Line : line.level \in Nat
          BY DEF Line, Levels
        <5>. QED BY <5>1, <5>2 DEF TypeOK, DISPLAY_LEVELS
      <4>. QED BY <2>4, <4>1 DEF Visible
    <3>2. PICK k \in DOMAIN pane : pane[k].nth = i
      BY <2>1, <2>4, <3>1
    <3>3. pane[k] = emitted[i]
      BY <2>2, <3>2
    <3>4. PICK p \in 1..m : g[p] = k
      BY <1>1, <1>3, <2>4, <3>2, <3>3
    <3>5. m - p < Rows
      BY <1>5, <2>4, <3>2, <3>4
    <3>6. p > start
      BY <1>6, <3>5
    <3>. QED BY <1>9, <3>3, <3>4, <3>6
  <2>. QED BY <2>3, <2>4
<1>11. ASSUME NEW k \in DOMAIN RenderLogs, NEW l \in DOMAIN RenderLogs, k < l
       PROVE  RenderLogs[k].nth < RenderLogs[l].nth
  <2>1. g[start + k] < g[start + l]
    <3>1. start + k \in 1..m /\ start + l \in 1..m /\ start + k < start + l
      BY <1>3, <1>4, <1>7, <1>11
    <3>. QED BY <1>3, <3>1
  <2>. QED BY <1>8, <2>1 DEF PaneTracked
<1>. QED BY <1>10, <1>11 DEF PaneShowsLatest

\* The pane shows the latest lines at its level, oldest first, whatever the
\* verbosity was when they were logged, for a buffer and a pane of any size.
THEOREM PaneIsCurrent == Spec => []PaneShowsLatest
<1>1. Init => PaneTracked
  BY DEF Init, PaneTracked
<1>2. ASSUME TypeOK, PaneTracked, [Next]_vars PROVE PaneTracked'
  <2>1. config' = config
    BY <1>2, ConfigStays
  <2>2. CASE UNCHANGED sinkVars
    BY <1>2, <2>1, <2>2 DEF sinkVars, PaneTracked
  <2>. QED BY <1>2, <2>1, <2>2, LogSteps, PaneLogs
<1>3. TypeOK /\ PaneTracked => PaneShowsLatest
  BY Rendered DEF PaneShowsLatest
<1>. QED BY <1>1, <1>2, <1>3, TypeInit, TypeStep, PTL DEF Spec

=============================================================================
