------------------------------ MODULE Console ------------------------------
(***************************************************************************)
(* What the program tells its operator: the log sinks of cli.rs, the pane  *)
(* of tui/log_buffer.rs and tui/app.rs, the adapter's stderr pumped by     *)
(* upstream.rs, and the terminal taken and given back by tui/terminal.rs.  *)
(*                                                                         *)
(* One run of the program with one spawned adapter.  A log line is its     *)
(* level, its target and its place among the lines emitted.                *)
(***************************************************************************)
EXTENDS Naturals, Sequences, SequencesExt, FiniteSets

CONSTANTS
    Capacity,     \* lines the pane's buffer retains
    Rows,         \* lines the pane has room for
    MaxLines,     \* bound: lines logged by the mux itself
    MaxStderr,    \* bound: lines the adapter writes on its stderr
    LogLevels,    \* the levels the program may be started with
    EventLevels   \* the levels the mux logs at

ERROR == 1
WARN == 2
INFO == 3
DEBUG == 4
TRACE == 5

Levels == ERROR..TRACE

ASSUME ConsoleAssumption ==
    /\ Capacity \in Nat \ {0} /\ {Rows, MaxLines, MaxStderr} \subseteq Nat
    /\ LogLevels \subseteq Levels /\ EventLevels \subseteq Levels

DISPLAY_LEVELS == <<ERROR, WARN, INFO, DEBUG>>

\* What of the command line matters here.  The adapter log may turn out not to open.
Invocations ==
    [ui : BOOLEAN, logFile : BOOLEAN, adapterLog : {"none", "opens", "refused"},
     level : LogLevels]

VARIABLES
    config,      \* the invocation
    stage,       \* how far the program is
    (* the sinks *)
    emitted,     \* every line logged, in the order the sinks get them
    file,
    pane,        \* the ring buffer
    display,     \* the level the pane shows
    (* the adapter's stderr *)
    said,        \* what the adapter has written: "text" or "blank" lines
    pump,        \* the task draining it
    drained,     \* lines it has read; the last is in hand while it writes or reports
    raw,         \* the adapter log: the places of the lines it holds whole
    lost,        \* those whose write failed, or left a fragment
    (* the terminal *)
    rawMode, alternate,
    hooked,      \* the panic hook is installed
    refused,     \* the last attempt to restore the terminal failed
    printed      \* the last panic message: over the interface? had the hook failed?

sinkVars     == <<emitted, file, pane>>
pumpVars     == <<said, pump, drained, raw, lost>>
terminalVars == <<rawMode, alternate, hooked, refused, printed>>

vars == <<config, stage, sinkVars, display, pumpVars, terminalVars>>

\* Bug: TRACE is taken as it is.
InitialDisplayLevelUnclamped(configured) == configured

InitialDisplayLevel(configured) ==
    IF configured <= DEBUG THEN configured ELSE DEBUG

NoMessage == [over |-> FALSE, refused |-> FALSE]

Init ==
    /\ config \in Invocations
    /\ stage = "starting"
    /\ emitted = <<>> /\ file = <<>> /\ pane = <<>>
    /\ display = InitialDisplayLevel(config.level)
    /\ said = <<>> /\ pump = "opening" /\ drained = 0 /\ raw = <<>> /\ lost = {}
    /\ rawMode = FALSE /\ alternate = FALSE /\ hooked = FALSE
    /\ refused = FALSE /\ printed = NoMessage

Over == {"failed", "returned", "panicked"}

-----------------------------------------------------------------------------
(* The sinks.                                                              *)

AdapterInFile == config.adapterLog = "none"

ToFile(line) ==
    /\ config.logFile /\ line.level <= config.level
    /\ line.target = "adapter" => AdapterInFile

\* Bug: the pane captures no more than the level configured.
ToPaneAsConfigured(line) == config.ui /\ line.level <= config.level

\* The pane captures at DEBUG, whatever the level.
ToPane(line) == config.ui /\ line.level <= DEBUG

Push(line) ==
    Append(IF Len(pane) = Capacity THEN Tail(pane) ELSE pane, line)

\* One event, to every sink that lets it through.  An event of the adapter's
\* target is the line in the pump's hand.  The file's writer is non_blocking: it
\* drops a line when its queue is full.
Log(target, level) ==
    LET line == [level |-> level, target |-> target, nth |-> Len(emitted) + 1,
                 of |-> IF target = "adapter" THEN drained ELSE 0]
    IN  /\ emitted' = Append(emitted, line)
        /\ file' \in IF ToFile(line) THEN {Append(file, line), file} ELSE {file}
        /\ pane'   = IF ToPane(line) THEN Push(line) ELSE pane

FromAdapter(log) == {i \in DOMAIN log : log[i].target = "adapter"}

\* What the other tasks do while the main one unwinds is left out.
Logging == stage \notin Over \cup {"starting", "unwinding"}

\* Any task of the mux logs something.
MuxLogs(level) ==
    /\ Logging /\ Len(emitted) - Cardinality(FromAdapter(emitted)) < MaxLines
    /\ Log("mux", level)
    /\ UNCHANGED <<config, stage, display, pumpVars, terminalVars>>

-----------------------------------------------------------------------------
(* pump_adapter_stderr.                                                    *)

\* The adapter and the pump are up while the program serves.
Pumping == stage = "running"

AdapterSays(text) ==
    /\ Pumping /\ pump # "ended" /\ Len(said) < MaxStderr
    /\ said' = Append(said, text)
    /\ UNCHANGED <<config, stage, sinkVars, display, pump, drained, raw, lost,
                   terminalVars>>

\* A step of the pump that moves it on, and logs or not.
Pump(next) ==
    /\ Pumping /\ pump' = next
    /\ UNCHANGED <<config, stage, display, said, terminalVars>>

OpenAdapterLog ==
    /\ pump = "opening" /\ Pump("reading")
    /\ IF config.adapterLog = "refused" THEN Log("mux", WARN) ELSE UNCHANGED sinkVars
    /\ UNCHANGED <<drained, raw, lost>>

\* An empty line is not worth an event.
Report(text) == IF text = "blank" THEN "reading" ELSE "reporting"

ReadLine ==
    /\ pump = "reading" /\ drained < Len(said)
    /\ Pump(IF config.adapterLog = "opens" THEN "writing"
            ELSE Report(said[drained + 1]))
    /\ drained' = drained + 1
    /\ UNCHANGED <<sinkVars, raw, lost>>

\* Bug: only what is worth an event is written.
KeptText(n) == IF said[n] = "blank" THEN <<>> ELSE <<n>>

Kept(n) == <<n>>

\* Bug: a write that fails ends the pump.
AfterWriteOrStop(whole) == IF whole THEN Report(said[drained]) ELSE "ended"

\* The result of write_all is ignored.
AfterWrite(whole) == Report(said[drained])

\* The bytes go to the adapter log as they came, or the file does not take them,
\* or not all of them: a full disk, or the failure of the write before, which the
\* file reports to this one.
WriteLine ==
    /\ pump = "writing"
    /\ \E whole \in BOOLEAN :
         /\ Pump(AfterWrite(whole))
         /\ raw' = IF whole THEN raw \o Kept(drained) ELSE raw
         /\ lost' = IF whole THEN lost ELSE lost \cup {drained}
    /\ UNCHANGED <<sinkVars, drained>>

ReportLine ==
    /\ pump = "reporting" /\ Pump("reading")
    /\ Log("adapter", INFO)
    /\ UNCHANGED <<drained, raw, lost>>

\* The adapter has closed its stderr, or a read of it fails.
StderrEnds ==
    /\ pump = "reading"
    /\ \/ drained = Len(said) /\ Pump("ended") /\ UNCHANGED sinkVars
       \/ Pump("broken") /\ Log("mux", WARN)
    /\ UNCHANGED <<drained, raw, lost>>

-----------------------------------------------------------------------------
(* The terminal.                                                           *)

Serve(next) ==
    /\ stage' = next
    /\ UNCHANGED <<config, sinkVars, display, pumpVars>>

\* init_logging, which fails if the log file cannot be created; and under the
\* interface the bind of the listener, which may fail as well.
SetUp ==
    /\ stage = "starting"
    /\ Serve(IF config.ui THEN "entering" ELSE "running")
    /\ UNCHANGED terminalVars

SetUpFails ==
    /\ stage = "starting" /\ (config.ui \/ config.logFile)
    /\ Serve("failed")
    /\ UNCHANGED terminalVars

\* TerminalGuard::enter: raw mode, then the alternate screen and the hook, then
\* the ratatui terminal.  There is a guard only when all have succeeded.
EnableRawMode ==
    /\ stage = "entering"
    /\ rawMode' = TRUE
    /\ Serve("switching")
    /\ UNCHANGED <<alternate, hooked, refused, printed>>

EnterAlternateScreen ==
    /\ stage = "switching"
    /\ alternate' = TRUE /\ hooked' = TRUE
    /\ Serve("building")
    /\ UNCHANGED <<rawMode, refused, printed>>

BuildTerminal ==
    /\ stage = "building"
    /\ Serve("running")
    /\ UNCHANGED terminalVars

EnterFails ==
    /\ stage \in {"entering", "switching", "building"}
    /\ Serve("failed")
    /\ UNCHANGED terminalVars

Restored == ~rawMode /\ ~alternate

\* restore_terminal: an error of disable_raw_mode skips LeaveAlternateScreen,
\* which may fail as well; the callers ignore both.
RestoreTerminal ==
    /\ \/ rawMode' = FALSE /\ alternate' = FALSE /\ refused' = FALSE
       \/ rawMode' = FALSE /\ UNCHANGED alternate /\ refused' = TRUE
       \/ UNCHANGED <<rawMode, alternate>> /\ refused' = TRUE
    /\ UNCHANGED hooked

\* Bug: the hook prints the message and then restores the terminal.
ShowThenRestore ==
    printed' = [over |-> ~Restored, refused |-> refused']

\* The previous hook prints the message on stderr, once the terminal has been
\* restored or has not let itself be.
ShowPanic == printed' = [over |-> ~Restored', refused |-> refused']

PanicHook ==
    /\ IF hooked THEN RestoreTerminal ELSE UNCHANGED <<rawMode, alternate, hooked, refused>>
    /\ ShowPanic

\* Bug: an error of the event loop returns past the guard.
RestoreOnSuccess ==
    \/ RestoreTerminal /\ UNCHANGED printed
    \/ UNCHANGED terminalVars

\* The guard is dropped whether the event loop returned a result or an error.
DropGuard == RestoreTerminal /\ UNCHANGED printed

\* app.run, or run_serving, returns, with a result or with an error.
Return ==
    /\ stage = "running"
    /\ Serve("returned")
    /\ IF config.ui THEN DropGuard ELSE UNCHANGED terminalVars

\* A panic in the main task: the hook, and then, if there is a guard, unwinding.
Panic ==
    /\ \/ stage = "building" /\ Serve("panicked")
       \/ stage = "running" /\ Serve(IF config.ui THEN "unwinding" ELSE "panicked")
    /\ PanicHook

Unwind ==
    /\ stage = "unwinding"
    /\ Serve("panicked")
    /\ DropGuard

\* A panic in another task is caught by tokio, after the hook has run, and the
\* interface goes on.  Without it there is nothing to restore.
TaskPanics ==
    /\ Pumping /\ hooked
    /\ Serve(stage)
    /\ PanicHook

-----------------------------------------------------------------------------
(* The pane.                                                               *)

StepLevel(level, up) ==
    IF up THEN IF level < Len(DISPLAY_LEVELS) THEN level + 1 ELSE level
    ELSE IF level > 1 THEN level - 1 ELSE level

\* DISPLAY_LEVELS holds the levels in order; the keys do nothing for one that is
\* not in it.
AdjustVerbosity(up) ==
    /\ stage = "running" /\ config.ui /\ display \in DOMAIN DISPLAY_LEVELS
    /\ display' = DISPLAY_LEVELS[StepLevel(display, up)]
    /\ UNCHANGED <<config, stage, sinkVars, pumpVars, terminalVars>>

Visible(line) == line.level <= display

\* What the filter lets through of the first n lines of the buffer.
Shown[n \in 0..Len(pane)] ==
    IF n = 0 THEN <<>>
    ELSE IF Visible(pane[n]) THEN Append(Shown[n - 1], pane[n])
    ELSE Shown[n - 1]

RenderLogs ==
    LET shown == Shown[Len(pane)]
        start == IF Len(shown) > Rows THEN Len(shown) - Rows ELSE 0
    IN  SubSeq(shown, start + 1, Len(shown))

-----------------------------------------------------------------------------

Next ==
    \/ \E level \in EventLevels : MuxLogs(level)
    \/ \E text \in {"text", "blank"} : AdapterSays(text)
    \/ OpenAdapterLog \/ ReadLine \/ WriteLine \/ ReportLine \/ StderrEnds
    \/ SetUp \/ SetUpFails
    \/ EnableRawMode \/ EnterAlternateScreen \/ BuildTerminal \/ EnterFails
    \/ Return \/ Panic \/ Unwind \/ TaskPanics
    \/ \E up \in BOOLEAN : AdjustVerbosity(up)

\* The pump runs, and a write to the adapter log returns, with whatever result.
Fairness == WF_vars(OpenAdapterLog \/ ReadLine \/ WriteLine \/ ReportLine)

Spec == Init /\ [][Next]_vars /\ Fairness

-----------------------------------------------------------------------------

Line == [level : Levels, target : {"mux", "adapter"}, nth : Nat \ {0}, of : Nat]

\* The state has the shape the code's types give it; the level displayed is one
\* the keys can move from.
TypeOK ==
    /\ config \in Invocations
    /\ stage \in Over \cup {"starting", "entering", "switching", "building",
                            "running", "unwinding"}
    /\ {emitted, file, pane} \subseteq Seq(Line)
    /\ Len(pane) <= Capacity
    /\ display \in DOMAIN DISPLAY_LEVELS
    /\ said \in Seq({"text", "blank"}) /\ drained \in 0..Len(said)
    /\ raw \in Seq(Nat) /\ lost \subseteq Nat
    /\ pump \in {"opening", "reading", "writing", "reporting", "ended", "broken"}
    /\ {rawMode, alternate, hooked, refused} \subseteq BOOLEAN
    /\ printed \in [over : BOOLEAN, refused : BOOLEAN]

After(i, level) == {j \in DOMAIN emitted : j > i /\ emitted[j].level <= level}

\* The pane shows the latest lines at its level, oldest first, whatever was
\* captured before the level was raised: a line is hidden only when later ones it
\* shows fill the rows, or later ones at DEBUG, hidden or not, have pushed it out
\* of the buffer.
PaneShowsLatest ==
    config.ui =>
      /\ \A i \in DOMAIN emitted :
           emitted[i] \in ToSet(RenderLogs) <=>
             /\ Visible(emitted[i])
             /\ Cardinality(After(i, display)) < Rows
             /\ Cardinality(After(i, DEBUG)) < Capacity
      /\ \A k, l \in DOMAIN RenderLogs :
           k < l => RenderLogs[k].nth < RenderLogs[l].nth

\* The line the pump has read and not reported, or not written.
Unreported == IF pump \in {"writing", "reporting"} THEN {drained} ELSE {}

Unwritten == IF pump = "writing" THEN {drained} ELSE {}

Texts == {n \in 1..drained : said[n] = "text"}

Reported == {emitted[i].of : i \in FromAdapter(emitted)}

\* Whatever becomes of the adapter log, every line of text read from the adapter
\* is reported to the sinks, once and in order, short of the one in hand.  The
\* adapter log holds, in order and once each, every line read whose write did not
\* fail; the log file, lines logged, in order; and no line goes to both.
StderrKept ==
    /\ Reported = Texts \ Unreported
    /\ \A i, j \in FromAdapter(emitted) : i < j => emitted[i].of < emitted[j].of
    /\ config.adapterLog = "opens" =>
         /\ ToSet(raw) = (1..drained) \ (lost \cup Unwritten)
         /\ \A i, j \in DOMAIN raw : i < j => raw[i] < raw[j]
    /\ \A i \in DOMAIN file : file[i] \in ToSet(emitted)
    /\ \A i, j \in DOMAIN file : i < j => file[i].nth < file[j].nth
    /\ config.adapterLog # "none" => FromAdapter(file) = {}

\* While the program serves, the pump gets through whatever the adapter says,
\* though no write to the adapter log succeed: only a failing read stops it, so
\* the adapter is not left blocked on a full pipe.
StderrDrained ==
    \A n \in 1..MaxStderr :
      Len(said) >= n ~> \/ drained >= n /\ n \notin Unreported
                        \/ stage # "running" \/ pump = "broken"

\* Once the interface has had the terminal, the program leaves it as it found
\* it, on whatever way out, unless the last attempt to restore it fails; and a
\* panic's message is printed over the interface only when the hook's own fails.
ShellRestored ==
    /\ stage \in {"returned", "panicked"} => Restored \/ refused
    /\ printed.over => printed.refused

=============================================================================
