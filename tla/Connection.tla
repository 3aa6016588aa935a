----------------------------- MODULE Connection -----------------------------
(***************************************************************************)
(* One client's connection: client.rs over the framing of protocol.rs.     *)
(*                                                                         *)
(* Mux takes a message as handled and an answer as heard in one step; this *)
(* module is what lies between.  What the client writes reaches the read   *)
(* loop as headers and bodies, may be malformed and may stop anywhere.     *)
(* What the mux sends waits in an unbounded queue for the write loop, and  *)
(* neither loop outlives the program.                                      *)
(***************************************************************************)
EXTENDS Naturals, Sequences, SequencesExt

CONSTANTS
    MaxPieces,        \* bound: headers and bodies the client writes
    MaxMessages,      \* bound: messages the mux sends of its own accord
    Frontends,        \* how the client may be served; see frontend
    WritesMayFail,    \* a write to the client may fail
    UpstreamMayDrop   \* the adapter connection may be lost

ASSUME ConnectionAssumption ==
    /\ MaxPieces \in Nat /\ MaxMessages \in Nat
    /\ Frontends \subseteq {"stdio", "tcp", "interface"}
    /\ {WritesMayFail, UpstreamMayDrop} \subseteq BOOLEAN

\* "endless": a Content-Length beyond its body; "flawed": none, or no number.
Headers == {"header", "endless", "flawed"}
Requests == {"request", "disconnect"}
Bodies == Requests \cup {"garbage"}     \* garbage: not JSON

Messages == {"message", "acknowledgement", "notice", "terminated"}

VARIABLES
    (* the client's half *)
    inbound,      \* what it has written, piece by piece
    open,         \* it has not closed its end
    reading,      \* it reads what is written to it, and its end is not full
    (* read_loop *)
    reader,       \* "header" or "body": what it waits for; "ended"
    taken,        \* pieces it has consumed
    cancelled,    \* its task was aborted
    dispatched,   \* on_message was given these
    reported,     \* how often on_disconnect was called
    (* the queue and write_loop *)
    registered,   \* the mux holds the send half
    enqueued,     \* every message put in the queue
    received,     \* how many of them recv() has returned
    unsent,       \* pieces of the last of those not yet written
    line,         \* pieces written to the client
    writer,       \* "running"; "lost" on an error; "closed" when drained
    (* the program *)
    frontend,     \* the client is the launcher ("stdio"), or comes by TCP to a
                  \* program without ("tcp") or with an operator's interface
    adapterUp,
    gone          \* it has exited

readVars    == <<reader, taken, cancelled, dispatched, reported>>
writeVars   == <<received, unsent, line, writer>>
clientVars  == <<inbound, open, reading>>
programVars == <<frontend, adapterUp, gone>>

vars == <<clientVars, readVars, registered, enqueued, writeVars, programVars>>

Init ==
    /\ inbound = <<>> /\ open = TRUE /\ reading = TRUE
    /\ reader = "header" /\ taken = 0 /\ cancelled = FALSE
    /\ dispatched = <<>> /\ reported = 0
    /\ registered = TRUE /\ enqueued = <<>>
    /\ received = 0 /\ unsent = <<>> /\ line = <<>> /\ writer = "running"
    /\ frontend \in Frontends /\ adapterUp = TRUE /\ gone = FALSE

Frame(message) == <<[part |-> "header", of |-> message],
                    [part |-> "body", of |-> message]>>

Pieces == [part : {"header", "body"}, of : Messages]

\* Bug: the queue of a client that was removed is still sent to.
EnqueueToGone(messages) ==
    enqueued' = IF writer = "running" THEN enqueued \o messages ELSE enqueued

\* Sends to a queue that is gone, or has no reader, go nowhere.
Enqueue(messages) ==
    enqueued' = IF registered /\ writer = "running"
                THEN enqueued \o messages ELSE enqueued

-----------------------------------------------------------------------------
(* The client writes frames, sound or not, and closes at any point.        *)

ClientWrites(piece) ==
    /\ open /\ Len(inbound) < MaxPieces
    /\ piece \in IF Len(inbound) % 2 = 0 THEN Headers ELSE Bodies
    /\ inbound' = Append(inbound, piece)
    /\ UNCHANGED <<open, reading, readVars, registered, enqueued, writeVars,
                   programVars>>

ClientCloses ==
    /\ open
    /\ open' = FALSE
    /\ UNCHANGED <<inbound, reading, readVars, registered, enqueued, writeVars,
                   programVars>>

\* It stops reading, or starts again; a write may then wait for it.
ClientReads ==
    /\ reading' = ~reading
    /\ UNCHANGED <<inbound, open, readVars, registered, enqueued, writeVars,
                   programVars>>

-----------------------------------------------------------------------------
(* read_loop and read_message.                                             *)

Reading == ~gone /\ reader # "ended"

Ahead == inbound[taken + 1]

Arrived(count) == Len(inbound) >= taken + count

\* Bug: a message that does not parse is skipped.
SkipFrame ==
    /\ reader' = "header"
    /\ taken' = taken + 1
    /\ UNCHANGED <<clientVars, cancelled, dispatched, reported, registered,
                   enqueued, writeVars, programVars>>

\* Bug: a read that fails ends the loop, and the mux does not remove the client.
HangUpQuietly ==
    /\ reader' = "ended"
    /\ reported' = reported + 1
    /\ UNCHANGED <<clientVars, taken, cancelled, dispatched, registered, enqueued,
                   writeVars, programVars>>

\* on_disconnect, once: the mux removes the client, and with it the send half.
HangUp ==
    /\ reader' = "ended"
    /\ reported' = reported + 1
    /\ registered' = FALSE
    /\ UNCHANGED <<clientVars, taken, cancelled, dispatched, enqueued, writeVars,
                   programVars>>

ReadHeader ==
    /\ Reading /\ reader = "header" /\ Arrived(1) /\ Ahead # "flawed"
    /\ reader' = "body"
    /\ taken' = taken + 1
    /\ UNCHANGED <<clientVars, cancelled, dispatched, reported, registered,
                   enqueued, writeVars, programVars>>

Unbounded == inbound[taken] = "endless"

\* on_message: a disconnect is acknowledged, the client removed and the read
\* task aborted; a request is answered whenever the adapter answers.
ReadBody ==
    /\ Reading /\ reader = "body" /\ ~Unbounded
    /\ Arrived(1) /\ Ahead \in Requests
    /\ reader' = "header"
    /\ taken' = taken + 1
    /\ dispatched' = Append(dispatched, Ahead)
    /\ IF Ahead = "disconnect"
       THEN /\ Enqueue(<<"acknowledgement">>)
            /\ registered' = FALSE /\ cancelled' = TRUE
       ELSE UNCHANGED <<enqueued, registered, cancelled>>
    /\ UNCHANGED <<clientVars, reported, writeVars, programVars>>

\* decode_header or decode_body fails; a body that swallowed the header after
\* it does not parse either.
ReadFlawed ==
    /\ Reading
    /\ \/ reader = "header" /\ Arrived(1) /\ Ahead = "flawed"
       \/ reader = "body" /\ ~Unbounded /\ Arrived(1) /\ Ahead = "garbage"
       \/ reader = "body" /\ Unbounded /\ Arrived(2)
    /\ HangUp

\* End of input, between frames or within one.
ReadEnds ==
    /\ Reading /\ ~open
    /\ ~Arrived(IF reader = "body" /\ Unbounded THEN 2 ELSE 1)
    /\ HangUp

\* An aborted task is dropped at its next wait; nothing is called.
ReadDropped ==
    /\ Reading /\ cancelled
    /\ reader' = "ended"
    /\ UNCHANGED <<clientVars, taken, cancelled, dispatched, reported,
                   registered, enqueued, writeVars, programVars>>

-----------------------------------------------------------------------------
(* write_loop and write_message.                                           *)

Writing == ~gone /\ writer = "running"

Receive ==
    /\ Writing /\ unsent = <<>> /\ received < Len(enqueued)
    /\ received' = received + 1
    /\ unsent' = Frame(enqueued[received + 1])
    /\ UNCHANGED <<clientVars, readVars, registered, enqueued, line, writer,
                   programVars>>

WritePiece ==
    /\ Writing /\ unsent # <<>>
    /\ line' = Append(line, Head(unsent))
    /\ unsent' = Tail(unsent)
    /\ UNCHANGED <<clientVars, readVars, registered, enqueued, received, writer,
                   programVars>>

\* Bug: the write loop logs the error and goes on with the next message.
WriteFailsOnce ==
    /\ WritesMayFail /\ Writing /\ unsent # <<>>
    /\ unsent' = <<>>
    /\ UNCHANGED <<clientVars, readVars, registered, enqueued, received, line,
                   writer, programVars>>

\* The write loop returns, and drops the queue.
WriteFails ==
    /\ WritesMayFail /\ Writing /\ unsent # <<>>
    /\ writer' = "lost"
    /\ UNCHANGED <<clientVars, readVars, registered, enqueued, received, unsent,
                   line, programVars>>

\* Bug: the write loop stops as soon as the client is removed.
CloseAtOnce ==
    /\ Writing /\ unsent = <<>> /\ ~registered
    /\ writer' = "closed"
    /\ UNCHANGED <<clientVars, readVars, registered, enqueued, received, unsent,
                   line, programVars>>

\* recv() returns None: no send half, and nothing left.
Close ==
    /\ Writing /\ unsent = <<>> /\ ~registered /\ received = Len(enqueued)
    /\ writer' = "closed"
    /\ UNCHANGED <<clientVars, readVars, registered, enqueued, received, unsent,
                   line, programVars>>

-----------------------------------------------------------------------------
(* The rest of the program.                                                *)

\* The mux has something for this client: an answer, an event.
MuxSends ==
    /\ ~gone /\ registered /\ Len(enqueued) < MaxMessages
    /\ Enqueue(<<"message">>)
    /\ UNCHANGED <<clientVars, readVars, registered, writeVars, programVars>>

\* handle_upstream_disconnect.
AdapterLost ==
    /\ UpstreamMayDrop /\ ~gone /\ adapterUp
    /\ adapterUp' = FALSE
    /\ Enqueue(<<"notice", "terminated">>)
    /\ UNCHANGED <<clientVars, readVars, registered, writeVars, frontend, gone>>

\* end_session, of the interface: the client goes, and its read task is aborted.
EndSession ==
    /\ frontend = "interface" /\ ~gone /\ registered
    /\ registered' = FALSE /\ cancelled' = TRUE
    /\ UNCHANGED <<clientVars, reader, taken, dispatched, reported, enqueued,
                   writeVars, programVars>>

\* run_serving's select! returns, and main with it: every task is dropped.  (An
\* operator's interrupt or quitting, which promises clients nothing, is left out.)
Exit ==
    /\ ~gone
    /\ \/ frontend # "interface" /\ ~adapterUp
       \/ frontend = "stdio" /\ reader = "ended"
    /\ gone' = TRUE
    /\ UNCHANGED <<clientVars, readVars, registered, enqueued, writeVars,
                   frontend, adapterUp>>

-----------------------------------------------------------------------------

ReadStep == ReadHeader \/ ReadBody \/ ReadFlawed \/ ReadEnds \/ ReadDropped

WriteStep == Receive \/ WritePiece \/ Close

Next ==
    \/ \E piece \in Headers \cup Bodies : ClientWrites(piece)
    \/ ClientCloses \/ ClientReads
    \/ ReadStep \/ WriteStep \/ WriteFails
    \/ MuxSends \/ AdapterLost \/ EndSession \/ Exit

Spec == Init /\ [][Next]_vars

\* Both tasks are scheduled as long as the program runs.  A write has no timeout:
\* it returns if the client reads.  The client owes nothing, and no write has to
\* fail.
Fairness ==
    /\ WF_vars(ReadStep)
    /\ WF_vars(Receive \/ Close)
    /\ WF_vars(reading /\ WritePiece)

FairSpec == Spec /\ Fairness

-----------------------------------------------------------------------------

TypeOK ==
    /\ inbound \in Seq(Headers \cup Bodies) /\ Len(inbound) <= MaxPieces
    /\ \A i \in DOMAIN inbound : inbound[i] \in IF i % 2 = 1 THEN Headers ELSE Bodies
    /\ reader \in {"header", "body", "ended"}
    /\ taken \in 0..Len(inbound)
    /\ dispatched \in Seq(Requests)
    /\ reported \in Nat
    /\ enqueued \in Seq(Messages) /\ line \in Seq(Pieces)
    /\ unsent \in Seq(Pieces) /\ Len(unsent) <= 2
    /\ received \in 0..Len(enqueued)
    /\ writer \in {"running", "lost", "closed"}
    /\ frontend \in Frontends
    /\ {open, reading, cancelled, registered, adapterUp, gone} \subseteq BOOLEAN

\* The first n frames the client wrote are complete and sound.
Sound(n) ==
    /\ 2 * n <= Len(inbound)
    /\ \A i \in 1..n : inbound[2 * i - 1] = "header" /\ inbound[2 * i] \in Requests

\* The mux is given exactly the client's frames, in order, up to the first flaw
\* or the end, however the bytes arrive; it hears of the hangup at most once,
\* and after the last of them.  Only an aborted read task ends without a word.
DispatchedInOrder ==
    /\ Sound(Len(dispatched))
    /\ \A i \in DOMAIN dispatched : dispatched[i] = inbound[2 * i]
    /\ reported <= 1
    /\ reported = 1 => ~Sound(Len(dispatched) + 1)
    /\ reader = "ended" /\ reported = 0 => cancelled

\* What the client can read off its end are the messages sent to it, whole and
\* in order; only the last may be cut short.
LineWhole ==
    /\ Len(line) <= 2 * Len(enqueued)
    /\ \A m \in DOMAIN enqueued, j \in 1..2 :
         2 * m - 2 + j \in DOMAIN line =>
           line[2 * m - 2 + j] = Frame(enqueued[m])[j]

\* "the write loop drains the channel before it observes the close"
\* (disconnect_client): a connection the mux closes has been sent everything,
\* the acknowledgement of its disconnect included.
ClosedAfterDrain == writer = "closed" => Len(line) = 2 * Len(enqueued)

\* The same across the program's exit: "...and tell the client its session is
\* over" (the test upstream_disconnect_notifies_clients_and_shuts_down).
LastWordWritten == gone /\ writer # "lost" => Len(line) = 2 * Len(enqueued)

\* A client that goes on reading is let go once it hung up, disconnected, broke
\* the framing, or its session ended: what it was sent is written, then its
\* connection is closed.  (One that stops reading keeps its write loop waiting.)
LetGo ==
    <>[]reading =>
      (~open \/ ~registered ~> writer \in {"closed", "lost"} \/ gone)

=============================================================================
