-------------------------- MODULE ConnectionProofs --------------------------
(***************************************************************************)
(* One connection, for any number of pieces read and messages written: the *)
(* read loop hands over the client's frames, the write loop writes whole   *)
(* frames and closes only once everything is written.                      *)
(***************************************************************************)
EXTENDS ConnectionImplementsDuplex, SequenceTheorems, TLAPS

USE DEF readVars, writeVars, clientVars, programVars

\* The n-th frame is spoilt by what has already arrived of it.
Spoilt(n) ==
    \/ 2 * n - 1 <= Len(inbound) /\ inbound[2 * n - 1] # "header"
    \/ 2 * n <= Len(inbound) /\ inbound[2 * n] \notin Requests

\* The read loop is between two frames, or between a header and its body, and
\* has handed over all frames before; what made it hang up is there to stay.
ReadTracked ==
    /\ DispatchedInOrder
    /\ reader = "header" => taken = 2 * Len(dispatched)
    /\ reader = "body" => /\ taken = 2 * Len(dispatched) + 1
                          /\ inbound[taken] # "flawed"
    /\ reader # "ended" => reported = 0
    /\ reported = 1 => \/ ~open /\ ~Sound(Len(dispatched) + 1)
                       \/ Spoilt(Len(dispatched) + 1)

\* The write loop has written all messages before the last one it received, and
\* of that one what is not left to write.
WriteTracked ==
    /\ LineWhole
    /\ Len(line) = 2 * received - Len(unsent)
    /\ unsent # <<>> =>
         /\ received >= 1
         /\ unsent \in {Frame(enqueued[received]),
                        <<Frame(enqueued[received])[2]>>}
    /\ writer = "closed" =>
         ~registered /\ received = Len(enqueued) /\ unsent = <<>>

-----------------------------------------------------------------------------

\* The queue takes messages at its end, and loses none.
LEMMA EnqueueExtends ==
    ASSUME TypeOK, NEW messages \in Seq(Messages), Enqueue(messages)
    PROVE  /\ enqueued' \in Seq(Messages) /\ Len(enqueued') >= Len(enqueued)
           /\ \A m \in 1..Len(enqueued) : enqueued'[m] = enqueued[m]
BY DEF TypeOK, Enqueue

\* A frame is a header and a body.
LEMMA FrameShape ==
    ASSUME NEW m \in Messages
    PROVE  /\ Frame(m) \in Seq(Pieces) /\ Len(Frame(m)) = 2
           /\ Head(Frame(m)) = Frame(m)[1] /\ Tail(Frame(m)) = <<Frame(m)[2]>>
BY DEF Frame, Pieces

\* Every write keeps the client's headers and bodies alternating.
LEMMA ClientWritesExtends ==
    ASSUME TypeOK, NEW piece \in Headers \cup Bodies, ClientWrites(piece)
    PROVE  /\ inbound' \in Seq(Headers \cup Bodies)
           /\ Len(inbound') = Len(inbound) + 1 /\ Len(inbound') <= MaxPieces
           /\ \A i \in 1..Len(inbound) : inbound'[i] = inbound[i]
           /\ \A i \in DOMAIN inbound' :
                inbound'[i] \in IF i % 2 = 1 THEN Headers ELSE Bodies
<1>1. /\ inbound' = Append(inbound, piece) /\ Len(inbound) < MaxPieces
      /\ piece \in IF Len(inbound) % 2 = 0 THEN Headers ELSE Bodies
      /\ inbound \in Seq(Headers \cup Bodies)
  BY DEF ClientWrites, TypeOK
<1>2. /\ inbound' \in Seq(Headers \cup Bodies)
      /\ Len(inbound') = Len(inbound) + 1
      /\ \A i \in 1..Len(inbound) : inbound'[i] = inbound[i]
      /\ inbound'[Len(inbound) + 1] = piece
  BY <1>1, AppendProperties
<1>3. Len(inbound) \in Nat /\ MaxPieces \in Nat
  BY <1>1, ConnectionAssumption
<1>4. ASSUME NEW i \in DOMAIN inbound'
      PROVE  inbound'[i] \in IF i % 2 = 1 THEN Headers ELSE Bodies
  <2>1. i \in 1..Len(inbound) \/ i = Len(inbound) + 1
    BY <1>2, <1>3
  <2>2. CASE i \in 1..Len(inbound)
    BY <1>1, <1>2, <2>2 DEF TypeOK
  <2>3. CASE i = Len(inbound) + 1
    BY <1>1, <1>2, <1>3, <2>3
  <2>. QED BY <2>1, <2>2, <2>3
<1>. QED BY <1>1, <1>2, <1>3, <1>4

\* The state keeps its shape.
LEMMA TypeStep == TypeOK /\ [Next]_vars => TypeOK'
<1> SUFFICES ASSUME TypeOK, [Next]_vars PROVE TypeOK'
  OBVIOUS
<1>0. received \in Nat /\ taken \in Nat /\ Len(enqueued) \in Nat /\ Len(inbound) \in Nat
  BY DEF TypeOK
<1>1. ASSUME NEW piece \in Headers \cup Bodies, ClientWrites(piece)
      PROVE  TypeOK'
  <2>1. taken \in 0..Len(inbound')
    BY <1>0, <1>1, ClientWritesExtends DEF TypeOK
  <2>. QED BY <1>1, <2>1, ClientWritesExtends DEF ClientWrites, TypeOK
<1>2. CASE ClientCloses \/ ClientReads
  BY <1>2 DEF ClientCloses, ClientReads, TypeOK
<1>3. CASE ReadHeader
  BY <1>0, <1>3 DEF ReadHeader, Arrived, TypeOK
<1>4. CASE ReadBody
  <2>1. enqueued' \in Seq(Messages) /\ Len(enqueued') >= Len(enqueued)
    <3>1. <<"acknowledgement">> \in Seq(Messages)
      BY DEF Messages
    <3>2. CASE Ahead = "disconnect"
      BY <1>4, <3>1, <3>2, EnqueueExtends DEF ReadBody
    <3>3. CASE Ahead # "disconnect"
      BY <1>0, <1>4, <3>3 DEF ReadBody, TypeOK
    <3>. QED BY <3>2, <3>3
  <2>2. dispatched' \in Seq(Requests) /\ taken' \in 0..Len(inbound)
    BY <1>0, <1>4 DEF ReadBody, Arrived, TypeOK
  <2>3. received \in 0..Len(enqueued')
    BY <1>0, <2>1 DEF TypeOK
  <2>4. {cancelled', registered'} \subseteq BOOLEAN
    BY <1>4 DEF ReadBody, TypeOK
  <2>. QED BY <1>4, <2>1, <2>2, <2>3, <2>4 DEF ReadBody, TypeOK
<1>5. CASE ReadFlawed \/ ReadEnds \/ ReadDropped
  <2>1. CASE HangUp
    <3>1. UNCHANGED <<clientVars, taken, cancelled, dispatched, enqueued,
                      writeVars, programVars>>
      BY <2>1 DEF HangUp
    <3>2. reader' = "ended" /\ reported' \in Nat /\ registered' = FALSE
      BY <2>1 DEF HangUp, TypeOK
    <3>. QED BY <3>1, <3>2 DEF TypeOK
  <2>2. CASE ReadDropped
    BY <2>2 DEF ReadDropped, TypeOK
  <2>. QED BY <1>5, <2>1, <2>2 DEF ReadFlawed, ReadEnds
<1>6. CASE Receive
  <2>1. enqueued[received + 1] \in Messages /\ received + 1 \in 0..Len(enqueued)
    BY <1>0, <1>6 DEF Receive, TypeOK
  <2>2. unsent' \in Seq(Pieces) /\ Len(unsent') = 2
    BY <1>6, <2>1, FrameShape DEF Receive
  <2>. QED BY <1>6, <2>1, <2>2 DEF Receive, TypeOK
<1>7. CASE WritePiece
  <2>1. unsent \in Seq(Pieces) /\ unsent # <<>> /\ line \in Seq(Pieces)
    BY <1>7 DEF WritePiece, TypeOK
  <2>2. /\ unsent' \in Seq(Pieces) /\ Len(unsent') = Len(unsent) - 1
        /\ Head(unsent) \in Pieces
    BY <1>7, <2>1, HeadTailProperties DEF WritePiece
  <2>3. line' \in Seq(Pieces)
    BY <1>7, <2>1, <2>2 DEF WritePiece
  <2>. QED BY <1>7, <2>1, <2>2, <2>3 DEF WritePiece, TypeOK
<1>8. CASE WriteFails \/ Close \/ EndSession \/ Exit \/ UNCHANGED vars
  BY <1>8 DEF WriteFails, Close, EndSession, Exit, vars, TypeOK
<1>9. CASE MuxSends \/ AdapterLost
  <2>1. enqueued' \in Seq(Messages) /\ Len(enqueued') >= Len(enqueued)
    <3>1. <<"message">> \in Seq(Messages) /\ <<"notice", "terminated">> \in Seq(Messages)
      BY DEF Messages
    <3>. QED BY <1>9, <3>1, EnqueueExtends DEF MuxSends, AdapterLost
  <2>2. received \in 0..Len(enqueued')
    BY <1>0, <2>1 DEF TypeOK
  <2>. QED BY <1>9, <2>1, <2>2 DEF MuxSends, AdapterLost, TypeOK
<1>. QED BY <1>1, <1>2, <1>3, <1>4, <1>5, <1>6, <1>7, <1>8, <1>9
         DEF Next, ReadStep, WriteStep

\* A spoilt frame is not sound.
LEMMA SpoiltIsNotSound ==
    ASSUME TypeOK, NEW n \in Nat \ {0} PROVE ~(Spoilt(n) /\ Sound(n))
<1>1. ASSUME Sound(n)
      PROVE  2 * n <= Len(inbound) /\ inbound[2 * n - 1] = "header" /\ inbound[2 * n] \in Requests
  <2>1. n \in 1..n
    OBVIOUS
  <2>. QED BY <1>1, <2>1 DEF Sound
<1>. QED BY <1>1 DEF Spoilt

\* No step of the read loop, and nothing else, disturbs the order.
LEMMA ReadStepTracked == TypeOK /\ ReadTracked /\ [Next]_vars => ReadTracked'
<1> SUFFICES ASSUME TypeOK, ReadTracked, [Next]_vars PROVE ReadTracked'
  OBVIOUS
<1> DEFINE k == Len(dispatched)
<1>0. /\ k \in Nat /\ Len(inbound) \in Nat /\ taken \in Nat
      /\ inbound \in Seq(Headers \cup Bodies) /\ dispatched \in Seq(Requests)
      /\ DOMAIN dispatched = 1..k /\ DOMAIN inbound = 1..Len(inbound)
      /\ reported \in Nat /\ taken <= Len(inbound)
  BY DEF TypeOK
<1>1. ASSUME NEW piece \in Headers \cup Bodies, ClientWrites(piece)
      PROVE  ReadTracked'
  <2>1. UNCHANGED <<readVars, open>> /\ open /\ k' = k
    BY <1>1 DEF ClientWrites
  <2>2. /\ \A i \in 1..Len(inbound) : inbound'[i] = inbound[i]
        /\ Len(inbound') = Len(inbound) + 1
    BY <1>1, ClientWritesExtends
  <2>3. Sound(k)' /\ \A i \in 1..k : inbound'[2 * i] = inbound[2 * i]
    <3>1. Sound(k) /\ 2 * k <= Len(inbound)
      BY DEF ReadTracked, DispatchedInOrder, Sound
    <3>2. \A i \in 1..k : {2 * i - 1, 2 * i} \subseteq 1..Len(inbound)
      BY <1>0, <3>1
    <3>3. \A i \in 1..k : /\ inbound'[2 * i] = inbound[2 * i]
                          /\ inbound'[2 * i - 1] = inbound[2 * i - 1]
      BY <2>2, <3>2
    <3>4. k' = k /\ 2 * k <= Len(inbound')
      BY <1>0, <2>1, <2>2, <3>1
    <3>5. \A i \in 1..k : /\ inbound[2 * i - 1] = "header"
                          /\ inbound[2 * i] \in Requests
      BY <3>1 DEF Sound
    <3>6. \A i \in 1..k : /\ inbound'[2 * i - 1] = "header"
                          /\ inbound'[2 * i] \in Requests
      BY <3>3, <3>5
    <3>. QED BY <3>3, <3>4, <3>6 DEF Sound
  <2>4. reported = 1 => Spoilt(k + 1)'
    BY <1>0, <2>1, <2>2 DEF ReadTracked, Spoilt
  <2>5. reported = 1 => ~Sound(k + 1)'
    <3>1. SUFFICES ASSUME reported = 1, Sound(k + 1)' PROVE FALSE
      OBVIOUS
    <3>2. k + 1 \in 1..(k' + 1) /\ k' = k
      BY <1>0, <2>1
    <3>3. /\ 2 * (k + 1) <= Len(inbound')
          /\ inbound'[2 * (k + 1) - 1] = "header"
          /\ inbound'[2 * (k + 1)] \in Requests
      BY <3>1, <3>2 DEF Sound
    <3>. QED BY <2>4, <3>1, <3>2, <3>3 DEF Spoilt
  <2>6. reader = "body" => taken \in 1..Len(inbound) /\ inbound'[taken] = inbound[taken]
    BY <1>0, <2>2 DEF ReadTracked
  <2>. QED BY <1>0, <2>1, <2>2, <2>3, <2>4, <2>5, <2>6
           DEF ReadTracked, DispatchedInOrder
<1>2. CASE ReadHeader
  <2>1. /\ UNCHANGED <<inbound, open, dispatched, reported, cancelled>>
        /\ reader = "header" /\ reader' = "body" /\ taken' = taken + 1
        /\ inbound[taken + 1] # "flawed"
    BY <1>2 DEF ReadHeader, Ahead
  <2>. QED BY <1>0, <2>1 DEF ReadTracked, DispatchedInOrder, Sound, Spoilt
<1>3. CASE ReadBody
  <2>1. /\ UNCHANGED <<inbound, open, reported>>
        /\ reader = "body" /\ reader' = "header" /\ taken' = taken + 1
        /\ inbound[taken] # "endless" /\ Len(inbound) >= taken + 1
        /\ inbound[taken + 1] \in Requests
        /\ dispatched' = Append(dispatched, inbound[taken + 1])
    BY <1>3 DEF ReadBody, Ahead, Unbounded, Arrived
  <2>2. taken = 2 * k + 1 /\ inbound[taken] # "flawed" /\ reported = 0
    BY <2>1 DEF ReadTracked
  <2>3. inbound[taken] = "header"
    <3>1. taken % 2 = 1 /\ taken \in DOMAIN inbound
      BY <1>0, <2>2
    <3>2. inbound[taken] \in Headers
      BY <3>1 DEF TypeOK
    <3>. QED BY <2>1, <2>2, <3>2 DEF Headers
  <2>4. /\ Len(dispatched') = k + 1
        /\ \A i \in 1..(k + 1) :
             dispatched'[i] = IF i = k + 1 THEN inbound[taken + 1] ELSE dispatched[i]
        /\ DOMAIN dispatched' = 1..(k + 1)
    <3>1. inbound[taken + 1] \in Requests
      BY <2>1
    <3>. QED BY <1>0, <2>1, <3>1
  <2>5. Sound(k + 1)
    BY <1>0, <2>1, <2>2, <2>3 DEF ReadTracked, DispatchedInOrder, Sound
  <2>6. \A i \in 1..(k + 1) : dispatched'[i] = inbound[2 * i]
    <3>1. \A i \in 1..k : dispatched[i] = inbound[2 * i]
      BY <1>0 DEF ReadTracked, DispatchedInOrder
    <3>2. \A i \in 1..(k + 1) : i # k + 1 => i \in 1..k
      BY <1>0
    <3>3. taken + 1 = 2 * (k + 1)
      BY <1>0, <2>2
    <3>. QED BY <2>4, <3>1, <3>2, <3>3
  <2>7. Sound(k)'
    BY <1>0, <2>1, <2>4, <2>5 DEF Sound
  <2>. QED BY <1>0, <2>1, <2>2, <2>4, <2>6, <2>7 DEF ReadTracked, DispatchedInOrder
<1>4. CASE ReadFlawed
  <2>1. /\ UNCHANGED <<inbound, open, dispatched, taken, cancelled>>
        /\ reader # "ended" /\ reader' = "ended" /\ reported' = reported + 1
    BY <1>4 DEF ReadFlawed, HangUp, Reading
  <2>2. Spoilt(k + 1)
    <3>1. CASE reader = "header" /\ Arrived(1) /\ Ahead = "flawed"
      BY <1>0, <3>1 DEF Arrived, Ahead, Spoilt, ReadTracked
    <3>2. CASE reader = "body" /\ ~Unbounded /\ Arrived(1) /\ Ahead = "garbage"
      BY <1>0, <3>2 DEF Arrived, Ahead, Spoilt, ReadTracked, Requests
    <3>3. CASE reader = "body" /\ Unbounded /\ Arrived(2)
      BY <1>0, <3>3 DEF Arrived, Unbounded, Spoilt, ReadTracked
    <3>. QED BY <1>4, <3>1, <3>2, <3>3 DEF ReadFlawed
  <2>3. ~Sound(k + 1)
    BY <1>0, <2>2, SpoiltIsNotSound
  <2>4. Spoilt(k + 1)' /\ ~Sound(k + 1)' /\ Sound(k)'
    BY <2>1, <2>2, <2>3 DEF Spoilt, Sound, ReadTracked, DispatchedInOrder
  <2>. QED BY <1>0, <2>1, <2>4 DEF ReadTracked, DispatchedInOrder
<1>5. CASE ReadEnds
  <2>1. /\ UNCHANGED <<inbound, open, dispatched, taken, cancelled>> /\ ~open
        /\ reader # "ended" /\ reader' = "ended" /\ reported' = reported + 1
    BY <1>5 DEF ReadEnds, HangUp, Reading
  <2>2. ~Sound(k + 1)
    <3>1. CASE reader = "body" /\ Unbounded
      BY <1>0, <3>1 DEF Unbounded, Sound, ReadTracked
    <3>2. CASE ~(reader = "body" /\ Unbounded)
      BY <1>0, <1>5, <2>1, <3>2
         DEF ReadEnds, Arrived, Sound, ReadTracked, TypeOK
    <3>. QED BY <3>1, <3>2
  <2>3. ~Sound(k + 1)' /\ Sound(k)'
    BY <2>1, <2>2 DEF Sound, ReadTracked, DispatchedInOrder
  <2>. QED BY <1>0, <2>1, <2>3 DEF ReadTracked, DispatchedInOrder
<1>6. CASE ReadDropped
  <2>1. /\ UNCHANGED <<inbound, open, dispatched, taken, cancelled, reported>>
        /\ reader # "ended" /\ reader' = "ended" /\ cancelled
    BY <1>6 DEF ReadDropped, Reading
  <2>. QED BY <1>0, <2>1 DEF ReadTracked, DispatchedInOrder, Sound, Spoilt
<1>7. CASE ClientCloses \/ EndSession
  <2>1. /\ UNCHANGED <<inbound, reader, taken, dispatched, reported>>
        /\ ~open => ~open'
        /\ cancelled => cancelled'
    BY <1>7 DEF ClientCloses, EndSession
  <2>. QED BY <1>0, <2>1 DEF ReadTracked, DispatchedInOrder, Sound, Spoilt
<1>8. CASE \/ WriteStep \/ WriteFails \/ MuxSends \/ AdapterLost \/ ClientReads \/ Exit
           \/ UNCHANGED vars
  <2>1. UNCHANGED <<inbound, open, readVars>>
    BY <1>8 DEF WriteStep, Receive, WritePiece, Close, WriteFails, MuxSends,
                AdapterLost, ClientReads, Exit, vars
  <2>. QED BY <2>1 DEF ReadTracked, DispatchedInOrder, Sound, Spoilt
<1>. QED BY <1>1, <1>2, <1>3, <1>4, <1>5, <1>6, <1>7, <1>8 DEF Next, ReadStep

\* Appending to the queue leaves what was written a part of it.
LEMMA EnqueueKeepsTrack ==
    ASSUME TypeOK, TypeOK', WriteTracked, UNCHANGED writeVars,
           Len(enqueued') >= Len(enqueued),
           \A m \in 1..Len(enqueued) : enqueued'[m] = enqueued[m],
           writer = "closed" => enqueued' = enqueued /\ ~registered'
    PROVE  WriteTracked'
<1>0. /\ received \in 0..Len(enqueued) /\ Len(enqueued) \in Nat
      /\ Len(enqueued') \in Nat /\ Len(unsent) \in Nat /\ Len(line) \in Nat
      /\ DOMAIN enqueued = 1..Len(enqueued) /\ DOMAIN line = 1..Len(line)
      /\ DOMAIN enqueued' = 1..Len(enqueued')
  BY DEF TypeOK
<1>1. Len(line) <= 2 * Len(enqueued)
  BY <1>0 DEF WriteTracked
<1>2. ASSUME NEW m \in DOMAIN enqueued', NEW j \in 1..2,
             2 * m - 2 + j \in DOMAIN line
      PROVE  line[2 * m - 2 + j] = Frame(enqueued'[m])[j]
  <2>1. m \in DOMAIN enqueued
    BY <1>0, <1>1, <1>2
  <2>. QED BY <1>0, <1>2, <2>1 DEF WriteTracked, LineWhole
<1>3. unsent # <<>> => /\ received \in 1..Len(enqueued)
                       /\ enqueued'[received] = enqueued[received]
  BY <1>0 DEF WriteTracked
<1>. QED BY <1>0, <1>1, <1>2, <1>3 DEF WriteTracked, LineWhole

\* The next piece to write is of the last message received, the header while two
\* pieces are left of it and else the body.
LEMMA PieceOfMessage ==
    ASSUME NEW m \in Nat, NEW r \in Nat, NEW j \in 1..2, NEW u \in 1..2,
           2 * m - 2 + j = 2 * r - u + 1
    PROVE  m = r /\ (u = 2 => j = 1) /\ (u = 1 => j = 2)
OBVIOUS

\* The write loop keeps its place, and nothing else moves it.
LEMMA WriteStepTracked == TypeOK /\ WriteTracked /\ [Next]_vars => WriteTracked'
<1> SUFFICES ASSUME TypeOK, WriteTracked, [Next]_vars PROVE WriteTracked'
  OBVIOUS
<1>0. /\ received \in 0..Len(enqueued) /\ Len(enqueued) \in Nat
      /\ Len(unsent) \in Nat /\ Len(line) \in Nat
      /\ DOMAIN enqueued = 1..Len(enqueued) /\ DOMAIN line = 1..Len(line)
      /\ enqueued \in Seq(Messages) /\ line \in Seq(Pieces)
      /\ unsent \in Seq(Pieces) /\ registered \in BOOLEAN
  BY DEF TypeOK
<1>1. TypeOK'
  BY TypeStep
<1>2. ASSUME NEW messages \in Seq(Messages), Enqueue(messages),
             UNCHANGED writeVars, registered' => registered
      PROVE  WriteTracked'
  <2>1. writer = "closed" => enqueued' = enqueued /\ ~registered'
    BY <1>2 DEF WriteTracked, Enqueue
  <2>. QED BY <1>1, <1>2, <2>1, EnqueueExtends, EnqueueKeepsTrack
<1>3. ASSUME UNCHANGED <<enqueued, writeVars>>, registered' => registered
      PROVE  WriteTracked'
  <2>1. writer = "closed" => ~registered'
    BY <1>3 DEF WriteTracked
  <2>. QED BY <1>0, <1>1, <1>3, <2>1, EnqueueKeepsTrack
<1>4. CASE Receive
  <2>1. /\ UNCHANGED <<registered, enqueued, line, writer>>
        /\ writer = "running" /\ unsent = <<>> /\ received < Len(enqueued)
        /\ received' = received + 1 /\ unsent' = Frame(enqueued[received + 1])
    BY <1>4 DEF Receive, Writing
  <2>2. enqueued[received + 1] \in Messages
    BY <1>0, <2>1
  <2>3. Len(unsent') = 2
    BY <2>1, <2>2, FrameShape
  <2>4. Len(unsent) = 0
    BY <2>1
  <2>. QED BY <1>0, <2>1, <2>3, <2>4 DEF WriteTracked, LineWhole
<1>5. CASE WritePiece
  <2>1. /\ UNCHANGED <<registered, enqueued, received, writer>>
        /\ writer = "running" /\ unsent # <<>>
        /\ line' = Append(line, Head(unsent)) /\ unsent' = Tail(unsent)
    BY <1>5 DEF WritePiece, Writing
  <2> DEFINE last == enqueued[received]
  <2>2. /\ received \in 1..Len(enqueued) /\ last \in Messages
        /\ unsent = Frame(last) \/ unsent = <<Frame(last)[2]>>
    BY <1>0, <2>1 DEF WriteTracked
  <2>3. /\ Frame(last) \in Seq(Pieces) /\ Len(Frame(last)) = 2
        /\ Head(Frame(last)) = Frame(last)[1]
        /\ Tail(Frame(last)) = <<Frame(last)[2]>>
    BY <2>2, FrameShape
  <2>4. Head(unsent) \in Pieces
    BY <1>0, <2>1, HeadTailProperties
  <2>5. /\ Len(line') = Len(line) + 1
        /\ \A i \in 1..Len(line) : line'[i] = line[i]
        /\ line'[Len(line) + 1] = Head(unsent)
        /\ DOMAIN line' = 1..(Len(line) + 1)
    BY <1>0, <2>1, <2>4
  <2>6. /\ Len(line) = 2 * received - Len(unsent)
        /\ Len(unsent') = Len(unsent) - 1
    BY <1>0, <2>1, HeadTailProperties DEF WriteTracked
  <2>7. \/ /\ Len(unsent) = 2 /\ Head(unsent) = Frame(last)[1]
           /\ unsent' = <<Frame(last)[2]>>
        \/ /\ Len(unsent) = 1 /\ Head(unsent) = Frame(last)[2] /\ unsent' = <<>>
    <3>1. CASE unsent = Frame(last)
      BY <2>1, <2>3, <3>1
    <3>2. CASE unsent = <<Frame(last)[2]>>
      BY <2>1, <3>2
    <3>. QED BY <2>2, <3>1, <3>2
  <2>8. ASSUME NEW m \in DOMAIN enqueued, NEW j \in 1..2,
               2 * m - 2 + j \in DOMAIN line'
        PROVE  line'[2 * m - 2 + j] = Frame(enqueued[m])[j]
    <3>1. CASE 2 * m - 2 + j \in DOMAIN line
      BY <1>0, <2>5, <3>1 DEF WriteTracked, LineWhole
    <3>2. CASE 2 * m - 2 + j = Len(line) + 1
      <4>1. /\ m = received
            /\ Len(unsent) = 2 => j = 1
            /\ Len(unsent) = 1 => j = 2
        <5>1. /\ Len(unsent) \in 1..2 /\ m \in Nat /\ received \in Nat
              /\ j \in 1..2
          BY <1>0, <2>2, <2>7, <2>8
        <5>2. 2 * m - 2 + j = 2 * received - Len(unsent) + 1
          BY <2>6, <3>2
        <5>. QED BY <5>1, <5>2, PieceOfMessage
      <4>2. Head(unsent) = Frame(enqueued[m])[j]
        <5>1. enqueued[m] = last
          BY <4>1
        <5>2. \/ Len(unsent) = 2 /\ Head(unsent) = Frame(last)[1]
              \/ Len(unsent) = 1 /\ Head(unsent) = Frame(last)[2]
          BY <2>7
        <5>3. \/ j = 1 /\ Head(unsent) = Frame(last)[1]
              \/ j = 2 /\ Head(unsent) = Frame(last)[2]
          BY <4>1, <5>2
        <5>. QED BY <5>1, <5>3
      <4>. QED BY <2>5, <3>2, <4>2
    <3>. QED BY <1>0, <2>5, <2>8, <3>1, <3>2
  <2>9. LineWhole'
    <3>1. Len(line') <= 2 * Len(enqueued)
      BY <1>0, <2>2, <2>5, <2>6, <2>7
    <3>. QED BY <2>1, <2>8, <3>1 DEF LineWhole
  <2>10. Len(line') = 2 * received - Len(unsent')
    BY <1>0, <2>5, <2>6
  <2>11. unsent' # <<>> => unsent' = <<Frame(last)[2]>>
    BY <2>7
  <2>. QED BY <1>0, <2>1, <2>2, <2>9, <2>10, <2>11 DEF WriteTracked
<1>6. CASE WriteFails
  BY <1>6 DEF WriteFails, WriteTracked, LineWhole
<1>7. CASE Close
  BY <1>7 DEF Close, WriteTracked, LineWhole
<1>8. CASE ReadBody
  <2>1. CASE Ahead = "disconnect"
    <3>1. <<"acknowledgement">> \in Seq(Messages)
      BY DEF Messages
    <3>. QED BY <1>2, <1>8, <2>1, <3>1 DEF ReadBody
  <2>2. CASE Ahead # "disconnect"
    BY <1>3, <1>8, <2>2 DEF ReadBody
  <2>. QED BY <2>1, <2>2
<1>9. CASE MuxSends \/ AdapterLost
  <2>1. <<"message">> \in Seq(Messages) /\ <<"notice", "terminated">> \in Seq(Messages)
    BY DEF Messages
  <2>2. CASE MuxSends
    BY <1>2, <2>1, <2>2 DEF MuxSends
  <2>3. CASE AdapterLost
    BY <1>2, <2>1, <2>3 DEF AdapterLost
  <2>. QED BY <1>9, <2>2, <2>3
<1>10. CASE \/ \E piece \in Headers \cup Bodies : ClientWrites(piece)
            \/ ClientCloses \/ ClientReads
            \/ ReadHeader \/ ReadFlawed \/ ReadEnds \/ ReadDropped
            \/ EndSession \/ Exit \/ UNCHANGED vars
  BY <1>3, <1>10 DEF ClientWrites, ClientCloses, ClientReads, ReadHeader,
                     ReadFlawed, HangUp, ReadEnds, ReadDropped, EndSession, Exit, vars
<1>. QED BY <1>4, <1>5, <1>6, <1>7, <1>8, <1>9, <1>10 DEF Next, ReadStep, WriteStep

-----------------------------------------------------------------------------

\* Both loops keep their place in every reachable state.
LEMMA ConnectionTracked == Spec => [](TypeOK /\ ReadTracked /\ WriteTracked)
<1>1. Init => TypeOK /\ ReadTracked /\ WriteTracked
  <2> SUFFICES ASSUME Init PROVE TypeOK /\ ReadTracked /\ WriteTracked
    OBVIOUS
  <2>1. TypeOK
    <3>1. /\ Len(inbound) = 0 /\ DOMAIN inbound = {} /\ Len(enqueued) = 0
          /\ Len(unsent) = 0 /\ MaxPieces >= 0
      BY ConnectionAssumption DEF Init
    <3>2. /\ inbound \in Seq(Headers \cup Bodies) /\ dispatched \in Seq(Requests)
          /\ enqueued \in Seq(Messages)
          /\ line \in Seq(Pieces) /\ unsent \in Seq(Pieces)
      BY DEF Init
    <3>3. /\ reader = "header" /\ writer = "running"
          /\ taken = 0 /\ reported = 0 /\ received = 0
          /\ {open, reading, cancelled, registered, adapterUp, gone} \subseteq BOOLEAN
          /\ frontend \in Frontends
      BY DEF Init
    <3>. QED BY <3>1, <3>2, <3>3, ConnectionAssumption DEF TypeOK
  <2>2. ReadTracked
    BY DEF Init, ReadTracked, DispatchedInOrder, Sound
  <2>3. WriteTracked
    <3>1. Len(line) = 0 /\ Len(unsent) = 0 /\ Len(enqueued) = 0 /\ DOMAIN enqueued = {}
      BY DEF Init
    <3>2. unsent = <<>> /\ received = 0 /\ writer = "running"
      BY DEF Init
    <3>. QED BY <3>1, <3>2 DEF WriteTracked, LineWhole
  <2>. QED BY <2>1, <2>2, <2>3
<1>. QED BY <1>1, TypeStep, ReadStepTracked, WriteStepTracked, PTL DEF Spec

\* The connection's state is of the types the code gives it.
THEOREM ConnectionTypeCorrect == Spec => []TypeOK
BY ConnectionTracked, PTL

\* Whatever the client writes and wherever it stops, the mux is given its sound
\* frames in order, and hears at most once, and after them, that it hung up.
THEOREM FramesReachTheMux == Spec => []DispatchedInOrder
BY ConnectionTracked, PTL DEF ReadTracked

\* The client reads the mux's messages whole and in order; only the last may be
\* cut short, by a failed write or the program's exit.
THEOREM FramesReachTheClient == Spec => []LineWhole
BY ConnectionTracked, PTL DEF WriteTracked

\* A connection is closed only after everything sent to it is written.
THEOREM DrainedBeforeClosed == Spec => []ClosedAfterDrain
<1>1. WriteTracked => ClosedAfterDrain
  BY DEF WriteTracked, ClosedAfterDrain
<1>. QED BY <1>1, ConnectionTracked, PTL

-----------------------------------------------------------------------------
(* The refinement.                                                         *)

USE DEF D!vars

\* What the client writes completes a word, or not yet; no word is taken back.
LEMMA WordsGrow ==
    ASSUME TypeOK, NEW piece \in Headers \cup Bodies, ClientWrites(piece)
    PROVE  Words' = Words \/ \E word \in Requests \cup {"noise"} : Words' = Append(Words, word)
<1> DEFINE n == Len(inbound)
           h == n \div 2
<1>1. /\ inbound' \in Seq(Headers \cup Bodies) /\ Len(inbound') = n + 1
      /\ \A i \in 1..n : inbound'[i] = inbound[i]
  BY ClientWritesExtends
<1>2. n \in Nat
  BY DEF TypeOK
<1>. HIDE DEF n
<1>3. /\ h \in Nat /\ (n + 1) \div 2 \in {h, h + 1}
      /\ \A i \in 1..h : 2 * i - 1 \in 1..n /\ 2 * i \in 1..n
  BY <1>2
<1> DEFINE word(i) == IF inbound'[2 * i - 1] = "header" /\ inbound'[2 * i] \in Requests
                      THEN inbound'[2 * i] ELSE "noise"
<1>4. Words' = [i \in 1..((n + 1) \div 2) |-> word(i)]
  BY <1>1 DEF Words
<1>5. Words = [i \in 1..h |-> word(i)]
  <2>1. \A i \in 1..h : inbound'[2 * i - 1] = inbound[2 * i - 1] /\ inbound'[2 * i] = inbound[2 * i]
    BY <1>1, <1>3
  <2>. QED BY <2>1 DEF Words, n
<1>6. \A i \in Nat : word(i) \in Requests \cup {"noise"}
  OBVIOUS
<1>. HIDE DEF word, h
<1>7. CASE (n + 1) \div 2 = h + 1
  <2>1. Words' = Append(Words, word(h + 1))
    BY <1>3, <1>4, <1>5, <1>6, <1>7
  <2>. QED BY <1>3, <1>6, <2>1
<1>. QED BY <1>3, <1>4, <1>5, <1>7

\* The read loop expects the word after those it has handed over.
LEMMA NextWord ==
    ASSUME TypeOK, ReadTracked
    PROVE  D!Heard <=> Sound(Len(dispatched) + 1)
<1> DEFINE k == Len(dispatched)
<1>1. /\ k \in Nat /\ Len(inbound) \in Nat
      /\ DOMAIN Words = 1..(Len(inbound) \div 2) /\ Len(Words) = Len(inbound) \div 2
  BY DEF TypeOK, Words
<1>2. Sound(k)
  BY DEF ReadTracked, DispatchedInOrder
<1>. HIDE DEF k
<1>3. k < Len(Words) <=> 2 * (k + 1) <= Len(inbound)
  BY <1>1
<1>4. k < Len(Words) =>
        (Words[k + 1] \in Requests <=>
           inbound[2 * (k + 1) - 1] = "header" /\ inbound[2 * (k + 1)] \in Requests)
  <2>1. SUFFICES ASSUME k < Len(Words)
                 PROVE  Words[k + 1] \in Requests <=>
                          inbound[2 * (k + 1) - 1] = "header"
                            /\ inbound[2 * (k + 1)] \in Requests
    OBVIOUS
  <2>2. k + 1 \in 1..(Len(inbound) \div 2)
    BY <1>1, <2>1
  <2>. QED BY <2>2 DEF Words, Requests
<1>5. Sound(k + 1) <=>
        /\ 2 * (k + 1) <= Len(inbound)
        /\ inbound[2 * (k + 1) - 1] = "header" /\ inbound[2 * (k + 1)] \in Requests
  <2>1. \A i \in 1..(k + 1) : i = k + 1 \/ i \in 1..k
    BY <1>1
  <2>2. k + 1 \in 1..(k + 1)
    BY <1>1
  <2>. QED BY <1>1, <1>2, <2>1, <2>2 DEF Sound
<1>. QED BY <1>3, <1>4, <1>5 DEF D!Heard, k

\* A queue that takes messages at its end grows by a strict prefix, if at all.
LEMMA EnqueueTells ==
    ASSUME TypeOK, NEW messages \in Seq(Messages), messages # <<>>, Enqueue(messages)
    PROVE  IF registered /\ writer = "running"
           THEN D!IsStrictPrefix(enqueued, enqueued')
           ELSE enqueued' = enqueued
<1>1. /\ enqueued \in Seq(Messages) /\ Len(enqueued) \in Nat /\ Len(messages) \in Nat
      /\ Len(messages) > 0
  BY EmptySeq DEF TypeOK
<1>2. CASE registered /\ writer = "running"
  <2>1. enqueued' = enqueued \o messages
    BY <1>2 DEF Enqueue
  <2>2. /\ Len(enqueued') = Len(enqueued) + Len(messages)
        /\ \A i \in 1..Len(enqueued) : enqueued'[i] = enqueued[i]
    BY <1>1, <2>1
  <2>3. SubSeq(enqueued, 1, Len(enqueued)) = SubSeq(enqueued', 1, Len(enqueued))
    BY <1>1, <2>1, <2>2
  <2>4. enqueued # enqueued'
    BY <1>1, <2>2
  <2>. QED BY <1>1, <1>2, <2>2, <2>3, <2>4 DEF D!IsStrictPrefix, D!IsPrefix
<1>3. CASE ~(registered /\ writer = "running")
  BY <1>3 DEF Enqueue
<1>. QED BY <1>2, <1>3

\* A piece written completes a message when it is a body, and only then.
LEMMA PieceGets ==
    ASSUME TypeOK, WriteTracked, WritePiece
    PROVE  \/ UNCHANGED (Len(line) \div 2)
           \/ /\ (Len(line) \div 2)' = Len(line) \div 2 + 1
              /\ Len(line) \div 2 < Len(enqueued)
<1>1. /\ received \in 0..Len(enqueued) /\ Len(enqueued) \in Nat
      /\ unsent \in Seq(Pieces) /\ line \in Seq(Pieces) /\ unsent # <<>>
      /\ Len(unsent) <= 2
  BY DEF TypeOK, WritePiece
<1>2. Len(line') = Len(line) + 1
  <2>1. Head(unsent) \in Pieces
    BY <1>1, HeadTailProperties
  <2>. QED BY <1>1, <2>1 DEF WritePiece
<1>3. Len(line) = 2 * received - Len(unsent) /\ received >= 1
  BY <1>1 DEF WriteTracked
<1>4. Len(unsent) \in 1..2
  <2>1. Len(unsent) \in Nat /\ Len(unsent) # 0 /\ Len(unsent) <= 2
    BY <1>1, EmptySeq
  <2>2. \A u \in Nat : u # 0 /\ u <= 2 => u \in 1..2
    OBVIOUS
  <2>. QED BY <2>1, <2>2
<1>5. received \in Nat \ {0} /\ received <= Len(enqueued)
  BY <1>1, <1>3
<1>6. CASE Len(unsent) = 2
  <2>1. Len(line) \div 2 = received - 1 /\ (Len(line) + 1) \div 2 = received - 1
    BY <1>3, <1>5, <1>6
  <2>. QED BY <1>2, <2>1
<1>7. CASE Len(unsent) = 1
  <2>1. Len(line) \div 2 = received - 1 /\ (Len(line) + 1) \div 2 = received
    BY <1>3, <1>5, <1>7
  <2>. QED BY <1>1, <1>2, <1>5, <2>1
<1>. QED BY <1>4, <1>6, <1>7

\* The initial states are the duplex pair's.
LEMMA DuplexInit == Init => D!Init
<1> SUFFICES ASSUME Init PROVE D!Init
  OBVIOUS
<1>1. inbound = <<>> /\ line = <<>> /\ Len(inbound) = 0 /\ Len(line) = 0
  BY DEF Init
<1>2. Words = <<>>
  BY <1>1 DEF Words
<1>3. Len(line) \div 2 = 0
  BY <1>1
<1>4. /\ dispatched = <<>> /\ reported = 0 /\ registered = TRUE /\ enqueued = <<>>
      /\ writer = "running" /\ gone = FALSE
  BY DEF Init
<1>. QED BY <1>2, <1>3, <1>4 DEF D!Init

\* Every step is one of the duplex pair, or none.
LEMMA DuplexStep ==
    TypeOK /\ ReadTracked /\ WriteTracked /\ [Next]_vars => [D!Next]_D!vars
<1> SUFFICES ASSUME TypeOK, ReadTracked, WriteTracked, [Next]_vars
             PROVE  [D!Next]_D!vars
  OBVIOUS
<1> USE DEF D!Next
<1> DEFINE half == Len(line) \div 2
<1>0. /\ UNCHANGED inbound => UNCHANGED Words
      /\ UNCHANGED line => UNCHANGED half
  BY DEF Words
<1>1. ASSUME NEW piece \in Headers \cup Bodies, ClientWrites(piece)
      PROVE  [D!Next]_D!vars
  <2>1. \/ UNCHANGED Words
        \/ \E word \in Requests \cup {"noise"} : Words' = Append(Words, word)
    BY <1>1, WordsGrow
  <2>2. UNCHANGED <<dispatched, reported, registered, enqueued, half, writer, gone>>
    BY <1>0, <1>1 DEF ClientWrites
  <2>. QED BY <2>1, <2>2 DEF D!Say
<1>2. CASE ReadBody
  <2>1. /\ UNCHANGED <<Words, half, reported, writer, gone>>
        /\ ~gone /\ reader = "body" /\ inbound[taken + 1] \in Requests
        /\ dispatched' = Append(dispatched, inbound[taken + 1])
        /\ IF inbound[taken + 1] = "disconnect"
           THEN Enqueue(<<"acknowledgement">>) /\ registered' = FALSE
           ELSE UNCHANGED <<enqueued, registered>>
    BY <1>0, <1>2 DEF ReadBody, Ahead, Reading
  <2>2. taken = 2 * Len(dispatched) + 1 /\ reported = 0
    BY <2>1 DEF ReadTracked
  <2>3. D!Heard /\ Words[Len(dispatched) + 1] = inbound[taken + 1]
    <3>1. /\ Len(inbound) >= taken + 1 /\ inbound[taken] # "endless"
          /\ inbound[taken] # "flawed"
      BY <1>2, <2>1 DEF ReadBody, Arrived, Unbounded, ReadTracked
    <3>2. Len(inbound) \in Nat /\ Len(dispatched) \in Nat
      BY DEF TypeOK
    <3>3. inbound[taken] = "header"
      <4>1. taken % 2 = 1 /\ taken \in DOMAIN inbound
        BY <2>2, <3>1, <3>2 DEF TypeOK
      <4>2. inbound[taken] \in Headers
        BY <4>1 DEF TypeOK
      <4>. QED BY <3>1, <4>2 DEF Headers
    <3>4. /\ Len(dispatched) + 1 \in 1..(Len(inbound) \div 2)
          /\ 2 * (Len(dispatched) + 1) - 1 = taken /\ 2 * (Len(dispatched) + 1) = taken + 1
      BY <2>2, <3>1, <3>2
    <3>5. Words[Len(dispatched) + 1] = inbound[taken + 1]
      BY <2>1, <3>3, <3>4 DEF Words
    <3>6. Len(Words) = Len(inbound) \div 2
      BY <3>2 DEF Words
    <3>. QED BY <2>1, <3>2, <3>4, <3>5, <3>6 DEF D!Heard
  <2>4. inbound[taken + 1] = "disconnect" =>
          enqueued' = IF D!Reachable THEN Append(enqueued, "acknowledgement") ELSE enqueued
    <3>1. enqueued \in Seq(Messages) /\ "acknowledgement" \in Messages
      BY DEF TypeOK, Messages
    <3>2. enqueued \o <<"acknowledgement">> = Append(enqueued, "acknowledgement")
      BY <3>1
    <3>. QED BY <2>1, <3>2 DEF Enqueue, D!Reachable
  <2>5. ~(reported > 0) /\ UNCHANGED (reported > 0) /\ UNCHANGED ~gone
    BY <2>1, <2>2
  <2>6. D!Handle
    BY <2>1, <2>3, <2>4, <2>5 DEF D!Handle
  <2>. QED BY <2>6
<1>3. CASE HangUp /\ Reading
  <2>1. ReadTracked'
    BY ReadStepTracked
  <2>2. /\ UNCHANGED <<inbound, dispatched, enqueued, line, writer, gone>> /\ ~gone
        /\ reported' = reported + 1 /\ reported = 0 /\ registered' = FALSE
    BY <1>3 DEF HangUp, Reading, ReadTracked
  <2>3. ~Sound(Len(dispatched) + 1)
    <3>1. ~Sound(Len(dispatched) + 1)'
      BY <2>1, <2>2 DEF ReadTracked, DispatchedInOrder
    <3>. QED BY <2>2, <3>1 DEF Sound
  <2>4. ~D!Heard
    BY <2>3, NextWord
  <2>5. UNCHANGED <<Words, half>> /\ (reported > 0) = FALSE /\ (reported > 0)' = TRUE
    BY <1>0, <2>2
  <2>6. D!HangUp
    BY <2>2, <2>4, <2>5 DEF D!HangUp
  <2>. QED BY <2>6
<1>4. CASE \/ ReadHeader \/ ReadDropped \/ Receive \/ ClientCloses \/ ClientReads
           \/ UNCHANGED vars
  <2>1. UNCHANGED <<inbound, dispatched, reported, registered, enqueued, line, writer, gone>>
    BY <1>4 DEF ReadHeader, ReadDropped, Receive, ClientCloses, ClientReads, vars
  <2>2. UNCHANGED (reported > 0) /\ UNCHANGED ~gone
    BY <2>1
  <2>. QED BY <1>0, <2>1, <2>2
<1>5. CASE WritePiece
  <2>1. /\ UNCHANGED <<inbound, dispatched, reported, registered, enqueued, writer, gone>>
        /\ ~gone /\ writer = "running"
    BY <1>5 DEF WritePiece, Writing
  <2>2. UNCHANGED Words /\ UNCHANGED (reported > 0) /\ UNCHANGED ~gone
    BY <1>0, <2>1
  <2>3. UNCHANGED half \/ (half' = half + 1 /\ half < Len(enqueued))
    BY <1>5, PieceGets
  <2>. QED BY <2>1, <2>2, <2>3 DEF D!Get
<1>6. CASE Close
  <2>1. /\ UNCHANGED <<inbound, dispatched, reported, registered, enqueued, line, gone>>
        /\ ~gone /\ writer = "running" /\ writer' = "closed" /\ ~registered
        /\ unsent = <<>> /\ received = Len(enqueued)
    BY <1>6 DEF Close, Writing
  <2>2. UNCHANGED <<Words, half>> /\ UNCHANGED (reported > 0) /\ UNCHANGED ~gone
    BY <1>0, <2>1
  <2>3. half = Len(enqueued)
    <3>1. Len(unsent) = 0 /\ Len(enqueued) \in Nat
      BY <2>1 DEF TypeOK
    <3>2. Len(line) = 2 * Len(enqueued)
      BY <2>1, <3>1 DEF WriteTracked
    <3>. QED BY <3>1, <3>2
  <2>. QED BY <2>1, <2>2, <2>3 DEF D!Close
<1>7. CASE WriteFails
  <2>1. /\ UNCHANGED <<inbound, dispatched, reported, registered, enqueued, line, gone>>
        /\ ~gone /\ writer = "running" /\ writer' = "lost"
    BY <1>7 DEF WriteFails, Writing
  <2>2. UNCHANGED <<Words, half>> /\ UNCHANGED (reported > 0) /\ UNCHANGED ~gone
    BY <1>0, <2>1
  <2>. QED BY <2>1, <2>2 DEF D!Cut
<1>8. CASE MuxSends \/ AdapterLost
  <2>1. /\ UNCHANGED <<inbound, dispatched, reported, registered, line, writer, gone>>
        /\ ~gone
    BY <1>8 DEF MuxSends, AdapterLost
  <2>2. UNCHANGED <<Words, half>> /\ UNCHANGED (reported > 0) /\ UNCHANGED ~gone
    BY <1>0, <2>1
  <2>3. UNCHANGED enqueued \/ (D!Reachable /\ D!IsStrictPrefix(enqueued, enqueued'))
    <3>1. /\ <<"message">> \in Seq(Messages) /\ <<"message">> # <<>>
          /\ <<"notice", "terminated">> \in Seq(Messages)
          /\ <<"notice", "terminated">> # <<>>
      BY DEF Messages
    <3>2. Enqueue(<<"message">>) \/ Enqueue(<<"notice", "terminated">>)
      BY <1>8 DEF MuxSends, AdapterLost
    <3>. QED BY <3>1, <3>2, EnqueueTells DEF D!Reachable
  <2>. QED BY <2>1, <2>2, <2>3 DEF D!Tell
<1>9. CASE Exit
  <2>1. /\ UNCHANGED <<inbound, dispatched, reported, registered, enqueued, line, writer>>
        /\ ~gone /\ gone' = TRUE
    BY <1>9 DEF Exit
  <2>2. UNCHANGED <<Words, half>> /\ UNCHANGED (reported > 0) /\ ~gone = TRUE /\ (~gone)' = FALSE
    BY <1>0, <2>1
  <2>. QED BY <2>1, <2>2 DEF D!End
<1>10. CASE ReadFlawed \/ ReadEnds
  BY <1>3, <1>10 DEF ReadFlawed, ReadEnds
<1>11. CASE EndSession
  <2>1. /\ UNCHANGED <<inbound, dispatched, reported, enqueued, line, writer, gone>>
        /\ ~gone /\ registered /\ registered' = FALSE
    BY <1>11 DEF EndSession
  <2>2. UNCHANGED <<Words, half>> /\ UNCHANGED (reported > 0) /\ UNCHANGED ~gone
    BY <1>0, <2>1
  <2>. QED BY <2>1, <2>2 DEF D!Dismiss
<1>. QED BY <1>1, <1>2, <1>3, <1>4, <1>5, <1>6, <1>7, <1>8, <1>9, <1>10, <1>11
         DEF Next, ReadStep, WriteStep

\* The connection implements the duplex pair Mux takes it for, whatever the client
\* writes, for any number of pieces and messages.
THEOREM ConnectionIsDuplex == Spec => ImplementsDuplex
BY DuplexInit, DuplexStep, ConnectionTracked, PTL DEF Spec, ImplementsDuplex, D!Spec

=============================================================================
