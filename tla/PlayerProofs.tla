----------------------------- MODULE PlayerProofs -----------------------------
(***************************************************************************)
(* The player (player.rs), in two parts that share no state.               *)
(*                                                                         *)
(* What the playback thread lets its sink hear, for every threshold and in *)
(* every case: nothing is lost, the prebuffer comes first, and the start   *)
(* instant is that of the first frame.  The gate (released and started,    *)
(* which agree between two commands) says where the frames since the last  *)
(* flush are: all in the prebuffer while it is shut, none in it once it is *)
(* open.                                                                   *)
(*                                                                         *)
(* What the host shows of the position, for every rate and every circle of *)
(* timestamps: it follows the audio.                                       *)
(***************************************************************************)
EXTENDS PlaybackThread, Progress, SequenceTheorems, TLAPS

\* A chunk is on its way to the sink.
Feeding == state \in {"wait", "write"}

Types ==
    /\ queue \in Seq(Commands)
    /\ sent \in Nat
    /\ prebuffer \in Seq(Nat) /\ chunk \in Seq(Nat)
    /\ heard \in Seq(Nat) /\ taken \in Seq(Nat)
    /\ released \in BOOLEAN /\ started \in BOOLEAN

Gate ==
    /\ released = started
    /\ released => prebuffer = <<>>
    /\ ~ released => heard = <<>> /\ ~ Feeding
    /\ ~ Feeding => chunk = <<>>
    /\ state = "wait" => heard = <<>>
    /\ Feeding /\ heard = <<>> => Len(chunk) >= Threshold
    /\ released /\ ~ Feeding => heard # <<>>

First ==
    /\ ~ started /\ taken = <<>> => first_ts = None
    /\ ~ started /\ taken # <<>> => first_ts = taken[1]
    /\ state = "wait" => first_ts = taken[1]

IInv == Types /\ Gate /\ First /\ NothingLost /\ PrebufferFirst

------------------------------------------------------------------------------
(* Sequences. *)

\* What follows a sequence follows its end.
LEMMA AppendToConcat ==
    ASSUME NEW s \in Seq(Nat), NEW t \in Seq(Nat), NEW e \in Nat
    PROVE  s \o Append(t, e) = Append(s \o t, e)
  <1>1. <<e>> \in Seq(Nat) /\ s \o t \in Seq(Nat)
    BY ConcatProperties
  <1>2. Append(t, e) = t \o <<e>> /\ Append(s \o t, e) = (s \o t) \o <<e>>
    BY <1>1, AppendIsConcat
  <1> QED BY <1>1, <1>2, ConcatAssociative

\* The first element of what grows at its end.
LEMMA FirstOfAppend ==
    ASSUME NEW s \in Seq(Nat), NEW e \in Nat
    PROVE  Append(s, e)[1] = IF s = <<>> THEN e ELSE s[1]
  <1>1. CASE s = <<>>
    <2>1. Len(s) = 0
      BY <1>1, EmptySeq
    <2> QED BY <1>1, <2>1, AppendProperties
  <1>2. CASE s # <<>>
    <2>1. Len(s) \in Nat \ {0}
      BY <1>2, EmptySeq
    <2> QED BY <1>2, <2>1, AppendProperties
  <1> QED BY <1>1, <1>2

LEMMA EmptyEnds ==
    ASSUME NEW s \in Seq(Nat)
    PROVE  s \o <<>> = s /\ <<>> \o s = s
  BY ConcatEmptySeq

LEMMA AppendNonEmpty ==
    ASSUME NEW s \in Seq(Nat), NEW e \in Nat
    PROVE  /\ Append(s, e) \in Seq(Nat) /\ Append(s, e) # <<>>
           /\ <<e>> \in Seq(Nat) /\ <<e>> = Append(<<>>, e)
  BY AppendProperties, EmptySeq

------------------------------------------------------------------------------
LEMMA InitIInv == Init => IInv
  <1> SUFFICES ASSUME Init PROVE IInv
    OBVIOUS
  <1>1. /\ queue = <<>> /\ sent = 0 /\ state = "new"
        /\ prebuffer = <<>> /\ chunk = <<>> /\ heard = <<>> /\ taken = <<>>
        /\ released = FALSE /\ started = FALSE /\ first_ts = None
    BY DEF Init
  <1>2. <<>> \in Seq(Nat) /\ <<>> \in Seq(Commands)
    BY EmptySeq
  <1>3. Types
    BY <1>1, <1>2 DEF Types
  <1>4. Gate /\ First /\ PrebufferFirst
    BY <1>1 DEF Gate, First, PrebufferFirst, Feeding
  <1>5. NothingLost
    BY <1>1, <1>2, EmptyEnds DEF NothingLost
  <1> QED BY <1>3, <1>4, <1>5 DEF IInv

\* Steps that leave the playout alone, and either where the thread stands or
\* that no chunk is on its way.
LEMMA ElsewhereIInv ==
    ASSUME IInv, UNCHANGED playout, queue' \in Seq(Commands), sent' \in Nat,
           \/ state' = state
           \/ state \notin {"wait", "write"} /\ state' \notin {"wait", "write"}
    PROVE  IInv'
  <1>1. /\ prebuffer' = prebuffer /\ released' = released /\ started' = started
        /\ first_ts' = first_ts /\ chunk' = chunk /\ heard' = heard /\ taken' = taken
    BY DEF playout
  <1>2. (Feeding' = Feeding) /\ ((state' = "wait") => (state = "wait"))
    BY DEF Feeding
  <1>3. Types'
    BY <1>1 DEF IInv, Types
  <1>4. Gate'
    BY <1>1, <1>2 DEF IInv, Gate
  <1>5. First'
    BY <1>1, <1>2 DEF IInv, First
  <1>6. NothingLost' /\ PrebufferFirst'
    BY <1>1 DEF IInv, NothingLost, PrebufferFirst
  <1> QED BY <1>3, <1>4, <1>5, <1>6 DEF IInv

LEMMA QueueTypes ==
    ASSUME IInv, queue # <<>>
    PROVE  Head(queue) \in Commands /\ Tail(queue) \in Seq(Commands)
  BY HeadTailProperties DEF IInv, Types

LEMMA TaskIInv ==
    ASSUME IInv, TaskPlays \/ TaskFlushes
    PROVE  IInv'
  <1>1. PICK command \in Commands : TaskSends(command)
    <2>1. CASE TaskPlays
      <3>1. PICK kind \in FrameKinds : TaskSends([kind |-> kind, ts |-> sent])
        BY <2>1 DEF TaskPlays
      <3>2. [kind |-> kind, ts |-> sent] \in Commands
        BY DEF Commands, IInv, Types
      <3> QED BY <3>1, <3>2
    <2>2. CASE TaskFlushes
      BY <2>2 DEF TaskFlushes, Commands
    <2> QED BY <2>1, <2>2
  <1>2. queue' \in Seq(Commands)
    BY <1>1, AppendProperties DEF TaskSends, IInv, Types
  <1>3. UNCHANGED playout /\ state' = state /\ sent' \in Nat
    BY <1>1 DEF TaskSends, IInv, Types
  <1> QED BY <1>2, <1>3, ElsewhereIInv

LEMMA SessionIInv ==
    ASSUME IInv, StopTasks \/ TaskGone \/ DropPlayer \/ Joined
    PROVE  IInv'
  <1>1. [kind |-> "stop"] \in Commands
    BY DEF Commands
  <1>2. queue' \in Seq(Commands)
    <2>1. queue \in Seq(Commands)
      BY DEF IInv, Types
    <2>2. queue' = queue \/ queue' = Append(queue, [kind |-> "stop"])
      BY DEF StopTasks, TaskGone, DropPlayer, Joined
    <2> QED BY <1>1, <2>1, <2>2, AppendProperties
  <1>3. UNCHANGED playout /\ state' = state /\ sent' \in Nat
    BY DEF StopTasks, TaskGone, DropPlayer, Joined, IInv, Types
  <1> QED BY <1>2, <1>3, ElsewhereIInv

LEMMA ThreadMovesIInv ==
    ASSUME IInv, Start \/ Drain \/ Quit \/ DropUndecodable
    PROVE  IInv'
  <1>1. UNCHANGED playout /\ sent' \in Nat
    BY DEF Start, Drain, Quit, Ends, DropUndecodable, Receive, IInv, Types
  <1>2. queue' \in Seq(Commands)
    BY QueueTypes, EmptySeq DEF Start, Drain, Quit, Ends, DropUndecodable, Receive, IInv, Types
  <1>3. \/ state' = state
        \/ state \notin {"wait", "write"} /\ state' \notin {"wait", "write"}
    BY DEF Start, Drain, Quit, Ends, DropUndecodable
  <1> QED BY <1>1, <1>2, <1>3, ElsewhereIInv

LEMMA DueIInv ==
    ASSUME IInv, Due
    PROVE  IInv'
  <1>1. /\ state = "wait" /\ state' = "write" /\ queue' = queue /\ sent' = sent
        /\ prebuffer' = prebuffer /\ released' = released /\ started' = started
        /\ first_ts' = first_ts /\ chunk' = chunk /\ heard' = heard /\ taken' = taken
    BY DEF Due, playout
  <1>2. Feeding /\ Feeding'
    BY <1>1 DEF Feeding
  <1>3. Types' /\ NothingLost' /\ PrebufferFirst'
    BY <1>1 DEF IInv, Types, NothingLost, PrebufferFirst
  <1>4. Gate' /\ First'
    BY <1>1, <1>2 DEF IInv, Gate, First
  <1> QED BY <1>3, <1>4 DEF IInv

LEMMA FlushIInv ==
    ASSUME IInv, Flush
    PROVE  IInv'
  <1>1. /\ state = "recv" /\ state' = "recv" /\ queue # <<>> /\ queue' = Tail(queue)
        /\ sent' = sent /\ chunk' = chunk
        /\ prebuffer' = <<>> /\ released' = FALSE /\ started' = FALSE /\ first_ts' = None
        /\ heard' = <<>> /\ taken' = <<>>
    BY DEF Flush, ResetPlayout, Receive
  <1>2. ~ Feeding /\ ~ Feeding'
    BY <1>1 DEF Feeding
  <1>3. chunk = <<>> /\ chunk' = <<>>
    BY <1>1, <1>2 DEF IInv, Gate
  <1>4. Types'
    BY <1>1, <1>3, QueueTypes, EmptySeq DEF IInv, Types
  <1>5. Gate' /\ First' /\ PrebufferFirst'
    BY <1>1, <1>2, <1>3 DEF Gate, First, PrebufferFirst
  <1>6. NothingLost'
    BY <1>1, <1>3, EmptyEnds, EmptySeq DEF NothingLost
  <1> QED BY <1>4, <1>5, <1>6 DEF IInv

LEMMA WriteIInv ==
    ASSUME IInv, Write
    PROVE  IInv'
  <1>1. /\ state = "write" /\ state' = "recv" /\ queue' = queue /\ sent' = sent
        /\ prebuffer' = prebuffer /\ released' = released /\ started' = started
        /\ first_ts' = first_ts /\ taken' = taken
        /\ heard' = heard \o chunk /\ chunk' = <<>>
    BY DEF Write
  <1>2. Feeding /\ ~ Feeding'
    BY <1>1 DEF Feeding
  <1>3. released /\ started /\ prebuffer = <<>>
    BY <1>2 DEF IInv, Gate, Types
  <1>4. heard \in Seq(Nat) /\ chunk \in Seq(Nat)
    BY DEF IInv, Types
  <1>5. /\ heard \o chunk \in Seq(Nat)
        /\ Len(heard \o chunk) = Len(heard) + Len(chunk)
        /\ Len(heard) \in Nat /\ Len(chunk) \in Nat
    BY <1>4, ConcatProperties, LenProperties
  <1>6. Len(heard \o chunk) >= Threshold
    <2>1. CASE heard = <<>>
      BY <2>1, <1>2, <1>5, PlaybackAssumption DEF IInv, Gate
    <2>2. CASE heard # <<>>
      BY <2>2, <1>5, PlaybackAssumption DEF IInv, PrebufferFirst
    <2> QED BY <2>1, <2>2
  <1>7. heard \o chunk # <<>>
    BY <1>6, EmptySeq, PlaybackAssumption
  <1>8. Types'
    BY <1>1, <1>5, EmptySeq DEF IInv, Types
  <1>9. Gate' /\ First'
    BY <1>1, <1>2, <1>3, <1>7 DEF Gate, First, IInv
  <1>10. PrebufferFirst'
    BY <1>1, <1>6 DEF PrebufferFirst
  <1>11. NothingLost'
    <2>1. (heard \o chunk) \o <<>> = heard \o chunk
      BY <1>5, EmptyEnds
    <2> QED BY <1>1, <1>3, <2>1 DEF NothingLost, IInv
  <1> QED BY <1>8, <1>9, <1>10, <1>11 DEF IInv

LEMMA FeedIInv ==
    ASSUME IInv, Feed
    PROVE  IInv'
  <1> DEFINE stamp == Head(queue).ts
             pushed == Append(prebuffer, stamp)
             chunked == released \/ Enough(pushed)
  <1>1. /\ state = "recv" /\ queue # <<>> /\ queue' = Tail(queue) /\ sent' = sent
        /\ Head(queue).kind \in {"frame", "silence"}
        /\ taken' = Append(taken, stamp) /\ heard' = heard
        /\ first_ts' = IF ~ started /\ first_ts = None THEN stamp ELSE first_ts
        /\ chunk' = IF released THEN <<stamp>> ELSE IF chunked THEN pushed ELSE <<>>
        /\ prebuffer' = IF chunked THEN <<>> ELSE pushed
        /\ released' = chunked /\ started' = (started \/ chunked)
        /\ state' = IF ~ chunked THEN "recv" ELSE IF started THEN "write" ELSE "wait"
    BY DEF Feed, Receive
  <1>2. stamp \in Nat
    BY <1>1, QueueTypes DEF Commands
  <1>3. /\ ~ Feeding /\ chunk = <<>>
        /\ prebuffer \in Seq(Nat) /\ heard \in Seq(Nat) /\ taken \in Seq(Nat)
        /\ released \in BOOLEAN /\ started \in BOOLEAN /\ released = started
    BY <1>1 DEF Feeding, IInv, Gate, Types
  <1>4. /\ pushed \in Seq(Nat) /\ pushed # <<>>
        /\ <<stamp>> \in Seq(Nat) /\ <<stamp>> = Append(<<>>, stamp)
        /\ taken' \in Seq(Nat) /\ taken' # <<>>
        /\ <<>> \in Seq(Nat)
    BY <1>1, <1>2, <1>3, AppendNonEmpty, EmptySeq
  <1>5. /\ taken = heard \o prebuffer
        /\ taken'[1] = IF taken = <<>> THEN stamp ELSE taken[1]
    <2>1. heard \o chunk = heard
      BY <1>3, EmptyEnds
    <2> QED BY <1>1, <1>2, <1>3, <2>1, FirstOfAppend DEF IInv, NothingLost
  <1>6. Enough(pushed) => Len(pushed) >= Threshold
    BY DEF Enough
  <1>7. /\ queue' \in Seq(Commands) /\ sent' \in Nat
    BY <1>1, QueueTypes DEF IInv, Types
  <1>8. ~ started => first_ts' = taken'[1]
    <2>1. CASE taken = <<>>
      BY <2>1, <1>1, <1>5 DEF IInv, First
    <2>2. CASE taken # <<>> /\ ~ started
      <3>1. first_ts = taken[1] /\ taken[1] \in Nat
        <4>1. Len(taken) \in Nat \ {0}
          BY <2>2, <1>3, EmptySeq
        <4> QED BY <2>2, <1>3, <4>1, ElementOfSeq DEF IInv, First
      <3> QED BY <2>2, <3>1, <1>1, <1>5, NoneIsNoNumber
    <2> QED BY <2>1, <2>2
  <1>9. CASE released
    <2>1. /\ chunked /\ prebuffer = <<>> /\ heard # <<>> /\ Len(heard) >= Threshold
      BY <1>9, <1>3 DEF IInv, Gate, PrebufferFirst
    <2>2. /\ chunk' = <<stamp>> /\ prebuffer' = <<>> /\ released' /\ started' /\ state' = "write"
          /\ heard' = heard /\ started' = TRUE /\ released' = TRUE
      BY <1>9, <2>1, <1>1, <1>3
    <2>3. Feeding'
      BY <2>2 DEF Feeding
    <2>4. Types'
      BY <1>3, <1>4, <1>7, <2>2 DEF Types
    <2>5. Gate' /\ First' /\ PrebufferFirst'
      BY <2>1, <2>2, <2>3 DEF Gate, First, PrebufferFirst
    <2>6. NothingLost'
      <3>1. heard \o <<stamp>> = Append(heard, stamp) /\ heard \o <<>> = heard
        BY <1>2, <1>3, <1>4, AppendToConcat, EmptyEnds
      <3>2. Append(heard, stamp) \in Seq(Nat) /\ taken = heard
        BY <1>2, <1>3, <1>5, <2>1, <3>1, AppendNonEmpty
      <3>3. Append(heard, stamp) \o <<>> = Append(heard, stamp)
        BY <3>2, EmptyEnds
      <3> QED BY <1>1, <2>2, <3>1, <3>2, <3>3 DEF NothingLost
    <2> QED BY <2>4, <2>5, <2>6 DEF IInv
  <1>10. ASSUME ~ released PROVE heard = <<>> /\ taken = prebuffer /\ taken' = pushed
    <2>1. heard = <<>>
      BY <1>10 DEF IInv, Gate
    <2> QED BY <2>1, <1>1, <1>3, <1>5, EmptyEnds
  <1>11. CASE ~ released /\ Enough(pushed)
    <2>1. /\ chunk' = pushed /\ prebuffer' = <<>> /\ released' = TRUE /\ started' = TRUE
          /\ state' = "wait" /\ heard' = <<>>
      BY <1>11, <1>1, <1>3, <1>10
    <2>2. Feeding' /\ Len(chunk') >= Threshold
      BY <1>6, <1>11, <2>1 DEF Feeding
    <2>3. Types'
      BY <1>3, <1>4, <1>7, <2>1 DEF Types
    <2>4. Gate' /\ PrebufferFirst'
      BY <2>1, <2>2 DEF Gate, PrebufferFirst
    <2>5. First'
      BY <1>3, <1>8, <1>11, <2>1 DEF First
    <2>6. NothingLost'
      <3>1. <<>> \o pushed = pushed /\ pushed \o <<>> = pushed
        BY <1>4, EmptyEnds
      <3> QED BY <1>10, <1>11, <2>1, <3>1 DEF NothingLost
    <2> QED BY <2>3, <2>4, <2>5, <2>6 DEF IInv
  <1>12. CASE ~ released /\ ~ Enough(pushed)
    <2>1. /\ chunk' = <<>> /\ prebuffer' = pushed /\ released' = FALSE /\ started' = FALSE
          /\ state' = "recv" /\ heard' = <<>>
      BY <1>12, <1>1, <1>3, <1>10
    <2>2. ~ Feeding'
      BY <2>1 DEF Feeding
    <2>3. Types'
      BY <1>3, <1>4, <1>7, <2>1 DEF Types
    <2>4. Gate' /\ PrebufferFirst'
      BY <2>1, <2>2 DEF Gate, PrebufferFirst
    <2>5. First'
      BY <1>3, <1>4, <1>8, <1>12, <2>1 DEF First
    <2>6. NothingLost'
      <3>1. <<>> \o <<>> = <<>> /\ <<>> \o pushed = pushed
        BY <1>4, EmptyEnds
      <3> QED BY <1>10, <1>12, <2>1, <3>1 DEF NothingLost
    <2> QED BY <2>3, <2>4, <2>5, <2>6 DEF IInv
  <1> QED BY <1>9, <1>11, <1>12

------------------------------------------------------------------------------
LEMMA NextIInv == IInv /\ [Next]_vars => IInv'
  <1> SUFFICES ASSUME IInv, [Next]_vars PROVE IInv'
    OBVIOUS
  <1>1. CASE TaskPlays \/ TaskFlushes
    BY <1>1, TaskIInv
  <1>2. CASE StopTasks \/ TaskGone \/ DropPlayer \/ Joined
    BY <1>2, SessionIInv
  <1>3. CASE Start \/ Drain \/ Quit \/ DropUndecodable
    BY <1>3, ThreadMovesIInv
  <1>4. CASE Feed
    BY <1>4, FeedIInv
  <1>5. CASE Due
    BY <1>5, DueIInv
  <1>6. CASE Write
    BY <1>6, WriteIInv
  <1>7. CASE Flush
    BY <1>7, FlushIInv
  <1>8. CASE UNCHANGED vars
    <2>1. UNCHANGED playout /\ queue' = queue /\ sent' = sent /\ state' = state
      BY <1>8 DEF vars
    <2>2. queue' \in Seq(Commands) /\ sent' \in Nat
      BY <2>1 DEF IInv, Types
    <2> QED BY <2>1, <2>2, ElsewhereIInv
  <1> QED BY <1>1, <1>2, <1>3, <1>4, <1>5, <1>6, <1>7, <1>8 DEF Next, Thread

\* The gate agrees with where the frames since the last flush are, after every
\* step of the thread and of those who send it commands (Playout).
THEOREM Invariant == Spec => []IInv
  BY InitIInv, NextIInv, PTL DEF Spec

\* While the thread waits, all that was taken since the flush is in the chunk.
LEMMA WaitsWithChunk == IInv => StartsOnFirstFrame
  <1> SUFFICES ASSUME IInv, state = "wait"
               PROVE  heard = <<>> /\ first_ts = chunk[1] /\ first_ts = taken[1]
    BY DEF StartsOnFirstFrame
  <1>1. heard = <<>> /\ first_ts = taken[1]
    BY DEF IInv, Gate, First
  <1>2. prebuffer = <<>>
    BY DEF IInv, Gate, Types, Feeding
  <1>3. chunk \in Seq(Nat) /\ (<<>> \o chunk) \o <<>> = chunk
    BY EmptyEnds DEF IInv, Types
  <1>4. taken = chunk
    BY <1>1, <1>2, <1>3 DEF IInv, NothingLost
  <1> QED BY <1>1, <1>4

\* Every audible frame since the last flush is heard, about to be, or in the
\* prebuffer, once and in order.
THEOREM NothingLostTheorem == Spec => []NothingLost
  <1>1. IInv => NothingLost
    BY DEF IInv
  <1> QED BY <1>1, Invariant, PTL

\* The sink hears nothing before the prebuffer filled, after every flush again.
THEOREM PrebufferTheorem == Spec => []PrebufferFirst
  <1>1. IInv => PrebufferFirst
    BY DEF IInv
  <1> QED BY <1>1, Invariant, PTL

\* The start instant that is awaited is that of the frame heard first.
THEOREM StartTheorem == Spec => []StartsOnFirstFrame
  BY WaitsWithChunk, Invariant, PTL

------------------------------------------------------------------------------
(* The position.  Once a frame was played after the last progress line,    *)
(* the second reported is that of the frame, and either the host was told  *)
(* of that very second or all that was played since lies within it.        *)

Tracks == [start : Stamps, end : Stamps]
Positions == [elapsed : Nat, duration : Nat]

\* Where the timestamp lies in the track.
Offset(at) == wrapping_sub(at, track.start)

\* All that was played since the last progress line is of the second of at.
WithinSecond(at) == since <= (Offset(at) % Rate) + 1

Reporting ==
    /\ extent(track, Last) # Nothing
    /\ reported = extent(track, Last).elapsed
    /\ shown = extent(track, Last) \/ WithinSecond(Last)

\* The thread is about to report the frame, from a copy that is not old.
Copied ==
    /\ copy = track
    /\ extent(track, ts) # Nothing
    /\ extent(track, ts).elapsed = reported => shown = extent(track, ts) \/ WithinSecond(ts)

ProgressTypes ==
    /\ track \in Tracks \cup {Nothing}
    /\ line \in Positions \cup {Nothing}
    /\ ts \in Stamps /\ since \in Nat
    /\ played \in {"idle", "report"}

Follows ==
    line = Nothing /\ since > 0 =>
        /\ track # Nothing
        /\ played = "idle" => Reporting
        /\ played = "report" => Copied

ProgressInv == ProgressTypes /\ Follows

LEMMA NoTrackIsNothing == Nothing \notin Tracks /\ Nothing \notin Positions
  BY ProgressAssumption DEF Tracks, Positions, Stamps

\* Timestamps wrap, once, forwards and backwards.
LEMMA Wraps ==
    ASSUME NEW at \in Stamps
    PROVE  /\ wrapping_add(at, 1) \in Stamps
           /\ wrapping_sub(wrapping_add(at, 1), 1) = at
           /\ wrapping_sub(at, 1) \in Stamps
           /\ at = wrapping_add(wrapping_sub(at, 1), 1)
  BY ProgressAssumption DEF Stamps, wrapping_add, wrapping_sub

LEMMA OffsetRange ==
    ASSUME NEW at \in Stamps, NEW start \in Stamps
    PROVE  wrapping_sub(at, start) \in Stamps
  BY ProgressAssumption DEF Stamps, wrapping_sub

\* The next frame lies one further in the track, or at its start again where
\* the track is as long as the circle.
LEMMA OffsetAdvances ==
    ASSUME NEW at \in Stamps, NEW start \in Stamps
    PROVE  \/ wrapping_sub(at, start) = wrapping_sub(wrapping_sub(at, 1), start) + 1
           \/ /\ wrapping_sub(at, start) = 0
              /\ wrapping_sub(wrapping_sub(at, 1), start) = Space - 1
  BY ProgressAssumption DEF Stamps, wrapping_sub

LEMMA Seconds ==
    ASSUME NEW o \in Nat
    PROVE  /\ o \div Rate \in Nat /\ o % Rate \in 0..(Rate - 1)
           /\ o = Rate * (o \div Rate) + (o % Rate)
  BY ProgressAssumption DEF Stamps

\* Two frames that follow each other in the same second.
LEMMA SameSecond ==
    ASSUME NEW at \in Stamps, NEW start \in Stamps,
           wrapping_sub(at, start) \div Rate
               = wrapping_sub(wrapping_sub(at, 1), start) \div Rate
    PROVE  wrapping_sub(at, start) % Rate
               = (wrapping_sub(wrapping_sub(at, 1), start) % Rate) + 1
  <1> DEFINE o == wrapping_sub(at, start)
             p == wrapping_sub(wrapping_sub(at, 1), start)
             q == o \div Rate
             m == o % Rate
             n == p % Rate
  <1>1. o \in Nat /\ p \in Nat
    BY OffsetRange, Wraps DEF Stamps
  <1>2. o = p + 1 \/ (o = 0 /\ p = Space - 1)
    BY OffsetAdvances
  <1>3. /\ q \in Nat /\ m \in Nat /\ n \in Nat /\ m < Rate /\ n < Rate
        /\ o = Rate * q + m /\ p = Rate * q + n
    <2>1. q \in Nat /\ m \in 0..(Rate - 1) /\ o = Rate * q + m
      BY <1>1, Seconds
    <2>2. n \in 0..(Rate - 1) /\ p = Rate * (p \div Rate) + n
      BY <1>1, Seconds
    <2>3. q = p \div Rate
      OBVIOUS
    <2> HIDE DEF o, p, q, m, n
    <2> QED BY <2>1, <2>2, <2>3, ProgressAssumption
  <1> HIDE DEF o, p, q, m, n
  <1>4. Rate * q \in Nat
    BY <1>3, ProgressAssumption
  <1>5. CASE o = p + 1
    <2>1. m = n + 1
      BY <1>1, <1>3, <1>4, <1>5
    <2> QED BY <2>1 DEF m, n, o, p
  <1>6. CASE o = 0 /\ p = Space - 1
    BY <1>1, <1>3, <1>4, <1>6, ProgressAssumption
  <1> QED BY <1>2, <1>5, <1>6

\* What extent says of a timestamp inside of the track.
LEMMA ExtentInside ==
    ASSUME NEW t \in Tracks, NEW at \in Stamps, extent(t, at) # Nothing
    PROVE  /\ extent(t, at) = [elapsed |-> wrapping_sub(at, t.start) \div Rate,
                               duration |-> wrapping_sub(t.end, t.start)]
           /\ extent(t, at).elapsed = wrapping_sub(at, t.start) \div Rate
  BY DEF extent

LEMMA InitProgressInv == ProgressInit => ProgressInv
  BY ProgressAssumption DEF ProgressInit, ProgressInv, ProgressTypes, Follows, Stamps

LEMMA SetTrackProgressInv ==
    ASSUME ProgressInv, NEW start \in Starts, NEW total \in 1..MaxTotal,
           NEW current \in Stamps, SetTrack(start, total, current)
    PROVE  ProgressInv'
  <1> DEFINE end == wrapping_add(start, total)
  <1>1. start \in Stamps /\ end \in Stamps
    BY ProgressAssumption DEF Stamps, wrapping_add
  <1>2. track' \in Tracks
    BY <1>1 DEF SetTrack, Tracks
  <1>3. saturating_sub(current, start) \in Nat /\ saturating_sub(end, start) \in Nat
    BY <1>1 DEF saturating_sub, Stamps
  <1>4. line' \in Positions
    BY <1>3, Seconds DEF SetTrack, Positions
  <1> QED BY <1>2, <1>4, NoTrackIsNothing DEF SetTrack, ProgressInv, ProgressTypes, Follows

LEMMA CopyTrackProgressInv ==
    ASSUME ProgressInv, CopyTrack
    PROVE  ProgressInv'
  <1>1. /\ played = "idle" /\ played' = "report" /\ track # Nothing
        /\ copy' = track /\ since' = Counted
        /\ track' = track /\ line' = line /\ ts' = ts /\ reported' = reported /\ shown' = shown
    BY DEF CopyTrack
  <1>2. /\ track \in Tracks /\ line \in Positions \cup {Nothing} /\ ts \in Stamps
        /\ since \in Nat /\ since' \in Nat
    BY <1>1, ProgressAssumption DEF ProgressInv, ProgressTypes, Counted
  <1>3. ProgressTypes'
    BY <1>1, <1>2 DEF ProgressTypes
  <1>4. ASSUME line = Nothing, since' > 0 PROVE Copied'
    <2>1. extent(track, ts) # Nothing
      BY <1>1, <1>4 DEF Counted
    <2>2. since' = since \/ since' = since + 1
      BY <1>1, <1>4, <2>1 DEF Counted
    <2>3. since > Rate => since' = since
      BY <1>1, <1>4, <2>1 DEF Counted
    <2> DEFINE o == wrapping_sub(ts, track.start)
               p == wrapping_sub(wrapping_sub(ts, 1), track.start)
    <2>4. track.start \in Stamps /\ o \in Nat /\ p \in Nat
      BY <1>2, Wraps, OffsetRange DEF Tracks, Stamps
    <2>5. /\ o % Rate \in Nat /\ p % Rate \in Nat
      BY <2>4, Seconds
    <2>6. ASSUME extent(track, ts).elapsed = reported
          PROVE  shown = extent(track, ts) \/ since' <= (o % Rate) + 1
      <3>1. CASE since = 0
        BY <3>1, <2>2, <2>5
      <3>2. CASE since > 0
        <4>1. Reporting
          BY <1>1, <1>4, <3>2 DEF ProgressInv, Follows
        <4>2. /\ extent(track, ts).elapsed = o \div Rate
              /\ extent(track, Last).elapsed = p \div Rate
              /\ extent(track, ts).duration = extent(track, Last).duration
          BY <1>2, <2>1, <4>1, Wraps, ExtentInside DEF Reporting, Last
        <4>3. o \div Rate = p \div Rate
          BY <2>6, <4>1, <4>2 DEF Reporting
        <4>4. o % Rate = (p % Rate) + 1
          BY <1>2, <2>4, <4>3, SameSecond
        <4>5. CASE shown = extent(track, Last)
          <5>1. extent(track, ts) = extent(track, Last)
            BY <1>2, <2>1, <4>1, <4>3, Wraps, ExtentInside DEF Reporting, Last
          <5> QED BY <4>5, <5>1
        <4>6. CASE since <= (p % Rate) + 1
          BY <4>4, <4>6, <2>2, <2>5, <1>2
        <4> QED BY <4>1, <4>5, <4>6 DEF Reporting, WithinSecond, Offset, Last
      <3> QED BY <3>1, <3>2, <1>2
    <2> QED BY <1>1, <2>1, <2>6 DEF Copied, WithinSecond, Offset
  <1> QED BY <1>1, <1>3, <1>4 DEF ProgressInv, Follows

LEMMA ReportProgressInv ==
    ASSUME ProgressInv, Report
    PROVE  ProgressInv'
  <1>1. /\ played = "report" /\ played' = "idle" /\ ts' = wrapping_add(ts, 1)
        /\ track' = track /\ line' = line /\ since' = since
    BY DEF Report
  <1>2. /\ track \in Tracks \cup {Nothing} /\ ts \in Stamps /\ since \in Nat
    BY DEF ProgressInv, ProgressTypes
  <1>3. ProgressTypes'
    BY <1>1, <1>2, Wraps DEF ProgressInv, ProgressTypes
  <1>4. Last' = ts
    BY <1>1, <1>2, Wraps DEF Last
  <1>5. ASSUME line = Nothing, since > 0 PROVE track # Nothing /\ Reporting'
    <2>1. Copied /\ track # Nothing
      BY <1>1, <1>5 DEF ProgressInv, Follows
    <2> DEFINE position == extent(track, ts)
    <2>2. /\ position # Nothing /\ copy = track
      BY <2>1 DEF Copied
    <2>3. /\ reported' = position.elapsed
          /\ shown' = IF position.elapsed # reported THEN position ELSE shown
      BY <2>2 DEF Report, News
    <2>4. shown' = position \/ WithinSecond(ts)
      BY <2>1, <2>3 DEF Copied
    <2>5. WithinSecond(ts) => (WithinSecond(Last))'
      BY <1>1, <1>4 DEF WithinSecond, Offset
    <2> QED BY <1>1, <1>4, <2>1, <2>2, <2>3, <2>4, <2>5 DEF Reporting
  <1> QED BY <1>1, <1>3, <1>5 DEF ProgressInv, Follows

LEMMA NextProgressInv == ProgressInv /\ [ProgressNext]_progressVars => ProgressInv'
  <1> SUFFICES ASSUME ProgressInv, [ProgressNext]_progressVars PROVE ProgressInv'
    OBVIOUS
  <1>1. ASSUME NEW start \in Starts, NEW total \in 1..MaxTotal, NEW current \in Stamps,
               SetTrack(start, total, current)
        PROVE  ProgressInv'
    BY <1>1, SetTrackProgressInv
  <1>2. CASE SendProgress
    BY <1>2 DEF SendProgress, ProgressInv, ProgressTypes, Follows
  <1>3. CASE CopyTrack
    BY <1>3, CopyTrackProgressInv
  <1>4. CASE Report
    BY <1>4, ReportProgressInv
  <1>5. CASE PlayUnanchored
    BY <1>5, Wraps DEF PlayUnanchored, ProgressInv, ProgressTypes, Follows
  <1>6. ASSUME NEW to \in Starts, Jump(to) PROVE ProgressInv'
    BY <1>6, ProgressAssumption DEF Jump, ProgressInv, ProgressTypes, Follows, Stamps
  <1>7. CASE UNCHANGED progressVars
    <2>1. Last' = Last
      BY <1>7 DEF progressVars, Last
    <2>2. Follows' = Follows /\ ProgressTypes' = ProgressTypes
      BY <1>7, <2>1 DEF progressVars, Follows, ProgressTypes, Reporting, Copied, WithinSecond, Offset
    <2> QED BY <2>2 DEF ProgressInv
  <1> QED BY <1>1, <1>2, <1>3, <1>4, <1>5, <1>6, <1>7 DEF ProgressNext

\* After a second of audio inside the track, without a progress line or a jump
\* between, the host shows where the audio is: for every rate and circle of
\* timestamps, although reports are made outside of the lock (Position::played
\* and set_progress).
THEOREM FollowsTheorem == ProgressSpec => []FollowsAudio
  <1>1. ProgressInv => FollowsAudio
    <2> SUFFICES ASSUME ProgressInv, played = "idle", line = Nothing, since > Rate
                 PROVE  shown = extent(track, Last)
      BY DEF FollowsAudio
    <2>1. since \in Nat /\ since > 0
      BY ProgressAssumption DEF ProgressInv, ProgressTypes
    <2>2. Reporting /\ track # Nothing
      BY <2>1 DEF ProgressInv, Follows
    <2>3. Last \in Stamps /\ track.start \in Stamps
      BY <2>2, Wraps DEF ProgressInv, ProgressTypes, Last, Tracks
    <2>4. Offset(Last) \in Nat
      BY <2>3, OffsetRange DEF Offset, Stamps
    <2>5. ~ WithinSecond(Last)
      <3>1. Offset(Last) % Rate \in 0..(Rate - 1)
        BY <2>4, Seconds
      <3> QED BY <2>1, <3>1, ProgressAssumption DEF WithinSecond
    <2> QED BY <2>2, <2>5 DEF Reporting
  <1> QED BY <1>1, InitProgressInv, NextProgressInv, PTL DEF ProgressSpec
=============================================================================
