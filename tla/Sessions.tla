------------------------------- MODULE Sessions -------------------------------
(***************************************************************************)
(* RTSP connections, the streaming slot they share, the playback threads   *)
(* that own the sinks, and the events the host receives (session.rs,       *)
(* server.rs, and the life cycle part of player.rs).                       *)
(*                                                                         *)
(* A connection handles one request at a time; pc[c] says where its        *)
(* handler is.  A handler is cut into steps where another thread can see   *)
(* the difference: an event sent, the slot taken or released, a sink       *)
(* created, a playback thread joined.                                      *)
(***************************************************************************)
EXTENDS Integers, Sequences, FiniteSets

CONSTANTS Conns,      \* RTSP connections
          Threads,    \* playback threads; a finished one is reused
          Kinds,      \* of the latched events: a subset of {"Metadata", "Artwork"}
          Values,     \* contents of the latched events
          MaxStarts,  \* bound: sessions a sender starts without ending one; with
                      \* 1 no sender sends a second SETUP without TEARDOWN
          BadRequests,\* may SETUP fail after it took the slot?
          Password,   \* is the receiver protected by one?
          None

ASSUME SessionsAssumption ==
    /\ MaxStarts \in Nat /\ BadRequests \in BOOLEAN /\ Password \in BOOLEAN
    /\ None \notin Conns \cup Threads \cup Values
    /\ Kinds \subseteq {"Metadata", "Artwork"}

VARIABLES
    sender,     \* the other end: "gone", a "stranger" who does not know the
                \* password, a "guest" who does, or "authorized"
    pc,         \* where the connection's handler is
    params,     \* did ANNOUNCE store stream parameters?
    slot,       \* the shared AtomicBool of SessionSlot
    guard,      \* does the session hold a SlotGuard?
    streaming,  \* Session::streaming
    pending,    \* pending_metadata and pending_artwork
    track,      \* is the track anchor set?
    player,     \* the playback thread of Session::player, or None
    old,        \* the player SETUP replaced, while it is being dropped
    flushing,   \* where a FLUSH is on its way: "no", "task" or "player"
    thread,     \* per playback thread: the session it plays for, its state
                \* ("drain" for one that has no decoder), the stop flag.  Its
                \* sink lives while it is not "free".
    events,     \* what the last step sent to the host
    open,       \* history: SessionStarted minus SessionEnded
    told,       \* history: what the sender last said, for the current or next session
    shown       \* history: what the host was last told in the current session

sessionVars == <<params, guard, streaming, pending, track, player, old>>
vars == <<sender, pc, params, slot, guard, streaming, pending, track, player, old,
          flushing, thread, events, open, told, shown>>

Nothing == [k \in Kinds |-> None]
Free == [conn |-> None, state |-> "free", stop |-> FALSE]

Init ==
    /\ sender = [c \in Conns |-> "gone"]
    /\ pc = [c \in Conns |-> "closed"]
    /\ params = [c \in Conns |-> FALSE]
    /\ slot = FALSE
    /\ guard = [c \in Conns |-> FALSE]
    /\ streaming = [c \in Conns |-> FALSE]
    /\ pending = [c \in Conns |-> Nothing]
    /\ track = [c \in Conns |-> FALSE]
    /\ player = [c \in Conns |-> None]
    /\ old = [c \in Conns |-> None]
    /\ flushing = [c \in Conns |-> "no"]
    /\ thread = [t \in Threads |-> Free]
    /\ events = <<>>
    /\ open = [c \in Conns |-> 0]
    /\ told = [c \in Conns |-> Nothing]
    /\ shown = [c \in Conns |-> Nothing]

EventKinds == {"Started", "Volume", "Metadata", "Artwork", "Progress", "Flushed", "Ended"}

Event(kind, c) == [kind |-> kind, conn |-> c]

Goto(c, label) == pc' = [pc EXCEPT ![c] = label]

------------------------------------------------------------------------------
(* Connecting, the password, ANNOUNCE, SETUP. *)

\* handle_connection creates a fresh Session.
Connect(c) ==
    /\ pc[c] = "closed"
    /\ \E s \in {"stranger", "guest"} : sender' = [sender EXCEPT ![c] = s]
    /\ Goto(c, "idle")
    /\ params' = [params EXCEPT ![c] = FALSE]
    /\ pending' = [pending EXCEPT ![c] = Nothing]
    /\ told' = [told EXCEPT ![c] = Nothing]
    /\ events' = <<>>
    /\ UNCHANGED <<slot, guard, streaming, track, player, old, flushing, thread, open, shown>>

\* Mutant: every sender is let in.
AnyoneAdmitted(c) ==
    /\ pc[c] = "idle"
    /\ sender' = sender

\* authenticate, which dispatch calls before any method: without a password
\* every request passes; with one, only the requests of a connection whose
\* sender has answered the challenge of the connection, now or before.  The
\* others get a 401, and nothing else changes.
Admitted(c) ==
    /\ pc[c] = "idle"
    /\ Password => sender[c] \in {"guest", "authorized"}
    /\ sender' = [sender EXCEPT ![c] = "authorized"]

\* A refused ANNOUNCE changes nothing.
Announce(c) ==
    /\ pc[c] = "idle"
    /\ params' = [params EXCEPT ![c] = TRUE]
    /\ events' = <<>>
    /\ UNCHANGED <<pc, slot, guard, streaming, pending, track, player, old, flushing,
                   thread, open, told, shown>>

\* The head of handle_setup, up to the await of bind_three: 455 without
\* parameters and 453 when the slot is taken change nothing.
Setup(c) ==
    /\ pc[c] = "idle" /\ params[c]
    /\ open[c] < MaxStarts
    /\ guard[c] \/ ~ slot
    /\ slot' = TRUE
    /\ guard' = [guard EXCEPT ![c] = TRUE]
    /\ Goto(c, "setup")
    /\ events' = <<>>
    /\ UNCHANGED <<params, streaming, pending, track, player, old, flushing, thread,
                   open, told, shown>>

\* 400: no usable Transport header; 500: the sockets cannot be bound.
SetupFails(c) ==
    /\ BadRequests
    /\ pc[c] = "setup"
    /\ Goto(c, "idle")
    /\ events' = <<>>
    /\ UNCHANGED <<sessionVars, slot, flushing, thread, open, told, shown>>

SetupStarts(c) ==
    /\ pc[c] = "setup"
    /\ events' = <<Event("Started", c)>>
    /\ streaming' = [streaming EXCEPT ![c] = TRUE]
    /\ open' = [open EXCEPT ![c] = @ + 1]
    /\ Goto(c, "replay")
    /\ UNCHANGED <<params, slot, guard, pending, track, player, old, flushing, thread,
                   told, shown>>

\* Mutant: what was latched before SETUP is dropped.
ReplayDrops(c) ==
    /\ pc[c] = "replay"
    /\ events' = <<>>
    /\ pending' = [pending EXCEPT ![c] = Nothing]
    /\ Goto(c, "spawn")
    /\ UNCHANGED <<params, slot, guard, streaming, track, player, old, flushing, thread,
                   open, told, shown>>

\* The latched events, metadata first, then the sink and its thread.
Replay(c) ==
    /\ pc[c] = "replay"
    /\ LET latched(k) == IF k \in Kinds /\ pending[c][k] # None
                         THEN <<Event(k, c)>> ELSE <<>>
       IN  events' = latched("Metadata") \o latched("Artwork")
    /\ shown' = [shown EXCEPT ![c] = [k \in Kinds |->
                    IF pending[c][k] # None THEN pending[c][k] ELSE @[k]]]
    /\ pending' = [pending EXCEPT ![c] = Nothing]
    /\ Goto(c, "spawn")
    /\ UNCHANGED <<params, slot, guard, streaming, track, player, old, flushing, thread,
                   open, told>>

\* Mutant: dropping a player does not set its stop flag.
NotHalted(c) == thread

\* The playback threads once the stop flag of c's player, if any, is set.
Halted(c) == IF player[c] = None THEN thread
             ELSE [thread EXCEPT ![player[c]].stop = TRUE]

\* The name of a new thread: which of the free ones makes no difference.
Fresh == CHOOSE t \in Threads : thread[t].state = "free"

\* sink_factory and Player::spawn, whose thread has a decoder or, for a format
\* that none can be built for, drains its channel; assigning self.player then
\* drops the player of an earlier SETUP, if any, and Drop joins its thread.
Spawn(c) ==
    /\ pc[c] = "spawn"
    /\ \E t \in Threads : thread[t].state = "free"
    /\ \E begins \in {"run", "drain"} :
          thread' = [Halted(c) EXCEPT
                        ![Fresh] = [conn |-> c, state |-> begins, stop |-> FALSE]]
    /\ player' = [player EXCEPT ![c] = Fresh]
    /\ old' = [old EXCEPT ![c] = player[c]]
    /\ Goto(c, "swap")
    /\ events' = <<>>
    /\ UNCHANGED <<params, slot, guard, streaming, pending, track, flushing, open, told, shown>>

\* The old thread is joined and the tasks of the new stream are spawned; the
\* new flush channel replaces the old one.
SetupDone(c) ==
    /\ pc[c] = "swap"
    /\ \A t \in Threads : t = old[c] => thread[t].state = "free"
    /\ old' = [old EXCEPT ![c] = None]
    /\ flushing' = [flushing EXCEPT ![c] = "no"]
    /\ Goto(c, "idle")
    /\ events' = <<>>
    /\ UNCHANGED <<params, slot, guard, streaming, pending, track, player, thread,
                   open, told, shown>>

------------------------------------------------------------------------------
(* SET_PARAMETER and FLUSH. *)

\* The volume belongs to no session: it is reported whenever it comes.
SetVolume(c) ==
    /\ pc[c] = "idle"
    /\ events' = <<Event("Volume", c)>>
    /\ UNCHANGED <<pc, slot, sessionVars, flushing, thread, open, told, shown>>

\* set_metadata and set_artwork: delivered in a session, latched before one.
SetDecoration(c, k, v) ==
    /\ pc[c] = "idle"
    /\ told' = [told EXCEPT ![c][k] = v]
    /\ \/ /\ streaming[c]
          /\ events' = <<Event(k, c)>>
          /\ shown' = [shown EXCEPT ![c][k] = v]
          /\ UNCHANGED pending
       \/ /\ ~ streaming[c]
          /\ pending' = [pending EXCEPT ![c][k] = v]
          /\ events' = <<>>
          /\ UNCHANGED shown
    /\ UNCHANGED <<pc, params, slot, guard, streaming, track, player, old, flushing,
                   thread, open>>

SetProgress(c) ==
    /\ pc[c] = "idle" /\ params[c] /\ streaming[c]
    /\ track' = [track EXCEPT ![c] = TRUE]
    /\ events' = <<Event("Progress", c)>>
    /\ UNCHANGED <<pc, params, slot, guard, streaming, pending, player, old, flushing,
                   thread, open, told, shown>>

\* Bound: one FLUSH of a connection on its way at a time.
Flush(c) ==
    /\ pc[c] = "idle"
    /\ flushing[c] = "no"
    /\ flushing' = [flushing EXCEPT ![c] = IF player[c] = None THEN "no" ELSE "task"]
    /\ events' = <<Event("Flushed", c)>>
    /\ UNCHANGED <<pc, slot, sessionVars, thread, open, told, shown>>

\* The audio task empties the jitter buffer and tells the player.
TaskFlushes(c) ==
    /\ flushing[c] = "task"
    /\ flushing' = [flushing EXCEPT ![c] = "player"]
    /\ events' = <<>>
    /\ UNCHANGED <<pc, slot, sessionVars, thread, open, told, shown>>

------------------------------------------------------------------------------
(* TEARDOWN, and the end of the connection. *)

\* Mutant: the thread is not joined.
NotJoined(c) == c \in Conns

PlayerGone(c) == \A t \in Threads : t = player[c] => thread[t].state = "free"

\* Mutants: SessionEnded is sent without a session; streaming stays set.
EndsAlways(c) ==
    /\ track' = [track EXCEPT ![c] = FALSE]
    /\ streaming' = [streaming EXCEPT ![c] = FALSE]
    /\ events' = <<Event("Ended", c)>>
    /\ open' = [open EXCEPT ![c] = @ - 1]
    /\ shown' = [shown EXCEPT ![c] = Nothing]
    /\ told' = [told EXCEPT ![c] = Nothing]

StaysStreaming(c) ==
    /\ track' = [track EXCEPT ![c] = FALSE]
    /\ events' = IF open[c] > 0 THEN <<Event("Ended", c)>> ELSE <<>>
    /\ open' = [open EXCEPT ![c] = 0]
    /\ UNCHANGED <<streaming, shown, told>>

\* end_session
EndSession(c) ==
    /\ track' = [track EXCEPT ![c] = FALSE]
    /\ streaming' = [streaming EXCEPT ![c] = FALSE]
    /\ events' = IF streaming[c] THEN <<Event("Ended", c)>> ELSE <<>>
    /\ open' = [open EXCEPT ![c] = IF streaming[c] THEN @ - 1 ELSE @]
    /\ shown' = [shown EXCEPT ![c] = IF streaming[c] THEN Nothing ELSE @]
    /\ told' = [told EXCEPT ![c] = IF streaming[c] THEN Nothing ELSE @]

\* TEARDOWN stops the tasks, then drops the player ...
Teardown(c) ==
    /\ pc[c] = "idle"
    /\ thread' = Halted(c)
    /\ flushing' = [flushing EXCEPT ![c] = "no"]
    /\ Goto(c, "tdJoin")
    /\ events' = <<>>
    /\ UNCHANGED <<slot, sessionVars, open, told, shown>>

\* ... whose thread is joined before the slot is released ...
TeardownReleases(c) ==
    /\ pc[c] = "tdJoin" /\ PlayerGone(c)
    /\ player' = [player EXCEPT ![c] = None]
    /\ guard' = [guard EXCEPT ![c] = FALSE]
    /\ slot' = IF guard[c] THEN FALSE ELSE slot
    /\ Goto(c, "tdEnd")
    /\ events' = <<>>
    /\ UNCHANGED <<params, streaming, pending, track, old, flushing, thread, open, told, shown>>

\* ... and the session's end is reported last.
TeardownEnds(c) ==
    /\ pc[c] = "tdEnd"
    /\ EndSession(c)
    /\ Goto(c, "idle")
    /\ UNCHANGED <<params, slot, guard, pending, player, old, flushing, thread>>

\* The connection closes: Drop of Session ends the session first; its fields
\* are dropped after that, the player before the slot guard.
Close(c) ==
    /\ pc[c] = "idle"
    /\ sender' = [sender EXCEPT ![c] = "gone"]
    /\ EndSession(c)
    /\ flushing' = [flushing EXCEPT ![c] = "no"]
    /\ Goto(c, "drop")
    /\ UNCHANGED <<params, slot, guard, pending, player, old, thread>>

DropPlayer(c) ==
    /\ pc[c] = "drop"
    /\ thread' = Halted(c)
    /\ Goto(c, "dropJoin")
    /\ events' = <<>>
    /\ UNCHANGED <<slot, sessionVars, flushing, open, told, shown>>

DropGuard(c) ==
    /\ pc[c] = "dropJoin" /\ PlayerGone(c)
    /\ player' = [player EXCEPT ![c] = None]
    /\ guard' = [guard EXCEPT ![c] = FALSE]
    /\ slot' = IF guard[c] THEN FALSE ELSE slot
    /\ Goto(c, "closed")
    /\ events' = <<>>
    /\ UNCHANGED <<params, streaming, pending, track, old, flushing, thread, open, told, shown>>

------------------------------------------------------------------------------
(* The playback thread t: the loop of run and Position::played. *)

MoveThread(t, from, to) ==
    /\ thread[t].state = from
    /\ thread' = [thread EXCEPT ![t].state = to]
    /\ UNCHANGED <<pc, slot, sessionVars, flushing, open, told, shown>>

\* A frame or silence is received, and the stop flag is not set.
TakeFrame(t) ==
    /\ ~ thread[t].stop
    /\ MoveThread(t, "run", "playing")
    /\ events' = <<>>

\* After the write the thread copies the track anchor under its lock.
CopyTrack(t) ==
    /\ MoveThread(t, "playing", IF track[thread[t].conn] THEN "report" ELSE "run")
    /\ events' = <<>>

\* A new second of the track: reported without the lock.
ReportPosition(t) ==
    /\ MoveThread(t, "report", "run")
    /\ events' = <<Event("Progress", thread[t].conn)>>

\* The same second, or outside the track.
SkipReport(t) ==
    /\ MoveThread(t, "report", "run")
    /\ events' = <<>>

\* A draining thread throws the command away.
PlayerFlushes(t) ==
    LET c == thread[t].conn
    IN  /\ thread[t].state \in {"run", "drain"}
        /\ thread[t].state = "run" => ~ thread[t].stop
        /\ player[c] = t /\ flushing[c] = "player"
        /\ flushing' = [flushing EXCEPT ![c] = "no"]
        /\ events' = <<>>
        /\ UNCHANGED <<pc, slot, sessionVars, thread, open, told, shown>>

\* The thread ends: its sink is dropped with it.
ThreadEnds(t) ==
    /\ thread[t].stop
    /\ thread' = [thread EXCEPT ![t] = Free]
    /\ events' = <<>>
    /\ UNCHANGED <<pc, slot, sessionVars, flushing, open, told, shown>>

\* Stop wakes a thread that has a decoder, and ends its loop.
StopThread(t) == thread[t].state = "run" /\ ThreadEnds(t)

\* Without a decoder the thread throws Stop away; it ends when the last sender
\* is gone, and the audio task has one: TEARDOWN and the end of the connection
\* abort the task, and the runtime drops it; a second SETUP leaves it running.
DrainEnds(t) ==
    /\ thread[t].state = "drain"
    /\ pc[thread[t].conn] \in {"tdJoin", "dropJoin"}
    /\ ThreadEnds(t)

------------------------------------------------------------------------------
\* A handler, once it has started, does not look at the sender again.
Handler(c) ==
    /\ \/ SetupFails(c) \/ SetupStarts(c) \/ Replay(c) \/ Spawn(c) \/ SetupDone(c)
       \/ TeardownReleases(c) \/ TeardownEnds(c)
       \/ DropPlayer(c) \/ DropGuard(c)
    /\ UNCHANGED sender

\* dispatch: what the methods do, up to the first step of their handlers.
Dispatch(c) ==
    \/ Announce(c) \/ Setup(c) \/ SetVolume(c) \/ SetProgress(c) \/ Flush(c)
    \/ \E k \in Kinds, v \in Values : SetDecoration(c, k, v)
    \/ Teardown(c)

Request(c) == Admitted(c) /\ Dispatch(c)

AudioTask(c) == TaskFlushes(c) /\ UNCHANGED sender

Playback(t) ==
    /\ \/ TakeFrame(t) \/ CopyTrack(t) \/ ReportPosition(t) \/ SkipReport(t)
       \/ PlayerFlushes(t) \/ StopThread(t) \/ DrainEnds(t)
    /\ UNCHANGED sender

Next ==
    \/ \E c \in Conns :
          Connect(c) \/ Request(c) \/ Close(c) \/ Handler(c) \/ AudioTask(c)
    \/ \E t \in Threads : Playback(t)

Spec == Init /\ [][Next]_vars

------------------------------------------------------------------------------
\* Type correctness.
Labels == {"closed", "idle", "setup", "replay", "spawn", "swap",
           "tdJoin", "tdEnd", "drop", "dropJoin"}

TypeOK ==
    /\ pc \in [Conns -> Labels]
    /\ params \in [Conns -> BOOLEAN] /\ slot \in BOOLEAN
    /\ guard \in [Conns -> BOOLEAN] /\ streaming \in [Conns -> BOOLEAN]
    /\ pending \in [Conns -> [Kinds -> Values \cup {None}]]
    /\ told \in [Conns -> [Kinds -> Values \cup {None}]]
    /\ shown \in [Conns -> [Kinds -> Values \cup {None}]]
    /\ track \in [Conns -> BOOLEAN]
    /\ player \in [Conns -> Threads \cup {None}]
    /\ old \in [Conns -> Threads \cup {None}]
    /\ flushing \in [Conns -> {"no", "task", "player"}]
    /\ thread \in [Threads -> [conn : Conns, state : {"run", "playing", "report", "drain"},
                               stop : BOOLEAN] \cup {Free}]
    /\ events \in Seq([kind : EventKinds, conn : Conns])
    /\ sender \in [Conns -> {"gone", "stranger", "guest", "authorized"}]
    /\ open \in [Conns -> Nat]

Live == {t \in Threads : thread[t].state # "free"}

\* Only one sender can stream at a time: at most one connection holds the
\* slot, and a sink lives only while its connection holds it.  The order of
\* TEARDOWN and of the fields dropped with a Session is what this rests on.
OneOwner ==
    /\ \A c, d \in Conns : guard[c] /\ guard[d] => c = d
    /\ slot = (\E c \in Conns : guard[c])
    /\ \A t \in Live : guard[thread[t].conn]

\* When the host is told that a session started, no sink of another sender is
\* still alive, not even one whose thread is just being joined.
StartedAlone ==
    \A k \in 1..Len(events) : events[k].kind = "Started" =>
        \A t \in Live : thread[t].conn = events[k].conn

\* Metadata and Artwork are delivered only between SessionStarted and
\* SessionEnded of their session (events.rs), whenever the sender sends them.
DecorationInsideSession ==
    \A k \in 1..Len(events) : events[k].kind \in Kinds => open[events[k].conn] > 0

\* Between two requests of a streaming sender the host shows what the sender
\* last said, be it before SETUP (latched, latest wins) or after it, and
\* nothing from an earlier session.
HostIsUpToDate ==
    \A c \in Conns : (pc[c] = "idle" /\ streaming[c]) => shown[c] = told[c]

\* One stream has one output.  Only a second SETUP without TEARDOWN plays two
\* at once, both of the same sender, until the thread it replaces is joined.
OneSink ==
    Cardinality(Live) > 1 =>
        \E c \in Conns : pc[c] = "swap" /\ Live = {player[c], old[c]}

\* The sessions of two senders overlap only in one window: TEARDOWN released
\* the slot of the first and has not reported its end yet.
OverlapOnlyInTeardown ==
    \A c, d \in Conns : (c # d /\ streaming[c] /\ streaming[d]) =>
        "tdEnd" \in {pc[c], pc[d]}

\* The host hears of progress in a session, or while a closed connection's
\* player is still being stopped: never after TEARDOWN reported the end, and
\* never once the connection is gone.  The second case is one too many for
\* events.rs, see ProgressInsideSession.
ProgressEndsWithPlayer ==
    \A k \in 1..Len(events) : events[k].kind = "Progress" =>
        LET c == events[k].conn
        IN  streaming[c] \/ pc[c] \in {"drop", "dropJoin"}

\* What events.rs says of Progress: "Delivered only between SessionStarted and
\* SessionEnded".  It is false of a connection that closes: Drop of Session
\* reports the end before the field drops stop the player, which may report a
\* position in between.
ProgressInsideSession ==
    \A k \in 1..Len(events) : events[k].kind = "Progress" => open[events[k].conn] > 0

\* A sender who does not know the password of a protected receiver gets
\* nothing done: no event reaches the host, no slot, sink or thread is taken,
\* and nothing is stored or latched for it (dispatch, "before any method runs").
StrangersGetNothing ==
    \A c \in Conns : sender[c] = "stranger" =>
        /\ ~ params[c] /\ ~ guard[c] /\ ~ streaming[c] /\ ~ track[c]
        /\ pending[c] = Nothing /\ player[c] = None /\ flushing[c] = "no"
        /\ \A t \in Live : thread[t].conn # c
        /\ \A k \in 1..Len(events) : events[k].conn # c

------------------------------------------------------------------------------
(* What the host may rely on, whatever senders, handlers and threads do.   *)
SessionEvents == {"Started", "Progress", "Ended"}

Holders == {c \in Conns : guard[c]}

PlaysFor == [t \in Threads |-> IF thread[t].state = "free" THEN None ELSE thread[t].conn]

Heard == {e \in {events[k] : k \in 1..Len(events)} : e.kind \in SessionEvents}

Slot == INSTANCE StreamingSlot
            WITH Sinks <- Threads, holders <- Holders, sinks <- PlaysFor, heard <- Heard

\* The slot passes from one sender to the next only when no sink is alive, and
\* sessions and sinks begin only for the one who holds it: the order of the
\* statements in SETUP and TEARDOWN, and of the fields dropped with a Session.
RefinesSlot == Slot!Spec

------------------------------------------------------------------------------
(* Liveness: a handler that is not waiting for a request runs on, and a    *)
(* playback thread makes progress; the runtime drops a task it aborted,    *)
(* for which a worker must be left that no handler blocks in a join.       *)
(* Senders owe nothing.                                                    *)
Fairness ==
    /\ \A c \in Conns : WF_vars(Handler(c)) /\ WF_vars(AudioTask(c))
    /\ \A t \in Threads : WF_vars(Playback(t))

FairSpec == Spec /\ Fairness

\* Does c's handler wait for a thread without a decoder that a second SETUP
\* replaced?  The thread waits in turn for the task it would replace next.
StuckInSetup(c) ==
    pc[c] = "swap" /\ \E t \in Threads : t = old[c] /\ thread[t].state = "drain"

\* Every request is answered and every closed connection is cleaned up, slot
\* and all, although the handler first waits for a playback thread that may be
\* in the middle of a report, and a SETUP for the thread it replaces.  The one
\* exception is a second SETUP after one whose format had no decoder.
HandlersReturn ==
    \A c \in Conns :
        pc[c] \notin {"idle", "closed"} ~> pc[c] \in {"idle", "closed"} \/ StuckInSetup(c)

\* What player.rs says of Player: "Dropping it stops the thread and drops the
\* sink."  It is false of the exception above: SETUP, the connection and the
\* streaming slot then wait for ever.
DropStopsThread ==
    \A t \in Threads : thread[t].stop ~> thread[t].state = "free"
=============================================================================
